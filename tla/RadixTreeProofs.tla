-------------------------- MODULE RadixTreeProofs --------------------------
(***************************************************************************)
(* Proofs about RadixTree, for any keys, any kinds of phrases, a region of  *)
(* any size and any number of scopes.                                       *)
(***************************************************************************)
EXTENDS RadixTree, WellFoundedInduction, FiniteSetTheorems, TLAPS

(***************************************************************************)
(* Induction over the natural numbers, stated about sets.                   *)
(***************************************************************************)
(* A nonempty set of natural numbers has a least element. *)
LEMMA LeastNatural ==
  ASSUME NEW S \in SUBSET Nat, S # {}
  PROVE  \E x \in S : \A y \in S : x <= y
<1> DEFINE Less == {p \in Nat \X Nat : p[1] < p[2]}
<1>1. IsWellFoundedOn(Less, Nat)
  <2>1. OpToRel(<, Nat) = Less
    BY DEF OpToRel
  <2> QED
    BY <2>1, NatLessThanWellFounded
<1>2. \A x, y \in Nat : <<y, x>> \in Less <=> y < x
  OBVIOUS
<1> HIDE DEF Less
<1>3. PICK x \in S : \A y \in S : ~(<<y, x>> \in Less)
  BY <1>1, WFMin
<1>4. ASSUME NEW y \in S PROVE x <= y
  <2>1. x \in Nat /\ y \in Nat
    OBVIOUS
  <2>2. ~(y < x)
    BY <1>2, <1>3, <2>1
  <2> QED
    BY <2>1, <2>2
<1> QED
  BY <1>4

(* A set that holds 0 and with every number the next one holds them all. *)
LEMMA SetInduction ==
  ASSUME NEW S \in SUBSET Nat, 0 \in S, \A n \in S : n + 1 \in S
  PROVE  S = Nat
<1> SUFFICES ASSUME Nat \ S # {} PROVE FALSE
  OBVIOUS
<1>1. PICK x \in Nat \ S : \A y \in Nat \ S : x <= y
  BY LeastNatural
<1>2. x # 0 /\ x - 1 \in Nat
  BY <1>1
<1>3. x - 1 \in S
  BY <1>1, <1>2
<1> QED
  BY <1>1, <1>2, <1>3

(* A set that holds e, and with every number up to e the one before it,     *)
(* holds all the numbers up to e.                                           *)
LEMMA DownInduction ==
  ASSUME NEW e \in Nat, NEW S, e \in S, \A a \in 1 .. e : a \in S => a - 1 \in S
  PROVE  \A a \in 0 .. e : a \in S
<1> DEFINE T == {n \in Nat : n <= e => e - n \in S}
<1>1. 0 \in T
  OBVIOUS
<1>2. ASSUME NEW n \in T PROVE n + 1 \in T
  <2> SUFFICES ASSUME n + 1 <= e PROVE e - (n + 1) \in S
    OBVIOUS
  <2>1. n \in Nat /\ e - n \in 1 .. e /\ e - n \in S /\ (e - n) - 1 = e - (n + 1)
    OBVIOUS
  <2> QED
    BY <2>1
<1>3. T = Nat
  <2>1. T \in SUBSET Nat
    OBVIOUS
  <2> HIDE DEF T
  <2> QED
    BY <1>1, <1>2, <2>1, SetInduction
<1>4. ASSUME NEW a \in 0 .. e PROVE a \in S
  <2>1. e - a \in Nat /\ e - a <= e /\ e - (e - a) = a
    OBVIOUS
  <2>2. e - a \in T
    BY <1>3, <2>1
  <2> QED
    BY <2>1, <2>2
<1> QED
  BY <1>4

(* A nonempty set of natural numbers with a bound has a greatest element. *)
LEMMA GreatestNatural ==
  ASSUME NEW k \in Nat, NEW S \in SUBSET (0 .. k), S # {}
  PROVE  \E x \in S : \A y \in S : y <= x
<1> DEFINE T == {n \in Nat : n <= k /\ k - n \in S}
<1>1. T # {}
  <2>1. PICK x \in S : TRUE
    OBVIOUS
  <2>2. k - x \in T
    BY <2>1
  <2> QED
    BY <2>2
<1>2. PICK n \in T : \A m \in T : n <= m
  <2>1. T \in SUBSET Nat
    OBVIOUS
  <2> HIDE DEF T
  <2> QED
    BY <1>1, <2>1, LeastNatural
<1>3. k - n \in S
  BY <1>2
<1>4. ASSUME NEW y \in S PROVE y <= k - n
  <2>1. y \in Nat /\ k - y \in T
    OBVIOUS
  <2>2. n <= k - y /\ n \in Nat
    BY <1>2, <2>1
  <2> QED
    BY <2>1, <2>2
<1> QED
  BY <1>3, <1>4

(***************************************************************************)
(* What a tree is made of, and the form it has after a record was dropped.  *)
(***************************************************************************)
Node == [parent : Nat, smaller : Nat, greater : Nat, item : Nat,
         earlier : Nat, cell : Nat, fore : Nat, rear : Nat]
Item == [node : Nat, prev : Nat, next : Nat, earlier : Nat, bytes : Nat, owner : BOOLEAN, permanent : BOOLEAN]

Typed(t) ==
  /\ t = [nodes |-> t.nodes, items |-> t.items, keys |-> t.keys,
          end |-> t.end, lastNode |-> t.lastNode, lastItem |-> t.lastItem]
  /\ DOMAIN t.nodes \subseteq Nat \ {0} /\ t.nodes \in [DOMAIN t.nodes -> Node]
  /\ DOMAIN t.items \subseteq Nat \ {0} /\ t.items \in [DOMAIN t.items -> Item]
  /\ DOMAIN t.keys \subseteq Nat /\ t.keys \in [DOMAIN t.keys -> Seq(Bits)]
  /\ t.end \in Nat

NodeLinks(t, x) ==
  /\ x.parent \in DOMAIN t.nodes \cup {0} /\ x.smaller \in DOMAIN t.nodes \cup {0}
  /\ x.greater \in DOMAIN t.nodes \cup {0} /\ x.earlier \in DOMAIN t.nodes \cup {0}
  /\ x.item \in DOMAIN t.items \cup {0} /\ x.cell \in DOMAIN t.keys

ItemLinks(t, x) ==
  /\ x.node \in DOMAIN t.nodes /\ x.prev \in DOMAIN t.items \cup {0}
  /\ x.next \in DOMAIN t.items \cup {0} /\ x.earlier \in DOMAIN t.items \cup {0}

(* Every reference leads to a record. *)
Linked(t) ==
  /\ Typed(t)
  /\ t.lastNode \in DOMAIN t.nodes \cup {0} /\ t.lastItem \in DOMAIN t.items \cup {0}
  /\ \A n \in DOMAIN t.nodes : NodeLinks(t, t.nodes[n])
  /\ \A i \in DOMAIN t.items : ItemLinks(t, t.items[i])

ItemDropped(t, i) ==
  LET x == t.items[i] IN
  [nodes |-> [n \in DOMAIN t.nodes |->
                [parent |-> t.nodes[n].parent, smaller |-> t.nodes[n].smaller, greater |-> t.nodes[n].greater,
                 item |-> IF n = x.node THEN x.prev ELSE t.nodes[n].item,
                 earlier |-> t.nodes[n].earlier, cell |-> t.nodes[n].cell,
                 fore |-> t.nodes[n].fore, rear |-> t.nodes[n].rear]],
   items |-> [j \in DOMAIN t.items |->
                [node |-> t.items[j].node, prev |-> t.items[j].prev,
                 next |-> IF j = x.prev THEN 0 ELSE t.items[j].next,
                 earlier |-> t.items[j].earlier, bytes |-> t.items[j].bytes,
                 owner |-> t.items[j].owner, permanent |-> t.items[j].permanent]],
   keys |-> t.keys, end |-> t.end, lastNode |-> t.lastNode, lastItem |-> x.earlier]

Heir(x) == IF x.smaller # 0 THEN x.smaller ELSE x.greater

NodeDropped(t, n) ==
  LET x == t.nodes[n] 
      c == Heir(x)
      bit == Head(Edge(t, n)) IN
  [nodes |-> [k \in DOMAIN t.nodes |->
                [parent |-> IF k = c THEN x.parent ELSE t.nodes[k].parent,
                 smaller |-> IF k = x.parent /\ bit # 1 THEN c ELSE t.nodes[k].smaller,
                 greater |-> IF k = x.parent /\ bit = 1 THEN c ELSE t.nodes[k].greater,
                 item |-> t.nodes[k].item, earlier |-> t.nodes[k].earlier, cell |-> t.nodes[k].cell,
                 fore |-> IF k = c THEN x.fore ELSE t.nodes[k].fore, rear |-> t.nodes[k].rear]],
   items |-> t.items, keys |-> t.keys, end |-> t.end, lastNode |-> x.earlier, lastItem |-> t.lastItem]

LEMMA DropItemForm ==
  ASSUME NEW t, Linked(t), NEW i \in DOMAIN t.items
  PROVE  DropItem(t, i) = ItemDropped(t, i)
<1> DEFINE x == t.items[i]
<1> DEFINE nodes == [t.nodes EXCEPT ![x.node].item = x.prev]
<1> DEFINE items == [t.items EXCEPT ![x.prev].next = 0]
<1> DEFINE unlinked == [t EXCEPT !.nodes[x.node].item = x.prev, !.lastItem = x.earlier]
<1>0. Typed(t) /\ ItemLinks(t, x)
  BY DEF Linked
<1>1. unlinked = [nodes |-> nodes, items |-> t.items, keys |-> t.keys,
                  end |-> t.end, lastNode |-> t.lastNode, lastItem |-> x.earlier]
  <2> DEFINE first == [t EXCEPT !.nodes[x.node].item = x.prev]
  <2>1. unlinked = [first EXCEPT !.lastItem = x.earlier]
    OBVIOUS
  <2>2. PICK N, I, K, e, n, l : t = [nodes |-> N, items |-> I, keys |-> K, end |-> e, lastNode |-> n, lastItem |-> l]
    BY <1>0 DEF Typed
  <2>3. first = [nodes |-> [N EXCEPT ![x.node].item = x.prev], items |-> I, keys |-> K,
                 end |-> e, lastNode |-> n, lastItem |-> l]
    BY <2>2
  <2> HIDE DEF unlinked, first
  <2> QED
    BY <2>1, <2>2, <2>3
<1>2. ItemDropped(t, i).nodes = nodes
  <2>1. t.nodes \in [DOMAIN t.nodes -> Node] /\ x.node \in DOMAIN t.nodes
    BY <1>0 DEF Typed, ItemLinks
  <2> QED
    BY <2>1 DEF ItemDropped, Node
<1>i. t.items \in [DOMAIN t.items -> Item] /\ 0 \notin DOMAIN t.items /\ x.prev \in DOMAIN t.items \cup {0}
  BY <1>0 DEF Typed, ItemLinks
<1>3. x.prev # 0 => ItemDropped(t, i).items = items
  BY <1>i DEF ItemDropped, Item
<1>4. x.prev = 0 => ItemDropped(t, i).items = t.items
  BY <1>i DEF ItemDropped, Item
<1>5. CASE x.prev = 0
  <2>1. DropItem(t, i) = unlinked
    BY <1>5 DEF DropItem
  <2> QED
    BY <2>1, <1>1, <1>2, <1>4, <1>5 DEF ItemDropped
<1>6. CASE x.prev # 0
  <2>1. DropItem(t, i) = [unlinked EXCEPT !.items[x.prev].next = 0]
    BY <1>6 DEF DropItem
  <2> HIDE DEF nodes, unlinked
  <2>2. [unlinked EXCEPT !.items[x.prev].next = 0] =
          [nodes |-> nodes, items |-> items, keys |-> t.keys,
           end |-> t.end, lastNode |-> t.lastNode, lastItem |-> x.earlier]
    BY <1>1
  <2> QED
    BY <2>1, <2>2, <1>2, <1>3, <1>6 DEF ItemDropped
<1> QED
  BY <1>5, <1>6

Childed(N, p, bit, c) ==
  [k \in DOMAIN N |->
     [parent |-> N[k].parent,
      smaller |-> IF k = p /\ bit # 1 THEN c ELSE N[k].smaller,
      greater |-> IF k = p /\ bit = 1 THEN c ELSE N[k].greater,
      item |-> N[k].item, earlier |-> N[k].earlier, cell |-> N[k].cell,
      fore |-> N[k].fore, rear |-> N[k].rear]]

LEMMA SetChildForm ==
  ASSUME NEW t, NEW N, NEW I, NEW K, NEW e, NEW l, NEW m, NEW p, NEW bit, NEW c,
         t = [nodes |-> N, items |-> I, keys |-> K, end |-> e, lastNode |-> l, lastItem |-> m],
         N \in [DOMAIN N -> Node]
  PROVE  SetChild(t, p, bit, c) =
           [nodes |-> Childed(N, p, bit, c), items |-> I, keys |-> K, end |-> e, lastNode |-> l, lastItem |-> m]
<1> DEFINE G == [N EXCEPT ![p].greater = c]
<1> DEFINE S == [N EXCEPT ![p].smaller = c]
<1>1. ASSUME bit = 1 PROVE G = Childed(N, p, bit, c)
  BY <1>1 DEF Node, Childed
<1>2. ASSUME bit # 1 PROVE S = Childed(N, p, bit, c)
  BY <1>2 DEF Node, Childed
<1>3. [t EXCEPT !.nodes[p].greater = c] =
        [nodes |-> G, items |-> I, keys |-> K, end |-> e, lastNode |-> l, lastItem |-> m]
  OBVIOUS
<1>4. [t EXCEPT !.nodes[p].smaller = c] =
        [nodes |-> S, items |-> I, keys |-> K, end |-> e, lastNode |-> l, lastItem |-> m]
  OBVIOUS
<1> HIDE DEF G, S
<1>5. CASE bit = 1
  BY <1>1, <1>3, <1>5 DEF SetChild
<1>6. CASE bit # 1
  BY <1>2, <1>4, <1>6 DEF SetChild
<1> QED
  BY <1>5, <1>6

LEMMA DropNodeForm ==
  ASSUME NEW t, Linked(t), NEW n \in DOMAIN t.nodes
  PROVE  DropNode(t, n) = NodeDropped(t, n)
<1> DEFINE x == t.nodes[n]
<1> DEFINE c == Heir(x)
<1> DEFINE bit == Head(Edge(t, n))
<1> DEFINE last == [t EXCEPT !.lastNode = x.earlier]
<1>1. PICK N, I, K, e, l, m : t = [nodes |-> N, items |-> I, keys |-> K, end |-> e, lastNode |-> l, lastItem |-> m]
  BY DEF Linked, Typed
<1>2. last = [nodes |-> N, items |-> I, keys |-> K, end |-> e, lastNode |-> x.earlier, lastItem |-> m]
  BY <1>1
<1>3. N \in [DOMAIN N -> Node] /\ 0 \notin DOMAIN N /\ DOMAIN N \subseteq Nat /\ n \in DOMAIN N /\ x = N[n]
  BY <1>1 DEF Linked, Typed
<1>4. c \in DOMAIN N \cup {0} /\ x.parent \in DOMAIN N \cup {0}
  BY <1>1, <1>3 DEF Linked, NodeLinks, Heir
<1>5. /\ NodeDropped(t, n) =
            [nodes |-> NodeDropped(t, n).nodes, items |-> I, keys |-> K, end |-> e,
             lastNode |-> x.earlier, lastItem |-> m]
      /\ NodeDropped(t, n).nodes =
            [k \in DOMAIN N |->
                [parent |-> IF k = c THEN x.parent ELSE N[k].parent,
                 smaller |-> IF k = x.parent /\ bit # 1 THEN c ELSE N[k].smaller,
                 greater |-> IF k = x.parent /\ bit = 1 THEN c ELSE N[k].greater,
                 item |-> N[k].item, earlier |-> N[k].earlier, cell |-> N[k].cell,
                 fore |-> IF k = c THEN x.fore ELSE N[k].fore, rear |-> N[k].rear]]
  BY <1>1, <1>3 DEF NodeDropped
<1>x. x \in Node
  BY <1>3
<1>6. CASE c # 0
  <2> DEFINE first == [last EXCEPT !.nodes[c].parent = x.parent]
  <2> DEFINE second == [first EXCEPT !.nodes[c].fore = x.fore]
  <2>1. DropNode(t, n) = SetChild(second, x.parent, bit, c)
    BY <1>6 DEF DropNode, Heir
  <2> DEFINE M == [N EXCEPT ![c].parent = x.parent]
  <2> DEFINE O == [M EXCEPT ![c].fore = x.fore]
  <2>2. first = [nodes |-> M, items |-> I, keys |-> K, end |-> e, lastNode |-> x.earlier, lastItem |-> m]
    <3> HIDE DEF last
    <3> QED
      BY <1>2
  <2>3. second = [nodes |-> O, items |-> I, keys |-> K, end |-> e, lastNode |-> x.earlier, lastItem |-> m]
    <3> HIDE DEF first, M
    <3> QED
      BY <2>2
  <2>4. M \in [DOMAIN N -> Node] /\ \A k \in DOMAIN N : M[k] = IF k = c THEN [N[k] EXCEPT !.parent = x.parent] ELSE N[k]
    BY <1>3, <1>4 DEF Node
  <2>5. /\ O \in [DOMAIN N -> Node]
        /\ \A k \in DOMAIN N : O[k] = [parent |-> IF k = c THEN x.parent ELSE N[k].parent,
                 smaller |-> N[k].smaller, greater |-> N[k].greater,
                 item |-> N[k].item, earlier |-> N[k].earlier, cell |-> N[k].cell,
                 fore |-> IF k = c THEN x.fore ELSE N[k].fore, rear |-> N[k].rear]
    <3> HIDE DEF M, x, c
    <3>1. O \in [DOMAIN N -> Node]
      <4>1. c \in DOMAIN N /\ M[c] \in Node /\ x.fore \in Nat
        BY <1>4, <1>6, <1>x, <2>4 DEF Node
      <4>2. [M[c] EXCEPT !.fore = x.fore] \in Node
        BY <4>1 DEF Node
      <4> QED
        BY <2>4, <4>2
    <3> QED
      BY <1>3, <1>4, <1>x, <2>4, <3>1 DEF Node
  <2> HIDE DEF O, second, first, M, bit, x, c
  <2>6. SetChild(second, x.parent, bit, c) =
           [nodes |-> Childed(O, x.parent, bit, c),
            items |-> I, keys |-> K, end |-> e, lastNode |-> x.earlier, lastItem |-> m]
    <3>1. O \in [DOMAIN O -> Node]
      BY <2>5
    <3> QED
      BY <2>3, <3>1, SetChildForm
  <2>a. DOMAIN O = DOMAIN N
    BY <2>5
  <2>b. NodeDropped(t, n).nodes = Childed(O, x.parent, bit, c)
    BY <2>5, <2>a, <1>5 DEF Childed
  <2>7. SetChild(second, x.parent, bit, c) =
           [nodes |-> NodeDropped(t, n).nodes, items |-> I, keys |-> K, end |-> e, lastNode |-> x.earlier, lastItem |-> m]
    BY <2>b, <2>6
  <2> QED
    BY <2>1, <2>7, <1>5
<1>7. CASE c = 0
  <2>1. DropNode(t, n) = IF x.parent # 0 THEN SetChild(last, x.parent, bit, c) ELSE last
    BY <1>7 DEF DropNode, Heir
  <2> HIDE DEF last, bit, x, c
  <2>2. CASE x.parent # 0
    <3>1. SetChild(last, x.parent, bit, c) =
           [nodes |-> Childed(N, x.parent, bit, c),
            items |-> I, keys |-> K, end |-> e, lastNode |-> x.earlier, lastItem |-> m]
      BY <1>2, <1>3, SetChildForm
    <3>2. ASSUME NEW k \in DOMAIN N
          PROVE  k # c
      BY <1>3, <1>7
    <3>3. NodeDropped(t, n).nodes = Childed(N, x.parent, bit, c)
      BY <1>5, <3>2 DEF Childed
    <3> QED
      BY <2>1, <2>2, <3>1, <3>3, <1>5
  <2>3. CASE x.parent = 0
    <3>1. NodeDropped(t, n).nodes = N
      BY <1>3, <1>5, <1>7, <2>3 DEF Node
    <3> QED
      BY <1>2, <1>5, <2>1, <2>3, <3>1
  <2> QED
    BY <2>2, <2>3
<1> QED
  BY <1>6, <1>7

LEMMA ItemDroppedLinked ==
  ASSUME NEW t, Linked(t), NEW i \in DOMAIN t.items
  PROVE  Linked(ItemDropped(t, i))
<1> DEFINE u == ItemDropped(t, i)
<1>1. Typed(t) /\ ItemLinks(t, t.items[i]) /\ t.items[i] \in Item
  BY DEF Linked, Typed
<1>2. DOMAIN u.nodes = DOMAIN t.nodes /\ DOMAIN u.items = DOMAIN t.items /\ u.keys = t.keys
  BY DEF ItemDropped
<1>3. Typed(u)
  <2>1. \A n \in DOMAIN t.nodes : u.nodes[n] \in Node
    BY <1>1 DEF Typed, ItemDropped, Node, Item
  <2>2. \A j \in DOMAIN t.items : u.items[j] \in Item
    BY <1>1 DEF Typed, ItemDropped, Item
  <2>3. u.nodes \in [DOMAIN u.nodes -> Node] /\ u.items \in [DOMAIN u.items -> Item]
    BY <1>2, <2>1, <2>2 DEF ItemDropped
  <2> QED
    BY <1>1, <1>2, <2>3 DEF Typed, ItemDropped
<1>4. ASSUME NEW n \in DOMAIN t.nodes PROVE NodeLinks(u, u.nodes[n])
  <2>1. NodeLinks(t, t.nodes[n])
    BY DEF Linked
  <2> QED
    BY <1>1, <1>2, <2>1 DEF NodeLinks, ItemLinks, ItemDropped
<1>5. ASSUME NEW j \in DOMAIN t.items PROVE ItemLinks(u, u.items[j])
  <2>1. ItemLinks(t, t.items[j])
    BY DEF Linked
  <2> QED
    BY <1>1, <1>2, <2>1 DEF ItemLinks, ItemDropped
<1>6. u.lastNode \in DOMAIN t.nodes \cup {0} /\ u.lastItem \in DOMAIN t.items \cup {0}
  BY <1>1 DEF Linked, ItemDropped, ItemLinks
<1> QED
  BY <1>2, <1>3, <1>4, <1>5, <1>6 DEF Linked

LEMMA NodeDroppedLinked ==
  ASSUME NEW t, Linked(t), NEW n \in DOMAIN t.nodes
  PROVE  Linked(NodeDropped(t, n))
<1> DEFINE u == NodeDropped(t, n)
<1> DEFINE x == t.nodes[n]
<1>1. Typed(t) /\ NodeLinks(t, x) /\ x \in Node
  BY DEF Linked, Typed
<1>2. DOMAIN u.nodes = DOMAIN t.nodes /\ u.items = t.items /\ u.keys = t.keys
  BY DEF NodeDropped
<1>c. Heir(x) \in DOMAIN t.nodes \cup {0} /\ Heir(x) \in Nat
  BY <1>1 DEF NodeLinks, Heir, Node
<1>3. Typed(u)
  <2>1. ASSUME NEW k \in DOMAIN t.nodes PROVE u.nodes[k] \in Node
    <3>1. t.nodes[k] \in Node
      BY <1>1 DEF Typed
    <3> QED
      BY <1>1, <1>c, <3>1 DEF NodeDropped, Node
  <2>3. u.nodes \in [DOMAIN u.nodes -> Node]
    BY <1>2, <2>1 DEF NodeDropped
  <2> QED
    BY <1>1, <1>2, <2>3 DEF Typed, NodeDropped
<1>4. ASSUME NEW k \in DOMAIN t.nodes PROVE NodeLinks(u, u.nodes[k])
  <2>1. NodeLinks(t, t.nodes[k])
    BY DEF Linked
  <2> QED
    BY <1>1, <1>2, <1>c, <2>1 DEF NodeLinks, NodeDropped
<1>5. ASSUME NEW j \in DOMAIN t.items PROVE ItemLinks(u, u.items[j])
  BY <1>2 DEF Linked, ItemLinks
<1>6. u.lastNode \in DOMAIN t.nodes \cup {0} /\ u.lastItem \in DOMAIN t.items \cup {0}
  BY <1>1 DEF Linked, NodeDropped, NodeLinks
<1> QED
  BY <1>2, <1>3, <1>4, <1>5, <1>6 DEF Linked

LEMMA UnlinkItemForm ==
  ASSUME NEW t, Linked(t), NEW a \in Nat \ {0}
  PROVE  /\ UnlinkItem(t, a) = IF t.lastItem = a THEN ItemDropped(t, a) ELSE t
         /\ t.lastItem = a => a \in DOMAIN t.items
         /\ Linked(UnlinkItem(t, a)) /\ UnlinkItem(t, a).end = t.end
<1>1. t.lastItem = a => a \in DOMAIN t.items
  BY DEF Linked
<1>2. UnlinkItem(t, a) = IF t.lastItem = a THEN ItemDropped(t, a) ELSE t
  BY <1>1, DropItemForm DEF UnlinkItem
<1>3. \A x : ItemDropped(t, x).end = t.end
  BY DEF ItemDropped
<1> QED
  BY <1>1, <1>2, <1>3, ItemDroppedLinked

LEMMA UnlinkNodeForm ==
  ASSUME NEW t, Linked(t), NEW a \in Nat \ {0}
  PROVE  /\ UnlinkNode(t, a) = IF t.lastNode = a THEN NodeDropped(t, a) ELSE t
         /\ t.lastNode = a => a \in DOMAIN t.nodes
         /\ Linked(UnlinkNode(t, a)) /\ UnlinkNode(t, a).end = t.end
<1>1. t.lastNode = a => a \in DOMAIN t.nodes
  BY DEF Linked
<1>2. UnlinkNode(t, a) = IF t.lastNode = a THEN NodeDropped(t, a) ELSE t
  BY <1>1, DropNodeForm DEF UnlinkNode
<1>3. \A x : NodeDropped(t, x).end = t.end
  BY DEF NodeDropped
<1> QED
  BY <1>1, <1>2, <1>3, NodeDroppedLinked

(* Items and nodes are dropped independently of each other. *)
LEMMA UnlinkCommutes ==
  ASSUME NEW t, Linked(t), NEW a \in Nat \ {0}, NEW b \in Nat \ {0}
  PROVE  UnlinkItem(UnlinkNode(t, b), a) = UnlinkNode(UnlinkItem(t, a), b)
<1>1. CASE t.lastItem = a /\ t.lastNode = b
  <2> DEFINE u == NodeDropped(t, b)
  <2> DEFINE v == ItemDropped(t, a)
  <2>1. a \in DOMAIN t.items /\ b \in DOMAIN t.nodes
    BY <1>1 DEF Linked
  <2>2. UnlinkNode(t, b) = u /\ Linked(u) /\ u.lastItem = a /\ u.items = t.items
    BY <1>1, UnlinkNodeForm DEF NodeDropped
  <2>3. UnlinkItem(t, a) = v /\ Linked(v) /\ v.lastNode = b
    BY <1>1, UnlinkItemForm DEF ItemDropped
  <2>4. UnlinkItem(u, a) = ItemDropped(u, a)
    BY <2>2, UnlinkItemForm
  <2>5. UnlinkNode(v, b) = NodeDropped(v, b)
    BY <2>3, UnlinkNodeForm
  <2>6. /\ v.nodes[b].smaller = t.nodes[b].smaller /\ v.nodes[b].greater = t.nodes[b].greater
        /\ v.nodes[b].parent = t.nodes[b].parent /\ v.nodes[b].fore = t.nodes[b].fore
        /\ v.nodes[b].rear = t.nodes[b].rear /\ v.nodes[b].cell = t.nodes[b].cell
        /\ v.nodes[b].earlier = t.nodes[b].earlier /\ v.keys = t.keys
    BY <2>1 DEF ItemDropped
  <2>7. Heir(v.nodes[b]) = Heir(t.nodes[b]) /\ Edge(v, b) = Edge(t, b)
    BY <2>6 DEF Heir, Edge
  <2>8. DOMAIN u.nodes = DOMAIN t.nodes /\ DOMAIN v.nodes = DOMAIN t.nodes
    BY DEF NodeDropped, ItemDropped
  <2>9. ItemDropped(u, a).nodes = NodeDropped(v, b).nodes
    <3> DEFINE l == ItemDropped(u, a).nodes
    <3> DEFINE r == NodeDropped(v, b).nodes
    <3>1. l \in [DOMAIN t.nodes -> Node] /\ r \in [DOMAIN t.nodes -> Node]
      <4>1. Typed(ItemDropped(u, a)) /\ Typed(NodeDropped(v, b))
        BY <2>1, <2>2, <2>3, <2>8, ItemDroppedLinked, NodeDroppedLinked DEF Linked
      <4>2. DOMAIN l = DOMAIN u.nodes /\ DOMAIN r = DOMAIN v.nodes
        BY DEF ItemDropped, NodeDropped
      <4> HIDE DEF u, v
      <4> QED
        BY <4>1, <4>2, <2>8 DEF Typed
    <3>2. ASSUME NEW n \in DOMAIN t.nodes PROVE l[n] = r[n]
      <4>1. l[n] = [parent |-> u.nodes[n].parent, smaller |-> u.nodes[n].smaller, greater |-> u.nodes[n].greater,
                 item |-> IF n = t.items[a].node THEN t.items[a].prev ELSE u.nodes[n].item,
                 earlier |-> u.nodes[n].earlier, cell |-> u.nodes[n].cell,
                 fore |-> u.nodes[n].fore, rear |-> u.nodes[n].rear]
        BY <2>2, <2>8 DEF ItemDropped
      <4>2. r[n] = [parent |-> IF n = Heir(t.nodes[b]) THEN t.nodes[b].parent ELSE v.nodes[n].parent,
                 smaller |-> IF n = t.nodes[b].parent /\ Head(Edge(t, b)) # 1 THEN Heir(t.nodes[b]) ELSE v.nodes[n].smaller,
                 greater |-> IF n = t.nodes[b].parent /\ Head(Edge(t, b)) = 1 THEN Heir(t.nodes[b]) ELSE v.nodes[n].greater,
                 item |-> v.nodes[n].item, earlier |-> v.nodes[n].earlier, cell |-> v.nodes[n].cell,
                 fore |-> IF n = Heir(t.nodes[b]) THEN t.nodes[b].fore ELSE v.nodes[n].fore, rear |-> v.nodes[n].rear]
        BY <2>6, <2>7, <2>8 DEF NodeDropped
      <4>3. u.nodes[n] = [parent |-> IF n = Heir(t.nodes[b]) THEN t.nodes[b].parent ELSE t.nodes[n].parent,
                 smaller |-> IF n = t.nodes[b].parent /\ Head(Edge(t, b)) # 1 THEN Heir(t.nodes[b]) ELSE t.nodes[n].smaller,
                 greater |-> IF n = t.nodes[b].parent /\ Head(Edge(t, b)) = 1 THEN Heir(t.nodes[b]) ELSE t.nodes[n].greater,
                 item |-> t.nodes[n].item, earlier |-> t.nodes[n].earlier, cell |-> t.nodes[n].cell,
                 fore |-> IF n = Heir(t.nodes[b]) THEN t.nodes[b].fore ELSE t.nodes[n].fore, rear |-> t.nodes[n].rear]
        BY DEF NodeDropped
      <4>4. v.nodes[n] = [parent |-> t.nodes[n].parent, smaller |-> t.nodes[n].smaller, greater |-> t.nodes[n].greater,
                 item |-> IF n = t.items[a].node THEN t.items[a].prev ELSE t.nodes[n].item,
                 earlier |-> t.nodes[n].earlier, cell |-> t.nodes[n].cell,
                 fore |-> t.nodes[n].fore, rear |-> t.nodes[n].rear]
        BY DEF ItemDropped
      <4> HIDE DEF u, v, l, r
      <4> QED
        BY <4>1, <4>2, <4>3, <4>4
    <3> HIDE DEF l, r
    <3>3. l = r
      BY <3>1, <3>2
    <3> QED
      BY <3>3 DEF l, r
  <2>10. ItemDropped(u, a) = [nodes |-> ItemDropped(u, a).nodes, items |-> v.items, keys |-> t.keys,
           end |-> t.end, lastNode |-> t.nodes[b].earlier, lastItem |-> t.items[a].earlier]
    BY DEF ItemDropped, NodeDropped
  <2>11. NodeDropped(v, b) = [nodes |-> NodeDropped(v, b).nodes, items |-> v.items, keys |-> t.keys,
           end |-> t.end, lastNode |-> t.nodes[b].earlier, lastItem |-> t.items[a].earlier]
    BY <2>6 DEF ItemDropped, NodeDropped
  <2> HIDE DEF u, v
  <2> QED
    BY <2>2, <2>3, <2>4, <2>5, <2>9, <2>10, <2>11
<1>2. CASE t.lastItem # a
  <2>1. UnlinkNode(t, b).lastItem = t.lastItem /\ Linked(UnlinkNode(t, b))
    BY UnlinkNodeForm DEF NodeDropped
  <2> QED
    BY <1>2, <2>1 DEF UnlinkItem
<1>3. CASE t.lastNode # b
  <2>1. UnlinkItem(t, a).lastNode = t.lastNode /\ Linked(UnlinkItem(t, a))
    BY UnlinkItemForm DEF ItemDropped
  <2> QED
    BY <1>3, <2>1 DEF UnlinkNode
<1> QED
  BY <1>1, <1>2, <1>3

(***************************************************************************)
(* The loops of a restore.                                                  *)
(***************************************************************************)
(* The recursion of DropItems has a solution. *)
LEMMA ItemsBackExists ==
  ASSUME NEW t, NEW e \in Nat
  PROVE  \E f : f = [a \in 0 .. e |-> IF a = e THEN t ELSE UnlinkItem(f[a + 1], a)]
<1> DEFINE Back(m, f) == f = [a \in m .. e |-> IF a = e THEN t ELSE UnlinkItem(f[a + 1], a)]
<1> DEFINE Solved == {m \in Nat : \E f : Back(m, f)}
<1>1. e \in Solved
  <2>1. [a \in e .. e |-> t] = [a \in e .. e |-> IF a = e THEN t ELSE UnlinkItem([b \in e .. e |-> t][a + 1], a)]
    OBVIOUS
  <2> QED
    BY <2>1
<1>2. ASSUME NEW m \in 1 .. e, m \in Solved PROVE m - 1 \in Solved
  <2>1. PICK f : Back(m, f)
    BY <1>2
  <2>2. m \in Nat /\ m - 1 \in Nat
    OBVIOUS
  <2> DEFINE g == [a \in m - 1 .. e |-> IF a = m - 1 THEN UnlinkItem(f[m], m - 1) ELSE f[a]]
  <2>3. ASSUME NEW a \in m - 1 .. e
        PROVE  g[a] = IF a = e THEN t ELSE UnlinkItem(g[a + 1], a)
    <3>1. CASE a = m - 1
      <4>1. a + 1 = m /\ m \in m - 1 .. e /\ m # m - 1 /\ a # e
        BY <3>1, <2>2
      <4>2. g[a + 1] = f[m]
        BY <4>1
      <4> QED
        BY <3>1, <4>1, <4>2
    <3>2. CASE a # m - 1
      <4>1. a \in m .. e
        BY <3>2, <2>2
      <4>2. f[a] = IF a = e THEN t ELSE UnlinkItem(f[a + 1], a)
        BY <2>1, <4>1
      <4>3. a # e => a + 1 \in m - 1 .. e /\ a + 1 # m - 1
        BY <4>1, <2>2
      <4>4. a # e => g[a + 1] = f[a + 1]
        BY <4>3
      <4> QED
        BY <3>2, <4>2, <4>4
    <3> QED
      BY <3>1, <3>2
  <2>4. Back(m - 1, g)
    BY <2>3
  <2> HIDE DEF g, Back
  <2> QED
    BY <2>2, <2>4
<1>3. 0 \in Solved
  <2> HIDE DEF Solved
  <2> QED
    BY <1>1, <1>2, DownInduction
<1> QED
  BY <1>3

LEMMA DropItemsStep ==
  ASSUME NEW t, t.end \in Nat
  PROVE  /\ DropItems(t, t.end) = t
         /\ \A a \in Nat : a < t.end => DropItems(t, a) = UnlinkItem(DropItems(t, a + 1), a)
<1> DEFINE F == CHOOSE f : f = [a \in 0 .. t.end |-> IF a = t.end THEN t ELSE UnlinkItem(f[a + 1], a)]
<1>1. \A a : DropItems(t, a) = F[a]
  BY DEF DropItems
<1>2. F = [a \in 0 .. t.end |-> IF a = t.end THEN t ELSE UnlinkItem(F[a + 1], a)]
  BY ItemsBackExists
<1> HIDE DEF F
<1>3. F[t.end] = t
  <2>1. t.end \in 0 .. t.end
    OBVIOUS
  <2> QED
    BY <1>2, <2>1
<1>4. ASSUME NEW a \in Nat, a < t.end PROVE F[a] = UnlinkItem(F[a + 1], a)
  <2>1. a \in 0 .. t.end /\ a # t.end
    BY <1>4
  <2> QED
    BY <1>2, <2>1
<1> QED
  BY <1>1, <1>3, <1>4

(* The recursion of DropNodes has a solution. *)
LEMMA NodesBackExists ==
  ASSUME NEW t, NEW e \in Nat
  PROVE  \E f : f = [a \in 0 .. e |-> IF a = e THEN t ELSE UnlinkNode(f[a + 1], a)]
<1> DEFINE Back(m, f) == f = [a \in m .. e |-> IF a = e THEN t ELSE UnlinkNode(f[a + 1], a)]
<1> DEFINE Solved == {m \in Nat : \E f : Back(m, f)}
<1>1. e \in Solved
  <2>1. [a \in e .. e |-> t] = [a \in e .. e |-> IF a = e THEN t ELSE UnlinkNode([b \in e .. e |-> t][a + 1], a)]
    OBVIOUS
  <2> QED
    BY <2>1
<1>2. ASSUME NEW m \in 1 .. e, m \in Solved PROVE m - 1 \in Solved
  <2>1. PICK f : Back(m, f)
    BY <1>2
  <2>2. m \in Nat /\ m - 1 \in Nat
    OBVIOUS
  <2> DEFINE g == [a \in m - 1 .. e |-> IF a = m - 1 THEN UnlinkNode(f[m], m - 1) ELSE f[a]]
  <2>3. ASSUME NEW a \in m - 1 .. e
        PROVE  g[a] = IF a = e THEN t ELSE UnlinkNode(g[a + 1], a)
    <3>1. CASE a = m - 1
      <4>1. a + 1 = m /\ m \in m - 1 .. e /\ m # m - 1 /\ a # e
        BY <3>1, <2>2
      <4>2. g[a + 1] = f[m]
        BY <4>1
      <4> QED
        BY <3>1, <4>1, <4>2
    <3>2. CASE a # m - 1
      <4>1. a \in m .. e
        BY <3>2, <2>2
      <4>2. f[a] = IF a = e THEN t ELSE UnlinkNode(f[a + 1], a)
        BY <2>1, <4>1
      <4>3. a # e => a + 1 \in m - 1 .. e /\ a + 1 # m - 1
        BY <4>1, <2>2
      <4>4. a # e => g[a + 1] = f[a + 1]
        BY <4>3
      <4> QED
        BY <3>2, <4>2, <4>4
    <3> QED
      BY <3>1, <3>2
  <2>4. Back(m - 1, g)
    BY <2>3
  <2> HIDE DEF g, Back
  <2> QED
    BY <2>2, <2>4
<1>3. 0 \in Solved
  <2> HIDE DEF Solved
  <2> QED
    BY <1>1, <1>2, DownInduction
<1> QED
  BY <1>3

LEMMA DropNodesStep ==
  ASSUME NEW t, t.end \in Nat
  PROVE  /\ DropNodes(t, t.end) = t
         /\ \A a \in Nat : a < t.end => DropNodes(t, a) = UnlinkNode(DropNodes(t, a + 1), a)
<1> DEFINE F == CHOOSE f : f = [a \in 0 .. t.end |-> IF a = t.end THEN t ELSE UnlinkNode(f[a + 1], a)]
<1>1. \A a : DropNodes(t, a) = F[a]
  BY DEF DropNodes
<1>2. F = [a \in 0 .. t.end |-> IF a = t.end THEN t ELSE UnlinkNode(F[a + 1], a)]
  BY NodesBackExists
<1> HIDE DEF F
<1>3. F[t.end] = t
  <2>1. t.end \in 0 .. t.end
    OBVIOUS
  <2> QED
    BY <1>2, <2>1
<1>4. ASSUME NEW a \in Nat, a < t.end PROVE F[a] = UnlinkNode(F[a + 1], a)
  <2>1. a \in 0 .. t.end /\ a # t.end
    BY <1>4
  <2> QED
    BY <1>2, <2>1
<1> QED
  BY <1>1, <1>3, <1>4

Undone(t, a) == DropNodes(DropItems(t, a), a)

LEMMA DropItemsLinked ==
  ASSUME NEW t, Linked(t), NEW a \in 1 .. t.end
  PROVE  Linked(DropItems(t, a)) /\ DropItems(t, a).end = t.end
<1> DEFINE S == {b \in Nat : b # 0 => Linked(DropItems(t, b)) /\ DropItems(t, b).end = t.end}
<1>1. t.end \in Nat
  BY DEF Linked, Typed
<1>2. t.end \in S
  BY <1>1, DropItemsStep
<1>3. ASSUME NEW b \in 1 .. t.end, b \in S PROVE b - 1 \in S
  <2> SUFFICES ASSUME b - 1 # 0
               PROVE  Linked(DropItems(t, b - 1)) /\ DropItems(t, b - 1).end = t.end
    BY <1>1
  <2>1. b - 1 \in Nat \ {0} /\ b - 1 < t.end /\ (b - 1) + 1 = b
    BY <1>1
  <2>2. DropItems(t, b - 1) = UnlinkItem(DropItems(t, b), b - 1)
    BY <1>1, <2>1, DropItemsStep
  <2>3. Linked(DropItems(t, b)) /\ DropItems(t, b).end = t.end
    BY <1>3
  <2> QED
    BY <2>1, <2>2, <2>3, UnlinkItemForm
<1>4. a \in S
  <2> HIDE DEF S
  <2> QED
    BY <1>1, <1>2, <1>3, DownInduction
<1> QED
  BY <1>4

LEMMA DropNodesLinked ==
  ASSUME NEW t, Linked(t), NEW a \in 1 .. t.end
  PROVE  Linked(DropNodes(t, a)) /\ DropNodes(t, a).end = t.end
<1> DEFINE S == {b \in Nat : b # 0 => Linked(DropNodes(t, b)) /\ DropNodes(t, b).end = t.end}
<1>1. t.end \in Nat
  BY DEF Linked, Typed
<1>2. t.end \in S
  BY <1>1, DropNodesStep
<1>3. ASSUME NEW b \in 1 .. t.end, b \in S PROVE b - 1 \in S
  <2> SUFFICES ASSUME b - 1 # 0
               PROVE  Linked(DropNodes(t, b - 1)) /\ DropNodes(t, b - 1).end = t.end
    BY <1>1
  <2>1. b - 1 \in Nat \ {0} /\ b - 1 < t.end /\ (b - 1) + 1 = b
    BY <1>1
  <2>2. DropNodes(t, b - 1) = UnlinkNode(DropNodes(t, b), b - 1)
    BY <1>1, <2>1, DropNodesStep
  <2>3. Linked(DropNodes(t, b)) /\ DropNodes(t, b).end = t.end
    BY <1>3
  <2> QED
    BY <2>1, <2>2, <2>3, UnlinkNodeForm
<1>4. a \in S
  <2> HIDE DEF S
  <2> QED
    BY <1>1, <1>2, <1>3, DownInduction
<1> QED
  BY <1>4

LEMMA DropNodesCommutes ==
  ASSUME NEW t, Linked(t), NEW i \in Nat \ {0}, NEW a \in 1 .. t.end
  PROVE  DropNodes(UnlinkItem(t, i), a) = UnlinkItem(DropNodes(t, a), i)
<1> DEFINE u == UnlinkItem(t, i)
<1> DEFINE S == {b \in Nat : b # 0 => DropNodes(u, b) = UnlinkItem(DropNodes(t, b), i)}
<1>1. t.end \in Nat /\ Linked(u) /\ u.end = t.end
  BY UnlinkItemForm DEF Linked, Typed
<1>2. t.end \in S
  <2> HIDE DEF u
  <2>1. DropNodes(u, t.end) = u /\ DropNodes(t, t.end) = t
    BY <1>1, DropNodesStep
  <2> QED
    BY <1>1, <2>1 DEF u
<1>3. ASSUME NEW b \in 1 .. t.end, b \in S PROVE b - 1 \in S
  <2> SUFFICES ASSUME b - 1 # 0
               PROVE  DropNodes(u, b - 1) = UnlinkItem(DropNodes(t, b - 1), i)
    BY <1>1
  <2>1. b - 1 \in Nat \ {0} /\ b - 1 < t.end /\ (b - 1) + 1 = b
    BY <1>1
  <2>2. DropNodes(t, b - 1) = UnlinkNode(DropNodes(t, b), b - 1)
    BY <1>1, <2>1, DropNodesStep
  <2>3. DropNodes(u, b - 1) = UnlinkNode(DropNodes(u, b), b - 1)
    <3> HIDE DEF u
    <3> QED
      BY <1>1, <2>1, DropNodesStep
  <2>4. DropNodes(u, b) = UnlinkItem(DropNodes(t, b), i)
    BY <1>3
  <2>5. Linked(DropNodes(t, b))
    BY DropNodesLinked
  <2> HIDE DEF u
  <2> QED
    BY <2>1, <2>2, <2>3, <2>4, <2>5, UnlinkCommutes
<1>4. a \in S
  <2> HIDE DEF S
  <2> QED
    BY <1>1, <1>2, <1>3, DownInduction
<1> QED
  BY <1>4

(* Both loops at once. *)
LEMMA UndoneStep ==
  ASSUME NEW t, Linked(t), t.end # 0
  PROVE  /\ Undone(t, t.end) = t
         /\ \A a \in 1 .. t.end : Linked(Undone(t, a)) /\ Undone(t, a).end = t.end
         /\ \A a \in 1 .. t.end - 1 : Undone(t, a) = UnlinkNode(UnlinkItem(Undone(t, a + 1), a), a)
<1>1. t.end \in Nat /\ t.end \in 1 .. t.end
  BY DEF Linked, Typed
<1>2. Undone(t, t.end) = t
  BY <1>1, DropItemsStep, DropNodesStep DEF Undone
<1>3. ASSUME NEW a \in 1 .. t.end PROVE Linked(Undone(t, a)) /\ Undone(t, a).end = t.end
  <2>1. Linked(DropItems(t, a)) /\ DropItems(t, a).end = t.end
    BY DropItemsLinked
  <2> QED
    BY <2>1, DropNodesLinked DEF Undone
<1>4. ASSUME NEW a \in 1 .. t.end - 1
      PROVE  Undone(t, a) = UnlinkNode(UnlinkItem(Undone(t, a + 1), a), a)
  <2> DEFINE u == DropItems(t, a + 1)
  <2>1. a \in Nat \ {0} /\ a < t.end /\ a \in 1 .. t.end /\ a + 1 \in 1 .. t.end
    BY <1>1
  <2>2. Linked(u) /\ u.end = t.end
    BY <2>1, DropItemsLinked
  <2>3. DropItems(t, a) = UnlinkItem(u, a)
    BY <1>1, <2>1, DropItemsStep
  <2> HIDE DEF u
  <2>4. DropNodes(UnlinkItem(u, a), a) = UnlinkItem(DropNodes(u, a), a)
    BY <2>1, <2>2, DropNodesCommutes
  <2>5. DropNodes(u, a) = UnlinkNode(DropNodes(u, a + 1), a)
    BY <1>1, <2>1, <2>2, DropNodesStep
  <2>6. Linked(DropNodes(u, a + 1))
    BY <2>1, <2>2, DropNodesLinked
  <2>7. UnlinkItem(UnlinkNode(DropNodes(u, a + 1), a), a) = UnlinkNode(UnlinkItem(DropNodes(u, a + 1), a), a)
    BY <2>1, <2>6, UnlinkCommutes
  <2> QED
    BY <2>3, <2>4, <2>5, <2>7 DEF Undone, u
<1> QED
  BY <1>2, <1>3, <1>4

(***************************************************************************)
(* Trees that look alike to a restore down to an address m: one may have    *)
(* records besides those of the other, at m or above, that nothing leads    *)
(* to, and other contents of the items there.                               *)
(***************************************************************************)
Cut(t, m) ==
  [nodes |-> Below(t.nodes, m), items |-> Below(t.items, m), keys |-> Below(t.keys, m),
   end |-> m, lastNode |-> t.lastNode, lastItem |-> t.lastItem]

LEMMA RestoreForm ==
  ASSUME NEW t, Linked(t), NEW m \in 1 .. t.end
  PROVE  Restore(t, m) = Cut(Undone(t, m), m)
<1> DEFINE u == Undone(t, m)
<1>1. Linked(u)
  <2>1. t.end # 0
    BY DEF Linked, Typed
  <2> QED
    BY <2>1, UndoneStep
<1>2. PICK N, I, K, e, l, i : u = [nodes |-> N, items |-> I, keys |-> K, end |-> e, lastNode |-> l, lastItem |-> i]
  BY <1>1 DEF Linked, Typed
<1>3. Restore(t, m) = [u EXCEPT !.nodes = Below(@, m), !.items = Below(@, m), !.keys = Below(@, m), !.end = m]
  BY DEF Restore, Undone
<1> HIDE DEF u
<1> DEFINE first == [u EXCEPT !.nodes = Below(N, m)]
<1> DEFINE second == [first EXCEPT !.items = Below(I, m)]
<1> DEFINE third == [second EXCEPT !.keys = Below(K, m)]
<1>4. first = [nodes |-> Below(N, m), items |-> I, keys |-> K, end |-> e, lastNode |-> l, lastItem |-> i]
  BY <1>2
<1>5. second = [nodes |-> Below(N, m), items |-> Below(I, m), keys |-> K, end |-> e, lastNode |-> l, lastItem |-> i]
  <2> HIDE DEF first
  <2> QED
    BY <1>4
<1>6. third = [nodes |-> Below(N, m), items |-> Below(I, m), keys |-> Below(K, m), end |-> e, lastNode |-> l, lastItem |-> i]
  <2> HIDE DEF second
  <2> QED
    BY <1>5
<1>7. [u EXCEPT !.nodes = Below(@, m), !.items = Below(@, m), !.keys = Below(@, m), !.end = m] = [third EXCEPT !.end = m]
  BY <1>2, <1>4, <1>5
<1> HIDE DEF third
<1>8. [third EXCEPT !.end = m] = Cut(u, m)
  BY <1>2, <1>6 DEF Cut
<1> QED
  BY <1>3, <1>7, <1>8 DEF u

Alike(u, v, m) ==
  /\ u.lastItem = v.lastItem /\ u.lastNode = v.lastNode
  /\ DOMAIN v.nodes \subseteq DOMAIN u.nodes /\ \A a \in DOMAIN u.nodes \ DOMAIN v.nodes : a >= m
  /\ DOMAIN v.items \subseteq DOMAIN u.items /\ \A a \in DOMAIN u.items \ DOMAIN v.items : a >= m
  /\ DOMAIN v.keys \subseteq DOMAIN u.keys /\ \A a \in DOMAIN u.keys \ DOMAIN v.keys : a >= m
  /\ \A n \in DOMAIN v.nodes : u.nodes[n] = v.nodes[n]
  /\ \A c \in DOMAIN v.keys : u.keys[c] = v.keys[c]
  /\ \A i \in DOMAIN v.items :
       /\ u.items[i].node = v.items[i].node /\ u.items[i].prev = v.items[i].prev
       /\ u.items[i].earlier = v.items[i].earlier
       /\ i < m => u.items[i] = v.items[i]

LEMMA AlikeUnlinkItem ==
  ASSUME NEW u, NEW v, NEW m \in Nat, NEW a \in Nat \ {0}, Linked(u), Linked(v), Alike(u, v, m)
  PROVE  Alike(UnlinkItem(u, a), UnlinkItem(v, a), m)
<1>1. CASE v.lastItem # a
  BY <1>1 DEF UnlinkItem, Alike
<1>2. CASE v.lastItem = a
  <2> DEFINE p == ItemDropped(u, a)
  <2> DEFINE q == ItemDropped(v, a)
  <2>1. UnlinkItem(u, a) = p /\ UnlinkItem(v, a) = q /\ a \in DOMAIN v.items
    BY <1>2, UnlinkItemForm DEF Alike
  <2>2. /\ u.items[a].node = v.items[a].node /\ u.items[a].prev = v.items[a].prev
        /\ u.items[a].earlier = v.items[a].earlier
    BY <2>1 DEF Alike
  <2>3. /\ DOMAIN p.nodes = DOMAIN u.nodes /\ DOMAIN p.items = DOMAIN u.items /\ p.keys = u.keys
        /\ DOMAIN q.nodes = DOMAIN v.nodes /\ DOMAIN q.items = DOMAIN v.items /\ q.keys = v.keys
        /\ p.lastItem = q.lastItem /\ p.lastNode = u.lastNode /\ q.lastNode = v.lastNode
    BY <2>2 DEF ItemDropped
  <2>4. ASSUME NEW n \in DOMAIN v.nodes PROVE p.nodes[n] = q.nodes[n]
    <3>1. n \in DOMAIN u.nodes /\ u.nodes[n] = v.nodes[n]
      BY DEF Alike
    <3> QED
      BY <2>2, <3>1 DEF ItemDropped
  <2>5. ASSUME NEW i \in DOMAIN v.items
        PROVE  /\ p.items[i].node = q.items[i].node /\ p.items[i].prev = q.items[i].prev
               /\ p.items[i].earlier = q.items[i].earlier
               /\ i < m => p.items[i] = q.items[i]
    <3>1. /\ i \in DOMAIN u.items
          /\ u.items[i].node = v.items[i].node /\ u.items[i].prev = v.items[i].prev
          /\ u.items[i].earlier = v.items[i].earlier
          /\ i < m => u.items[i] = v.items[i]
      BY DEF Alike
    <3> QED
      BY <2>2, <3>1 DEF ItemDropped
  <2> HIDE DEF p, q
  <2> QED
    BY <2>1, <2>3, <2>4, <2>5 DEF Alike
<1> QED
  BY <1>1, <1>2

LEMMA AlikeUnlinkNode ==
  ASSUME NEW u, NEW v, NEW m \in Nat, NEW a \in Nat \ {0}, Linked(u), Linked(v), Alike(u, v, m)
  PROVE  Alike(UnlinkNode(u, a), UnlinkNode(v, a), m)
<1>1. CASE v.lastNode # a
  BY <1>1 DEF UnlinkNode, Alike
<1>2. CASE v.lastNode = a
  <2> DEFINE p == NodeDropped(u, a)
  <2> DEFINE q == NodeDropped(v, a)
  <2>1. UnlinkNode(u, a) = p /\ UnlinkNode(v, a) = q /\ a \in DOMAIN v.nodes
    BY <1>2, UnlinkNodeForm DEF Alike
  <2>2. u.nodes[a] = v.nodes[a] /\ Edge(u, a) = Edge(v, a)
    <3>1. v.nodes[a].cell \in DOMAIN v.keys
      BY <2>1 DEF Linked, NodeLinks
    <3> QED
      BY <2>1, <3>1 DEF Alike, Edge
  <2>3. /\ DOMAIN p.nodes = DOMAIN u.nodes /\ p.items = u.items /\ p.keys = u.keys
        /\ DOMAIN q.nodes = DOMAIN v.nodes /\ q.items = v.items /\ q.keys = v.keys
        /\ p.lastNode = q.lastNode /\ p.lastItem = u.lastItem /\ q.lastItem = v.lastItem
    BY <2>2 DEF NodeDropped
  <2>4. ASSUME NEW n \in DOMAIN v.nodes PROVE p.nodes[n] = q.nodes[n]
    <3>1. n \in DOMAIN u.nodes /\ u.nodes[n] = v.nodes[n]
      BY DEF Alike
    <3> QED
      BY <2>2, <3>1 DEF NodeDropped
  <2> HIDE DEF p, q
  <2> QED
    BY <2>1, <2>3, <2>4 DEF Alike
<1> QED
  BY <1>1, <1>2

LEMMA AlikeCut ==
  ASSUME NEW u, NEW v, NEW m \in Nat, Linked(u), Linked(v), Alike(u, v, m)
  PROVE  Cut(u, m) = Cut(v, m)
<1>1. Typed(u) /\ Typed(v)
  BY DEF Linked
<1>2. Below(u.nodes, m) = Below(v.nodes, m)
  <2>1. {b \in DOMAIN u.nodes : b < m} = {b \in DOMAIN v.nodes : b < m}
    BY <1>1 DEF Alike, Typed
  <2> QED
    BY <2>1 DEF Alike, Below
<1>3. Below(u.items, m) = Below(v.items, m)
  <2>1. {b \in DOMAIN u.items : b < m} = {b \in DOMAIN v.items : b < m}
    BY <1>1 DEF Alike, Typed
  <2> QED
    BY <2>1 DEF Alike, Below
<1>4. Below(u.keys, m) = Below(v.keys, m)
  <2>1. {b \in DOMAIN u.keys : b < m} = {b \in DOMAIN v.keys : b < m}
    BY <1>1 DEF Alike, Typed
  <2> QED
    BY <2>1 DEF Alike, Below
<1> QED
  BY <1>2, <1>3, <1>4 DEF Cut, Alike

(* A restore does not see what has been put on top of a tree, once that is  *)
(* taken off.                                                               *)
LEMMA RestoreAgrees ==
  ASSUME NEW u, NEW v, Linked(u), Linked(v), v.end # 0, v.end <= u.end,
         NEW m \in 1 .. v.end, Alike(Undone(u, v.end), v, m)
  PROVE  Restore(u, m) = Restore(v, m)
<1>1. v.end \in Nat /\ u.end \in Nat /\ u.end # 0 /\ m \in Nat /\ m \in 1 .. u.end
  BY DEF Linked, Typed
<1> DEFINE S == {a \in Nat : a >= m => Alike(Undone(u, a), Undone(v, a), m)}
<1>2. v.end \in S
  BY <1>1, UndoneStep
<1>3. ASSUME NEW a \in 1 .. v.end, a \in S PROVE a - 1 \in S
  <2> SUFFICES ASSUME a - 1 >= m PROVE Alike(Undone(u, a - 1), Undone(v, a - 1), m)
    BY <1>1
  <2>1. /\ a - 1 \in 1 .. v.end - 1 /\ a - 1 \in 1 .. u.end - 1 /\ (a - 1) + 1 = a
        /\ a \in 1 .. v.end /\ a \in 1 .. u.end /\ a - 1 \in Nat \ {0}
    BY <1>1
  <2>2. Alike(Undone(u, a), Undone(v, a), m)
    BY <1>1, <1>3
  <2>3. Linked(Undone(u, a)) /\ Linked(Undone(v, a))
    BY <1>1, <2>1, UndoneStep
  <2>4. /\ Undone(u, a - 1) = UnlinkNode(UnlinkItem(Undone(u, a), a - 1), a - 1)
        /\ Undone(v, a - 1) = UnlinkNode(UnlinkItem(Undone(v, a), a - 1), a - 1)
    BY <1>1, <2>1, UndoneStep
  <2>5. /\ Linked(UnlinkItem(Undone(u, a), a - 1)) /\ Linked(UnlinkItem(Undone(v, a), a - 1))
        /\ Alike(UnlinkItem(Undone(u, a), a - 1), UnlinkItem(Undone(v, a), a - 1), m)
    BY <1>1, <2>1, <2>2, <2>3, UnlinkItemForm, AlikeUnlinkItem
  <2> QED
    BY <1>1, <2>1, <2>4, <2>5, AlikeUnlinkNode
<1>4. Alike(Undone(u, m), Undone(v, m), m)
  <2>1. m \in S
    <3> HIDE DEF S
    <3> QED
      BY <1>1, <1>2, <1>3, DownInduction
  <2> QED
    BY <1>1, <2>1
<1>5. Linked(Undone(u, m)) /\ Linked(Undone(v, m))
  BY <1>1, UndoneStep
<1> QED
  BY <1>1, <1>4, <1>5, AlikeCut, RestoreForm

(***************************************************************************)
(* Sound trees.                                                             *)
(***************************************************************************)
ChildGood(t, n, c, bit) ==
  c # 0 => /\ t.nodes[c].parent = n /\ t.nodes[c].fore < t.nodes[c].rear
           /\ t.keys[t.nodes[c].cell][t.nodes[c].fore + 1] = bit

NodeGood(t, n) ==
  LET x == t.nodes[n] IN
  /\ x.earlier < n
  /\ x.fore <= x.rear /\ x.rear <= Len(t.keys[x.cell])
  /\ ChildGood(t, n, x.smaller, 0) /\ ChildGood(t, n, x.greater, 1)
  /\ x.item # 0 => t.items[x.item].node = n /\ t.items[x.item].next = 0

ItemGood(t, i) ==
  LET x == t.items[i] IN
  /\ x.prev < i /\ x.earlier < i
  /\ x.owner => i + 1 \in DOMAIN t.nodes
  /\ \A a \in Nat : i < a /\ a <= i + x.bytes =>
       a < t.end /\ a \notin DOMAIN t.items /\ a \notin DOMAIN t.keys /\ (a \in DOMAIN t.nodes => x.owner /\ a = i + 1)

(* Besides leading to records, the children of a node are its own and lie   *)
(* on the side of their first bit, the newest item of a node is its own and *)
(* has none after it, chains lead downwards and contents overlay nothing.   *)
Good(t) ==
  /\ Linked(t)
  /\ t.end >= 2 /\ Root \in DOMAIN t.nodes /\ 0 \in DOMAIN t.keys
  /\ \A a \in DOMAIN t.nodes : a < t.end
  /\ \A a \in DOMAIN t.items : a < t.end
  /\ \A a \in DOMAIN t.keys : a < t.end
  /\ \A n \in DOMAIN t.nodes : NodeGood(t, n)
  /\ \A i \in DOMAIN t.items : ItemGood(t, i)

(* Between definitions the contents of the newest item end where memory     *)
(* does.                                                                    *)
Packed(t) == t.lastItem # 0 => t.end = t.lastItem + t.items[t.lastItem].bytes + 1

Sound(t) == Good(t) /\ Packed(t)

IInv ==
  /\ program \in Programs
  /\ Sound(tree) /\ tree.end <= program.memory
  /\ marks \in Seq(Nat)
  /\ \A i \in DOMAIN marks : 2 <= marks[i] /\ marks[i] <= tree.end
  /\ \A i, j \in DOMAIN marks : i < j => marks[i] <= marks[j]
  /\ \A i \in DOMAIN marks : Sound(Restore(tree, marks[i]))
  /\ marks # <<>> => tree.lastItem >= marks[Len(marks)]
  /\ \A i, j \in DOMAIN marks : i = j + 1 => Restore(tree, marks[i]).lastItem >= marks[j]

(***************************************************************************)
(* What is put on top of a tree: the form of the tree then, that it is good *)
(* again and that a restore to any earlier address does not see it.         *)
(***************************************************************************)
Leafed(t, n, rest) ==
  LET a == t.end IN
  [nodes |-> [k \in DOMAIN t.nodes \cup {a} |->
                IF k = a
                THEN [parent |-> n, smaller |-> 0, greater |-> 0, item |-> 0,
                      earlier |-> t.lastNode, cell |-> a + 1, fore |-> 0, rear |-> Len(rest)]
                ELSE [parent |-> t.nodes[k].parent,
                      smaller |-> IF k = n /\ Head(rest) # 1 THEN a ELSE t.nodes[k].smaller,
                      greater |-> IF k = n /\ Head(rest) = 1 THEN a ELSE t.nodes[k].greater,
                      item |-> t.nodes[k].item, earlier |-> t.nodes[k].earlier, cell |-> t.nodes[k].cell,
                      fore |-> t.nodes[k].fore, rear |-> t.nodes[k].rear]],
   items |-> t.items, keys |-> Put(t.keys, a + 1, rest),
   end |-> a + 2, lastNode |-> a, lastItem |-> t.lastItem]

LEMMA NewLeafForm ==
  ASSUME NEW t, Good(t), NEW n \in DOMAIN t.nodes, NEW rest \in Seq(Bits)
  PROVE  NewLeaf(t, n, rest) = IF t.end + 2 > program.memory THEN Result(t, 0) ELSE Result(Leafed(t, n, rest), t.end)
<1> DEFINE a == t.end
<1> DEFINE leaf == [Embedded EXCEPT !.parent = n, !.earlier = t.lastNode, !.cell = a + 1, !.rear = Len(rest)]
<1> DEFINE grown == [t EXCEPT !.nodes = Put(@, a, leaf), !.keys = Put(@, a + 1, rest), !.end = a + 2, !.lastNode = a]
<1>0. Typed(t) /\ a \notin DOMAIN t.nodes /\ a \in Nat /\ t.lastNode \in Nat /\ n \in Nat /\ Len(rest) \in Nat
  BY DEF Good, Linked, Typed
<1>1. NewLeaf(t, n, rest) = IF a + 2 > program.memory THEN Result(t, 0)
                            ELSE Result(SetChild(grown, n, Head(rest), a), a)
  BY DEF NewLeaf
<1>2. PICK N, I, K, e, l, i : t = [nodes |-> N, items |-> I, keys |-> K, end |-> e, lastNode |-> l, lastItem |-> i]
  BY <1>0 DEF Typed
<1>3. leaf = [parent |-> n, smaller |-> 0, greater |-> 0, item |-> 0,
              earlier |-> l, cell |-> a + 1, fore |-> 0, rear |-> Len(rest)]
  <2> DEFINE first == [Embedded EXCEPT !.parent = n]
  <2> DEFINE second == [first EXCEPT !.earlier = l]
  <2> DEFINE third == [second EXCEPT !.cell = a + 1]
  <2>1. first = [parent |-> n, smaller |-> 0, greater |-> 0, item |-> 0, earlier |-> 0, cell |-> 0, fore |-> 0, rear |-> 0]
    BY DEF Embedded
  <2> HIDE DEF first
  <2>2. second = [parent |-> n, smaller |-> 0, greater |-> 0, item |-> 0, earlier |-> l, cell |-> 0, fore |-> 0, rear |-> 0]
    BY <2>1
  <2> HIDE DEF second
  <2>3. third = [parent |-> n, smaller |-> 0, greater |-> 0, item |-> 0, earlier |-> l, cell |-> a + 1, fore |-> 0, rear |-> 0]
    BY <2>2
  <2> HIDE DEF third
  <2>4. leaf = [third EXCEPT !.rear = Len(rest)]
    BY <1>2 DEF third, second, first
  <2> QED
    BY <2>3, <2>4
<1> HIDE DEF leaf
<1> DEFINE M == Put(N, a, leaf)
<1>4. grown = [nodes |-> M, items |-> I, keys |-> Put(K, a + 1, rest), end |-> a + 2, lastNode |-> a, lastItem |-> i]
  <2> DEFINE first == [t EXCEPT !.nodes = Put(N, a, leaf)]
  <2> DEFINE second == [first EXCEPT !.keys = Put(K, a + 1, rest)]
  <2> DEFINE third == [second EXCEPT !.end = a + 2]
  <2>1. first = [nodes |-> M, items |-> I, keys |-> K, end |-> e, lastNode |-> l, lastItem |-> i]
    BY <1>2
  <2>2. second = [nodes |-> M, items |-> I, keys |-> Put(K, a + 1, rest), end |-> e, lastNode |-> l, lastItem |-> i]
    <3> HIDE DEF first, M
    <3> QED
      BY <2>1
  <2>3. third = [nodes |-> M, items |-> I, keys |-> Put(K, a + 1, rest), end |-> a + 2, lastNode |-> l, lastItem |-> i]
    <3> HIDE DEF second, M
    <3> QED
      BY <2>2
  <2>4. grown = [third EXCEPT !.lastNode = a]
    BY <1>2, <2>1, <2>2, <2>3
  <2> HIDE DEF third, M
  <2> QED
    BY <2>3, <2>4
<1>5. /\ M \in [DOMAIN N \cup {a} -> Node]
      /\ \A k \in DOMAIN N : M[k] = N[k]
      /\ M[a] = leaf
  <2>1. N \in [DOMAIN N -> Node] /\ a \notin DOMAIN N /\ l \in Nat
    BY <1>0, <1>2 DEF Typed
  <2>2. leaf \in Node
    <3> HIDE DEF a
    <3>1. a \in Nat /\ a + 1 \in Nat
      BY <1>0 DEF a
    <3> QED
      BY <1>0, <1>3, <2>1, <3>1 DEF Node
  <2> QED
    BY <2>1, <2>2 DEF Put
<1>6. DOMAIN M = DOMAIN N \cup {a} /\ N = t.nodes /\ I = t.items /\ K = t.keys /\ l = t.lastNode /\ i = t.lastItem
  BY <1>2 DEF Put
<1> HIDE DEF M, grown
<1>7. SetChild(grown, n, Head(rest), a) =
           [nodes |-> Childed(M, n, Head(rest), a),
            items |-> I, keys |-> Put(K, a + 1, rest), end |-> a + 2, lastNode |-> a, lastItem |-> i]
  <2>1. M \in [DOMAIN M -> Node]
    BY <1>5, <1>6
  <2> QED
    BY <1>4, <2>1, SetChildForm
<1>8. Leafed(t, n, rest).nodes =
            Childed(M, n, Head(rest), a)
  <2>1. n # a
    BY <1>0
  <2> HIDE DEF a
  <2> QED
    BY <1>3, <1>5, <1>6, <2>1 DEF Leafed, Childed, a
<1>9. Leafed(t, n, rest) = [nodes |-> Leafed(t, n, rest).nodes, items |-> I, keys |-> Put(K, a + 1, rest),
                            end |-> a + 2, lastNode |-> a, lastItem |-> i]
  BY <1>6 DEF Leafed
<1>10. SetChild(grown, n, Head(rest), a) = Leafed(t, n, rest)
  BY <1>7, <1>8, <1>9
<1> QED
  BY <1>1, <1>10

LEMMA UnlinkNothing ==
  ASSUME NEW u, NEW a, u.lastItem # a, u.lastNode # a
  PROVE  UnlinkNode(UnlinkItem(u, a), a) = u
BY DEF UnlinkNode, UnlinkItem

LEMMA LeafedGood ==
  ASSUME NEW t, Good(t), NEW n \in DOMAIN t.nodes, NEW rest \in Seq(Bits), rest # <<>>,
         Child(t, n, Head(rest)) = 0
  PROVE  Good(Leafed(t, n, rest))
<1> DEFINE u == Leafed(t, n, rest)
<1> DEFINE a == t.end
<1>1. Linked(t) /\ Typed(t)
  BY DEF Good, Linked
<1>2. /\ a \in Nat /\ a >= 2 /\ a \notin DOMAIN t.nodes /\ a + 1 \notin DOMAIN t.keys /\ n # a
      /\ \A k \in DOMAIN t.nodes : k < a
      /\ \A k \in DOMAIN t.items : k < a
      /\ \A k \in DOMAIN t.keys : k < a
      /\ t.lastNode \in Nat /\ t.lastNode < a
  BY <1>1 DEF Good, Typed, Linked
<1>3. Len(rest) \in Nat /\ Len(rest) > 0 /\ Head(rest) = rest[1] /\ Head(rest) \in {0, 1}
  BY DEF Bits
<1>4. /\ DOMAIN u.nodes = DOMAIN t.nodes \cup {a} /\ u.items = t.items /\ u.end = a + 2
      /\ DOMAIN u.keys = DOMAIN t.keys \cup {a + 1} /\ u.lastNode = a /\ u.lastItem = t.lastItem
      /\ u.keys[a + 1] = rest /\ \A c \in DOMAIN t.keys : u.keys[c] = t.keys[c]
  BY <1>2 DEF Leafed, Put
<1>5. u.nodes[a] = [parent |-> n, smaller |-> 0, greater |-> 0, item |-> 0,
                    earlier |-> t.lastNode, cell |-> a + 1, fore |-> 0, rear |-> Len(rest)]
  BY DEF Leafed
<1>6. ASSUME NEW k \in DOMAIN t.nodes
      PROVE  /\ k # a /\ t.nodes[k] \in Node /\ NodeLinks(t, t.nodes[k]) /\ NodeGood(t, k)
             /\ u.nodes[k] = [parent |-> t.nodes[k].parent,
                      smaller |-> IF k = n /\ Head(rest) # 1 THEN a ELSE t.nodes[k].smaller,
                      greater |-> IF k = n /\ Head(rest) = 1 THEN a ELSE t.nodes[k].greater,
                      item |-> t.nodes[k].item, earlier |-> t.nodes[k].earlier, cell |-> t.nodes[k].cell,
                      fore |-> t.nodes[k].fore, rear |-> t.nodes[k].rear]
  BY <1>1, <1>2 DEF Leafed, Typed, Linked, Good
<1>h. /\ u = [nodes |-> u.nodes, items |-> u.items, keys |-> u.keys,
                end |-> u.end, lastNode |-> u.lastNode, lastItem |-> u.lastItem]
      /\ u.nodes \in [DOMAIN u.nodes -> {u.nodes[k] : k \in DOMAIN u.nodes}]
      /\ u.keys \in [DOMAIN u.keys -> {u.keys[k] : k \in DOMAIN u.keys}]
  BY DEF Leafed, Put
<1> HIDE DEF u, a
<1>f. ASSUME NEW k \in DOMAIN t.nodes
      PROVE  /\ u.nodes[k].parent = t.nodes[k].parent
             /\ u.nodes[k].smaller = IF k = n /\ Head(rest) # 1 THEN a ELSE t.nodes[k].smaller
             /\ u.nodes[k].greater = IF k = n /\ Head(rest) = 1 THEN a ELSE t.nodes[k].greater
             /\ u.nodes[k].item = t.nodes[k].item /\ u.nodes[k].earlier = t.nodes[k].earlier
             /\ u.nodes[k].cell = t.nodes[k].cell /\ u.nodes[k].fore = t.nodes[k].fore
             /\ u.nodes[k].rear = t.nodes[k].rear
  <2>1. u.nodes[k] = [parent |-> t.nodes[k].parent,
                      smaller |-> IF k = n /\ Head(rest) # 1 THEN a ELSE t.nodes[k].smaller,
                      greater |-> IF k = n /\ Head(rest) = 1 THEN a ELSE t.nodes[k].greater,
                      item |-> t.nodes[k].item, earlier |-> t.nodes[k].earlier, cell |-> t.nodes[k].cell,
                      fore |-> t.nodes[k].fore, rear |-> t.nodes[k].rear]
    BY <1>6
  <2> QED
    BY <2>1
<1>7. Typed(u)
  <2>1. u.nodes[a] \in Node
    <3>1. n \in Nat /\ t.lastNode \in Nat /\ a + 1 \in Nat /\ Len(rest) \in Nat
      BY <1>1, <1>2, <1>3 DEF Typed
    <3> QED
      BY <1>5, <3>1 DEF Node
  <2>2. ASSUME NEW k \in DOMAIN t.nodes PROVE u.nodes[k] \in Node
    <3>1. a \in Nat /\ t.nodes[k] \in Node
      BY <1>2, <1>6
    <3>2. u.nodes[k] = [parent |-> t.nodes[k].parent,
                      smaller |-> IF k = n /\ Head(rest) # 1 THEN a ELSE t.nodes[k].smaller,
                      greater |-> IF k = n /\ Head(rest) = 1 THEN a ELSE t.nodes[k].greater,
                      item |-> t.nodes[k].item, earlier |-> t.nodes[k].earlier, cell |-> t.nodes[k].cell,
                      fore |-> t.nodes[k].fore, rear |-> t.nodes[k].rear]
      BY <1>6
    <3> QED
      BY <3>1, <3>2 DEF Node
  <2>3. u.nodes \in [DOMAIN u.nodes -> Node]
    BY <1>h, <1>4, <2>1, <2>2
  <2>4. u.keys \in [DOMAIN u.keys -> Seq(Bits)]
    <3>1. \A c \in DOMAIN u.keys : u.keys[c] \in Seq(Bits)
      BY <1>1, <1>4 DEF Typed
    <3> QED
      BY <1>h, <3>1
  <2>5. DOMAIN u.nodes \subseteq Nat \ {0} /\ DOMAIN u.keys \subseteq Nat /\ u.end \in Nat
    BY <1>1, <1>2, <1>4 DEF Typed
  <2>6. DOMAIN u.items \subseteq Nat \ {0} /\ u.items \in [DOMAIN u.items -> Item]
    BY <1>1, <1>4 DEF Typed
  <2> QED
    BY <1>h, <2>3, <2>4, <2>5, <2>6 DEF Typed
<1>8. ASSUME NEW k \in DOMAIN u.nodes PROVE NodeLinks(u, u.nodes[k])
  <2>1. CASE k = a
    BY <1>1, <1>4, <1>5, <2>1 DEF NodeLinks, Linked
  <2>2. CASE k # a
    <3>1. k \in DOMAIN t.nodes
      BY <1>4, <2>2
    <3>2. NodeLinks(t, t.nodes[k])
      BY <1>6, <3>1
    <3> QED
      BY <1>4, <1>f, <3>1, <3>2 DEF NodeLinks
  <2> QED
    BY <2>1, <2>2
<1>9. ASSUME NEW i \in DOMAIN u.items PROVE ItemLinks(u, u.items[i])
  BY <1>1, <1>4 DEF ItemLinks, Linked
<1>10. Linked(u)
  BY <1>1, <1>4, <1>7, <1>8, <1>9 DEF Linked
<1>11. ASSUME NEW k \in DOMAIN t.nodes, NEW c \in DOMAIN t.nodes, NEW bit, ChildGood(t, k, c, bit)
       PROVE  ChildGood(u, k, c, bit)
  <2>1. t.nodes[c].cell \in DOMAIN t.keys
    <3>1. NodeLinks(t, t.nodes[c])
      BY <1>6
    <3> QED
      BY <3>1 DEF NodeLinks
  <2>2. /\ u.nodes[c].cell = t.nodes[c].cell /\ u.nodes[c].parent = t.nodes[c].parent
        /\ u.nodes[c].fore = t.nodes[c].fore /\ u.nodes[c].rear = t.nodes[c].rear
        /\ u.keys[t.nodes[c].cell] = t.keys[t.nodes[c].cell]
    BY <1>4, <1>f, <2>1
  <2> QED
    BY <1>11, <2>2 DEF ChildGood
<1>12. ASSUME NEW k \in DOMAIN u.nodes PROVE NodeGood(u, k)
  <2>1. CASE k = a
    <3>1. /\ u.nodes[k].smaller = 0 /\ u.nodes[k].greater = 0 /\ u.nodes[k].item = 0
          /\ u.nodes[k].earlier < k /\ u.nodes[k].fore = 0 /\ u.nodes[k].rear = Len(rest)
          /\ u.keys[u.nodes[k].cell] = rest
      BY <1>2, <1>4, <1>5, <2>1
    <3> QED
      BY <1>3, <3>1 DEF NodeGood, ChildGood
  <2>2. CASE k # a
    <3> DEFINE x == t.nodes[k]
    <3> DEFINE y == u.nodes[k]
    <3>1. k \in DOMAIN t.nodes
      BY <1>4, <2>2
    <3>2. /\ x.smaller \in DOMAIN t.nodes \cup {0} /\ x.greater \in DOMAIN t.nodes \cup {0}
          /\ x.cell \in DOMAIN t.keys /\ NodeGood(t, k)
      BY <1>6, <3>1 DEF NodeLinks
    <3>3. ASSUME k = n, Head(rest) = 1 PROVE ChildGood(u, k, a, 1)
      BY <1>2, <1>3, <1>4, <1>5, <3>3 DEF ChildGood
    <3>4. ASSUME k = n, Head(rest) # 1 PROVE ChildGood(u, k, a, 0)
      BY <1>2, <1>3, <1>4, <1>5, <3>4 DEF ChildGood
    <3>5. ChildGood(u, k, x.smaller, 0) /\ ChildGood(u, k, x.greater, 1)
      <4>1. ChildGood(t, k, x.smaller, 0) /\ ChildGood(t, k, x.greater, 1)
        BY <3>2 DEF NodeGood
      <4>2. x.smaller # 0 => ChildGood(u, k, x.smaller, 0)
        BY <3>1, <3>2, <4>1, <1>11
      <4>3. x.greater # 0 => ChildGood(u, k, x.greater, 1)
        BY <3>1, <3>2, <4>1, <1>11
      <4> QED
        BY <4>2, <4>3 DEF ChildGood
    <3>6. ChildGood(u, k, y.smaller, 0) /\ ChildGood(u, k, y.greater, 1)
      BY <1>f, <3>1, <3>3, <3>4, <3>5
    <3>7. /\ y.earlier = x.earlier /\ y.fore = x.fore /\ y.rear = x.rear /\ y.item = x.item
          /\ u.keys[y.cell] = t.keys[x.cell]
      BY <1>4, <1>f, <3>1, <3>2
    <3> QED
      BY <1>4, <3>2, <3>6, <3>7 DEF NodeGood
  <2> QED
    BY <2>1, <2>2
<1>13. ASSUME NEW i \in DOMAIN u.items PROVE ItemGood(u, i)
  <2>1. ItemGood(t, i) /\ i \in DOMAIN t.items
    BY <1>4 DEF Good
  <2>2. /\ u.items[i].prev < i /\ u.items[i].earlier < i
        /\ u.items[i].owner => i + 1 \in DOMAIN u.nodes
    BY <1>4, <2>1 DEF ItemGood
  <2>3. ASSUME NEW b \in Nat, i < b, b <= i + u.items[i].bytes
        PROVE  b < u.end /\ b \notin DOMAIN u.items /\ b \notin DOMAIN u.keys /\ (b \in DOMAIN u.nodes => u.items[i].owner /\ b = i + 1)
    <3>1. b < a /\ b \notin DOMAIN t.items /\ b \notin DOMAIN t.keys /\ (b \in DOMAIN t.nodes => t.items[i].owner /\ b = i + 1)
      BY <1>4, <2>1, <2>3 DEF ItemGood, a
    <3> QED
      BY <1>2, <1>4, <3>1
  <2> QED
    BY <2>2, <2>3 DEF ItemGood
<1>14. /\ u.end >= 2 /\ Root \in DOMAIN u.nodes /\ 0 \in DOMAIN u.keys
       /\ \A k \in DOMAIN u.nodes : k < u.end
       /\ \A k \in DOMAIN u.items : k < u.end
       /\ \A k \in DOMAIN u.keys : k < u.end
  <2>1. DOMAIN t.nodes \subseteq Nat /\ DOMAIN t.items \subseteq Nat /\ DOMAIN t.keys \subseteq Nat
    BY <1>1 DEF Typed
  <2>2. Root \in DOMAIN t.nodes /\ 0 \in DOMAIN t.keys
    BY DEF Good
  <2> QED
    BY <1>2, <1>4, <2>1, <2>2
<1>15. Good(u)
  BY <1>10, <1>12, <1>13, <1>14 DEF Good
<1> QED
  BY <1>15 DEF u

LEMMA LeafedUndone ==
  ASSUME NEW t, Good(t), NEW n \in DOMAIN t.nodes, NEW rest \in Seq(Bits), rest # <<>>,
         Child(t, n, Head(rest)) = 0, NEW m \in 1 .. t.end
  PROVE  Restore(Leafed(t, n, rest), m) = Restore(t, m)
<1> DEFINE u == Leafed(t, n, rest)
<1> DEFINE a == t.end
<1>1. Good(u) /\ Linked(u) /\ Linked(t) /\ Typed(t)
  BY LeafedGood DEF Good, Linked
<1>2. /\ a \in Nat /\ a >= 2 /\ u.end = a + 2 /\ u.lastItem = t.lastItem /\ u.lastNode = a
      /\ t.lastItem # a /\ t.lastItem # a + 1 /\ a \notin DOMAIN t.nodes /\ a + 1 \notin DOMAIN t.keys
  <2>1. u.end = a + 2 /\ u.lastItem = t.lastItem /\ u.lastNode = a
    BY DEF Leafed
  <2>2. a \in Nat /\ a >= 2 /\ a \notin DOMAIN t.nodes
    BY <1>1 DEF Good, Typed
  <2>3. t.lastItem \in Nat /\ t.lastItem < a
    BY <1>1, <2>2 DEF Good, Typed, Linked
  <2>4. a + 1 \notin DOMAIN t.keys
    BY <1>1, <2>2 DEF Good, Typed
  <2> QED
    BY <2>1, <2>2, <2>3, <2>4
<1>3. Undone(u, a + 2) = u
  <2>1. u.end # 0
    BY <1>2
  <2> HIDE DEF u
  <2> QED
    BY <1>1, <1>2, <2>1, UndoneStep
<1>4. Undone(u, a + 1) = u
  <2>1. u.end # 0 /\ a + 1 \in 1 .. u.end - 1 /\ (a + 1) + 1 = a + 2 /\ a # a + 1
    BY <1>2
  <2> HIDE DEF u
  <2> QED
    BY <1>1, <1>2, <1>3, <2>1, UndoneStep, UnlinkNothing
<1>5. Undone(u, a) = NodeDropped(u, a)
  <2>1. u.end # 0 /\ a \in 1 .. u.end - 1 /\ a \in Nat \ {0}
    BY <1>2
  <2> HIDE DEF u
  <2>2. Undone(u, a) = UnlinkNode(UnlinkItem(u, a), a)
    BY <1>1, <1>4, <2>1, UndoneStep
  <2>3. UnlinkItem(u, a) = u
    BY <1>2 DEF UnlinkItem
  <2> QED
    BY <1>1, <1>2, <2>1, <2>2, <2>3, UnlinkNodeForm
<1>6. u.nodes[a] = [parent |-> n, smaller |-> 0, greater |-> 0, item |-> 0,
                    earlier |-> t.lastNode, cell |-> a + 1, fore |-> 0, rear |-> Len(rest)]
  BY DEF Leafed
<1>7. Head(Edge(u, a)) = Head(rest) /\ Heir(u.nodes[a]) = 0
  <2>1. u.keys[a + 1] = rest
    BY DEF Leafed, Put
  <2>2. Edge(u, a) = SubSeq(rest, 1, Len(rest))
    BY <1>6, <2>1 DEF Edge
  <2> QED
    BY <1>6, <2>2 DEF Heir
<1>8. ASSUME NEW k \in DOMAIN t.nodes PROVE NodeDropped(u, a).nodes[k] = t.nodes[k]
  <2>1. k # a /\ k # 0 /\ t.nodes[k] \in Node /\ k \in DOMAIN u.nodes
    BY <1>1, <1>2 DEF Typed, Leafed
  <2>2. u.nodes[k] = [parent |-> t.nodes[k].parent,
                      smaller |-> IF k = n /\ Head(rest) # 1 THEN a ELSE t.nodes[k].smaller,
                      greater |-> IF k = n /\ Head(rest) = 1 THEN a ELSE t.nodes[k].greater,
                      item |-> t.nodes[k].item, earlier |-> t.nodes[k].earlier, cell |-> t.nodes[k].cell,
                      fore |-> t.nodes[k].fore, rear |-> t.nodes[k].rear]
    BY <2>1 DEF Leafed
  <2>3. (Head(rest) = 1 => t.nodes[n].greater = 0) /\ (Head(rest) # 1 => t.nodes[n].smaller = 0)
    BY DEF Child
  <2> DEFINE y == NodeDropped(u, a).nodes[k]
  <2>4. y = [parent |-> u.nodes[k].parent,
             smaller |-> IF k = n /\ Head(rest) # 1 THEN 0 ELSE u.nodes[k].smaller,
             greater |-> IF k = n /\ Head(rest) = 1 THEN 0 ELSE u.nodes[k].greater,
             item |-> u.nodes[k].item, earlier |-> u.nodes[k].earlier, cell |-> u.nodes[k].cell,
             fore |-> u.nodes[k].fore, rear |-> u.nodes[k].rear]
    <3> HIDE DEF u
    <3> QED
      BY <1>6, <1>7, <2>1 DEF NodeDropped
  <2>5. y = [parent |-> t.nodes[k].parent, smaller |-> t.nodes[k].smaller, greater |-> t.nodes[k].greater,
             item |-> t.nodes[k].item, earlier |-> t.nodes[k].earlier, cell |-> t.nodes[k].cell,
             fore |-> t.nodes[k].fore, rear |-> t.nodes[k].rear]
    <3> HIDE DEF y, u
    <3> QED
      BY <2>2, <2>3, <2>4
  <2> HIDE DEF y, u
  <2>6. y = t.nodes[k]
    BY <2>1, <2>5 DEF Node
  <2> QED
    BY <2>6 DEF y
<1>9. Alike(NodeDropped(u, a), t, m)
  <2> DEFINE d == NodeDropped(u, a)
  <2>1. /\ DOMAIN d.nodes = DOMAIN t.nodes \cup {a} /\ d.items = t.items /\ DOMAIN d.keys = DOMAIN t.keys \cup {a + 1}
        /\ d.lastItem = t.lastItem
    BY DEF NodeDropped, Leafed, Put
  <2>2. d.lastNode = t.lastNode
    BY <1>6 DEF NodeDropped
  <2>3. \A c \in DOMAIN t.keys : d.keys[c] = t.keys[c]
    BY <1>2 DEF NodeDropped, Leafed, Put
  <2>4. a >= m /\ a + 1 >= m
    BY <1>2
  <2>5. ASSUME NEW k \in DOMAIN t.nodes PROVE d.nodes[k] = t.nodes[k]
    BY <1>8
  <2> HIDE DEF d, a
  <2>6. Alike(d, t, m)
    BY <2>1, <2>2, <2>3, <2>4, <2>5 DEF Alike
  <2> QED
    BY <2>6 DEF d
<1> HIDE DEF u
<1> QED
  BY <1>1, <1>2, <1>5, <1>9, RestoreAgrees DEF u

LEMMA EdgeForm ==
  ASSUME NEW t, Good(t), NEW n \in DOMAIN t.nodes
  PROVE  /\ t.nodes[n].fore \in Nat /\ t.nodes[n].rear \in Nat
         /\ t.nodes[n].fore <= t.nodes[n].rear /\ t.nodes[n].rear <= Len(t.keys[t.nodes[n].cell])
         /\ t.keys[t.nodes[n].cell] \in Seq(Bits)
         /\ Edge(t, n) \in Seq(Bits) /\ Len(Edge(t, n)) = t.nodes[n].rear - t.nodes[n].fore
         /\ \A i \in 1 .. t.nodes[n].rear - t.nodes[n].fore : Edge(t, n)[i] = t.keys[t.nodes[n].cell][t.nodes[n].fore + i]
         /\ t.nodes[n].fore < t.nodes[n].rear => Head(Edge(t, n)) = t.keys[t.nodes[n].cell][t.nodes[n].fore + 1]
<1> DEFINE x == t.nodes[n]
<1> DEFINE key == t.keys[x.cell]
<1> DEFINE fore == x.fore
<1> DEFINE rear == x.rear
<1>1. x \in Node /\ NodeLinks(t, x) /\ NodeGood(t, n) /\ Typed(t)
  BY DEF Good, Linked, Typed
<1>2. key \in Seq(Bits)
  BY <1>1 DEF NodeLinks, Typed
<1>3. fore \in Nat /\ rear \in Nat /\ fore <= rear /\ rear <= Len(key)
  BY <1>1 DEF Node, NodeGood
<1>4. Edge(t, n) = SubSeq(key, fore + 1, rear)
  BY DEF Edge
<1> HIDE DEF x, key, fore, rear
<1>5. /\ Edge(t, n) \in Seq(Bits) /\ Len(Edge(t, n)) = rear - fore
      /\ \A i \in 1 .. rear - fore : Edge(t, n)[i] = key[fore + i]
  <2>1. CASE fore < rear
    <3>1. fore + 1 \in 1 .. Len(key) + 1 /\ rear \in fore .. Len(key)
      BY <1>2, <1>3
    <3>2. \A i \in fore + 1 .. rear : key[i] \in Bits
      BY <1>2, <1>3
    <3>3. Edge(t, n) = [i \in 1 .. rear - fore |-> key[fore + i]]
      BY <1>2, <1>3, <1>4, <2>1
    <3> QED
      BY <1>3, <2>1, <3>2, <3>3
  <2>2. CASE fore = rear
    BY <1>2, <1>3, <1>4, <2>2
  <2> QED
    BY <1>3, <2>1, <2>2
<1>6. fore < rear => Head(Edge(t, n)) = key[fore + 1]
  BY <1>3, <1>5
<1> QED
  BY <1>2, <1>3, <1>5, <1>6 DEF x, key, fore, rear

Splitted(t, n, c, matched) ==
  LET a == t.end
      x == t.nodes[c]
      first == Head(Edge(t, c))
      bit == t.keys[x.cell][x.fore + matched + 1] IN
  [nodes |-> [k \in DOMAIN t.nodes \cup {a} |->
                IF k = a
                THEN [parent |-> x.parent, smaller |-> IF bit = 1 THEN 0 ELSE c,
                      greater |-> IF bit = 1 THEN c ELSE 0, item |-> 0,
                      earlier |-> t.lastNode, cell |-> x.cell, fore |-> x.fore, rear |-> x.fore + matched]
                ELSE [parent |-> IF k = c THEN a ELSE t.nodes[k].parent,
                      smaller |-> IF k = n /\ first # 1 THEN a ELSE t.nodes[k].smaller,
                      greater |-> IF k = n /\ first = 1 THEN a ELSE t.nodes[k].greater,
                      item |-> t.nodes[k].item, earlier |-> t.nodes[k].earlier, cell |-> t.nodes[k].cell,
                      fore |-> IF k = c THEN x.fore + matched ELSE t.nodes[k].fore, rear |-> t.nodes[k].rear]],
   items |-> t.items, keys |-> t.keys, end |-> a + 1, lastNode |-> a, lastItem |-> t.lastItem]

LEMMA SplitEdgeForm ==
  ASSUME NEW t, Good(t), NEW n \in DOMAIN t.nodes, NEW c \in DOMAIN t.nodes, NEW matched \in Nat,
         matched < t.nodes[c].rear - t.nodes[c].fore
  PROVE  SplitEdge(t, n, c, matched) = IF t.end + 1 > program.memory THEN Result(t, 0)
                                       ELSE Result(Splitted(t, n, c, matched), t.end)
<1> DEFINE a == t.end
<1> DEFINE x == t.nodes[c]
<1> DEFINE first == Head(Edge(t, c))
<1> DEFINE bit == t.keys[x.cell][x.fore + matched + 1]
<1> DEFINE fore == x.fore + matched
<1> DEFINE front == [x EXCEPT !.smaller = IF bit = 1 THEN 0 ELSE c, !.greater = IF bit = 1 THEN c ELSE 0,
                              !.item = 0, !.earlier = t.lastNode, !.rear = fore]
<1> DEFINE grown == [t EXCEPT !.nodes = Put([@ EXCEPT ![c].parent = a, ![c].fore = fore], a, front),
                              !.end = a + 1, !.lastNode = a]
<1>0. Typed(t) /\ a \notin DOMAIN t.nodes /\ a \in Nat /\ t.lastNode \in Nat /\ x \in Node /\ fore \in Nat /\ c \in Nat
  <2>1. Typed(t) /\ a \notin DOMAIN t.nodes /\ a \in Nat /\ t.lastNode \in Nat /\ x \in Node /\ c \in Nat
    BY DEF Good, Linked, Typed
  <2> QED
    BY <2>1 DEF Node
<1>1. bit = Edge(t, c)[matched + 1]
  <2>1. x.fore \in Nat /\ x.rear \in Nat
    BY <1>0 DEF Node
  <2>2. matched + 1 \in 1 .. x.rear - x.fore /\ x.fore + (matched + 1) = x.fore + matched + 1
    BY <2>1
  <2>3. Edge(t, c)[matched + 1] = t.keys[x.cell][x.fore + (matched + 1)]
    <3> HIDE DEF a, first, bit, fore, front, grown
    <3>1. \A i \in 1 .. x.rear - x.fore : Edge(t, c)[i] = t.keys[x.cell][x.fore + i]
      BY EdgeForm
    <3> HIDE DEF x
    <3> QED
      BY <2>2, <3>1
  <2> QED
    BY <2>2, <2>3
<1>2. SplitEdge(t, n, c, matched) = IF a + 1 > program.memory THEN Result(t, 0)
                                    ELSE Result(SetChild(grown, n, first, a), a)
  BY <1>1 DEF SplitEdge
<1>3. PICK N, I, K, e, l, i : t = [nodes |-> N, items |-> I, keys |-> K, end |-> e, lastNode |-> l, lastItem |-> i]
  BY <1>0 DEF Typed
<1>4. /\ N = t.nodes /\ I = t.items /\ K = t.keys /\ l = t.lastNode /\ i = t.lastItem
      /\ N \in [DOMAIN N -> Node] /\ x = N[c] /\ c \in DOMAIN N /\ a \notin DOMAIN N
  BY <1>0, <1>3 DEF Typed
<1> HIDE DEF bit, first, fore, a
<1>5. front = [parent |-> x.parent, smaller |-> IF bit = 1 THEN 0 ELSE c, greater |-> IF bit = 1 THEN c ELSE 0,
               item |-> 0, earlier |-> l, cell |-> x.cell, fore |-> x.fore, rear |-> fore]
  <2> DEFINE f1 == [x EXCEPT !.smaller = IF bit = 1 THEN 0 ELSE c]
  <2> DEFINE f2 == [f1 EXCEPT !.greater = IF bit = 1 THEN c ELSE 0]
  <2> DEFINE f3 == [f2 EXCEPT !.item = 0]
  <2> DEFINE f4 == [f3 EXCEPT !.earlier = l]
  <2>1. PICK p, s, g, j, r, d, f, o : x = [parent |-> p, smaller |-> s, greater |-> g, item |-> j,
                                           earlier |-> r, cell |-> d, fore |-> f, rear |-> o]
    BY <1>0 DEF Node
  <2>2. f1 = [parent |-> p, smaller |-> IF bit = 1 THEN 0 ELSE c, greater |-> g, item |-> j,
              earlier |-> r, cell |-> d, fore |-> f, rear |-> o]
    BY <2>1
  <2>3. f2 = [parent |-> p, smaller |-> IF bit = 1 THEN 0 ELSE c, greater |-> IF bit = 1 THEN c ELSE 0, item |-> j,
              earlier |-> r, cell |-> d, fore |-> f, rear |-> o]
    <3> HIDE DEF f1
    <3> QED
      BY <2>2
  <2>4. f3 = [parent |-> p, smaller |-> IF bit = 1 THEN 0 ELSE c, greater |-> IF bit = 1 THEN c ELSE 0, item |-> 0,
              earlier |-> r, cell |-> d, fore |-> f, rear |-> o]
    <3> HIDE DEF f2
    <3> QED
      BY <2>3
  <2>5. f4 = [parent |-> p, smaller |-> IF bit = 1 THEN 0 ELSE c, greater |-> IF bit = 1 THEN c ELSE 0, item |-> 0,
              earlier |-> l, cell |-> d, fore |-> f, rear |-> o]
    <3> HIDE DEF f3
    <3> QED
      BY <2>4
  <2>6. front = [f4 EXCEPT !.rear = fore]
    BY <1>4 DEF f4, f3, f2, f1
  <2> HIDE DEF f4
  <2> QED
    BY <2>1, <2>5, <2>6
<1> HIDE DEF front
<1> DEFINE M == [N EXCEPT ![c].parent = a]
<1> DEFINE O == [M EXCEPT ![c].fore = fore]
<1> DEFINE P == Put(O, a, front)
<1>6. grown = [nodes |-> P, items |-> I, keys |-> K, end |-> a + 1, lastNode |-> a, lastItem |-> i]
  <2> DEFINE g1 == [t EXCEPT !.nodes = P]
  <2> DEFINE g2 == [g1 EXCEPT !.end = a + 1]
  <2>1. g1 = [nodes |-> P, items |-> I, keys |-> K, end |-> e, lastNode |-> l, lastItem |-> i]
    <3> HIDE DEF P
    <3> QED
      BY <1>3
  <2>2. g2 = [nodes |-> P, items |-> I, keys |-> K, end |-> a + 1, lastNode |-> l, lastItem |-> i]
    <3> HIDE DEF g1, P
    <3> QED
      BY <2>1
  <2>3. grown = [g2 EXCEPT !.lastNode = a]
    BY <1>4
  <2> HIDE DEF g2, P, grown
  <2> QED
    BY <2>2, <2>3
<1>7. /\ DOMAIN M = DOMAIN N
      /\ \A k \in DOMAIN N : M[k] = IF k = c THEN [x EXCEPT !.parent = a] ELSE N[k]
      /\ M \in [DOMAIN N -> Node]
  <2> HIDE DEF x
  <2>1. [x EXCEPT !.parent = a] \in Node
    BY <1>0 DEF Node
  <2>2. M = [N EXCEPT ![c] = [x EXCEPT !.parent = a]]
    BY <1>4
  <2> HIDE DEF M
  <2> DEFINE y == [x EXCEPT !.parent = a]
  <2> HIDE DEF y
  <2> QED
    BY <1>4, <2>1, <2>2 DEF y
<1>8. /\ DOMAIN O = DOMAIN N /\ O \in [DOMAIN N -> Node]
      /\ \A k \in DOMAIN N : O[k] = [parent |-> IF k = c THEN a ELSE N[k].parent,
                                     smaller |-> N[k].smaller, greater |-> N[k].greater, item |-> N[k].item,
                                     earlier |-> N[k].earlier, cell |-> N[k].cell,
                                     fore |-> IF k = c THEN fore ELSE N[k].fore, rear |-> N[k].rear]
  <2> HIDE DEF M
  <2> DEFINE y == [M[c] EXCEPT !.fore = fore]
  <2>1. y \in Node
    BY <1>0, <1>4, <1>7 DEF Node
  <2>2. O = [M EXCEPT ![c] = y]
    OBVIOUS
  <2>3. y = [parent |-> a, smaller |-> x.smaller, greater |-> x.greater, item |-> x.item,
             earlier |-> x.earlier, cell |-> x.cell, fore |-> fore, rear |-> x.rear]
    <3>1. M[c] = [x EXCEPT !.parent = a]
      BY <1>4, <1>7
    <3>2. [x EXCEPT !.parent = a] = [parent |-> a, smaller |-> x.smaller, greater |-> x.greater, item |-> x.item,
             earlier |-> x.earlier, cell |-> x.cell, fore |-> x.fore, rear |-> x.rear]
      BY <1>0 DEF Node
    <3>3. M[c] = [parent |-> a, smaller |-> x.smaller, greater |-> x.greater, item |-> x.item,
             earlier |-> x.earlier, cell |-> x.cell, fore |-> x.fore, rear |-> x.rear]
      BY <3>1, <3>2
    <3> QED
      BY <3>3
  <2> HIDE DEF O, y
  <2>4. DOMAIN O = DOMAIN N /\ O \in [DOMAIN N -> Node]
    BY <1>7, <2>1, <2>2
  <2>5. ASSUME NEW k \in DOMAIN N
        PROVE  O[k] = [parent |-> IF k = c THEN a ELSE N[k].parent,
                                     smaller |-> N[k].smaller, greater |-> N[k].greater, item |-> N[k].item,
                                     earlier |-> N[k].earlier, cell |-> N[k].cell,
                                     fore |-> IF k = c THEN fore ELSE N[k].fore, rear |-> N[k].rear]
    <3>1. CASE k = c
      BY <1>4, <1>7, <2>2, <2>3, <3>1
    <3>2. CASE k # c
      <4>1. O[k] = N[k] /\ N[k] \in Node
        BY <1>4, <1>7, <2>2, <3>2
      <4> QED
        BY <3>2, <4>1 DEF Node
    <3> QED
      BY <3>1, <3>2
  <2> QED
    BY <2>4, <2>5
<1> HIDE DEF O
<1>9. DOMAIN P = DOMAIN N \cup {a} /\ P[a] = front /\ \A k \in DOMAIN N : P[k] = O[k]
  BY <1>4, <1>8 DEF Put
<1>10. P \in [DOMAIN P -> Node]
  <2>1. front \in Node
    BY <1>0, <1>4, <1>5 DEF Node
  <2> QED
    BY <1>4, <1>8, <2>1 DEF Put
<1> HIDE DEF P, grown
<1>11. SetChild(grown, n, first, a) =
         [nodes |-> Childed(P, n, first, a), items |-> I, keys |-> K, end |-> a + 1, lastNode |-> a, lastItem |-> i]
  BY <1>6, <1>10, SetChildForm
<1>12. Splitted(t, n, c, matched).nodes = Childed(P, n, first, a)
  <2> DEFINE s == Splitted(t, n, c, matched).nodes
  <2>1. s = [k \in DOMAIN N \cup {a} |->
                IF k = a
                THEN [parent |-> x.parent, smaller |-> IF bit = 1 THEN 0 ELSE c,
                      greater |-> IF bit = 1 THEN c ELSE 0, item |-> 0,
                      earlier |-> l, cell |-> x.cell, fore |-> x.fore, rear |-> fore]
                ELSE [parent |-> IF k = c THEN a ELSE N[k].parent,
                      smaller |-> IF k = n /\ first # 1 THEN a ELSE N[k].smaller,
                      greater |-> IF k = n /\ first = 1 THEN a ELSE N[k].greater,
                      item |-> N[k].item, earlier |-> N[k].earlier, cell |-> N[k].cell,
                      fore |-> IF k = c THEN fore ELSE N[k].fore, rear |-> N[k].rear]]
    BY <1>4 DEF Splitted, a, first, bit, fore
  <2>2. n # a /\ n \in DOMAIN N
    BY <1>4
  <2> HIDE DEF s, x
  <2>3. ASSUME NEW k \in DOMAIN N \cup {a} PROVE s[k] = Childed(P, n, first, a)[k]
    <3>1. CASE k = a
      BY <1>5, <1>9, <2>1, <2>2, <3>1 DEF Childed
    <3>2. CASE k # a
      <4>1. k \in DOMAIN N /\ P[k] = O[k]
        BY <1>9, <3>2
      <4>2. P[k] = [parent |-> IF k = c THEN a ELSE N[k].parent,
                                     smaller |-> N[k].smaller, greater |-> N[k].greater, item |-> N[k].item,
                                     earlier |-> N[k].earlier, cell |-> N[k].cell,
                                     fore |-> IF k = c THEN fore ELSE N[k].fore, rear |-> N[k].rear]
        BY <1>8, <4>1
      <4>3. s[k] = [parent |-> IF k = c THEN a ELSE N[k].parent,
                      smaller |-> IF k = n /\ first # 1 THEN a ELSE N[k].smaller,
                      greater |-> IF k = n /\ first = 1 THEN a ELSE N[k].greater,
                      item |-> N[k].item, earlier |-> N[k].earlier, cell |-> N[k].cell,
                      fore |-> IF k = c THEN fore ELSE N[k].fore, rear |-> N[k].rear]
        BY <2>1, <3>2
      <4> QED
        BY <1>9, <4>1, <4>2, <4>3 DEF Childed
    <3> QED
      BY <3>1, <3>2
  <2>4. s = [k \in DOMAIN N \cup {a} |-> s[k]]
    BY <2>1
  <2>5. Childed(P, n, first, a) = [k \in DOMAIN N \cup {a} |-> Childed(P, n, first, a)[k]]
    BY <1>9 DEF Childed
  <2>6. s = Childed(P, n, first, a)
    BY <2>3, <2>4, <2>5
  <2> QED
    BY <2>6 DEF s
<1>13. Splitted(t, n, c, matched) = [nodes |-> Splitted(t, n, c, matched).nodes, items |-> I, keys |-> K,
                            end |-> a + 1, lastNode |-> a, lastItem |-> i]
  BY <1>4 DEF Splitted, a
<1>14. SetChild(grown, n, first, a) = Splitted(t, n, c, matched)
  BY <1>11, <1>12, <1>13
<1> QED
  BY <1>2, <1>14 DEF a

(* The edge from n on the side of a bit can be cut after some of its bits. *)
Cuttable(t, n, b, c, matched) ==
  /\ n \in DOMAIN t.nodes /\ b \in Bits /\ c = Child(t, n, b) /\ c # 0
  /\ matched \in Nat /\ matched > 0 /\ matched < Len(Edge(t, c))

CutEdge(t, n, b, c, matched) ==
  /\ n \in DOMAIN t.nodes /\ c \in DOMAIN t.nodes /\ b \in {0, 1} /\ matched \in Nat /\ matched > 0
  /\ IF b = 1 THEN c = t.nodes[n].greater ELSE c = t.nodes[n].smaller
  /\ t.nodes[c].parent = n /\ t.nodes[c].fore \in Nat /\ t.nodes[c].rear \in Nat
  /\ t.nodes[c].fore + matched < t.nodes[c].rear /\ t.nodes[c].rear <= Len(t.keys[t.nodes[c].cell])
  /\ t.keys[t.nodes[c].cell][t.nodes[c].fore + 1] = b /\ Head(Edge(t, c)) = b
  /\ t.keys[t.nodes[c].cell][t.nodes[c].fore + matched + 1] \in {0, 1}
  /\ t.keys[t.nodes[c].cell][t.nodes[c].fore + matched + 1] = Edge(t, c)[matched + 1]
  /\ t.nodes[c].cell \in DOMAIN t.keys

LEMMA CuttableForm ==
  ASSUME NEW t, Good(t), NEW n, NEW b, NEW c, NEW matched, Cuttable(t, n, b, c, matched)
  PROVE  CutEdge(t, n, b, c, matched)
<1>1. n \in DOMAIN t.nodes /\ b \in {0, 1} /\ matched \in Nat /\ matched > 0 /\ c # 0
  BY DEF Cuttable, Bits
<1>2. IF b = 1 THEN c = t.nodes[n].greater ELSE c = t.nodes[n].smaller
  BY <1>1 DEF Cuttable, Child
<1>3. NodeLinks(t, t.nodes[n]) /\ NodeGood(t, n)
  BY <1>1 DEF Good, Linked
<1>4. c \in DOMAIN t.nodes
  BY <1>1, <1>2, <1>3 DEF NodeLinks
<1>5. ChildGood(t, n, c, b)
  BY <1>1, <1>2, <1>3 DEF NodeGood
<1>6. /\ t.nodes[c].parent = n /\ t.nodes[c].fore < t.nodes[c].rear
      /\ t.keys[t.nodes[c].cell][t.nodes[c].fore + 1] = b
  BY <1>1, <1>5 DEF ChildGood
<1>7. /\ t.nodes[c].fore \in Nat /\ t.nodes[c].rear \in Nat /\ t.nodes[c].rear <= Len(t.keys[t.nodes[c].cell])
      /\ Len(Edge(t, c)) = t.nodes[c].rear - t.nodes[c].fore /\ Head(Edge(t, c)) = b
      /\ t.keys[t.nodes[c].cell] \in Seq(Bits)
  BY <1>4, <1>6, EdgeForm
<1>8. matched < t.nodes[c].rear - t.nodes[c].fore
  BY <1>7 DEF Cuttable
<1>9. t.keys[t.nodes[c].cell][t.nodes[c].fore + matched + 1] = Edge(t, c)[matched + 1]
  <2>1. matched + 1 \in 1 .. t.nodes[c].rear - t.nodes[c].fore /\ t.nodes[c].fore + (matched + 1) = t.nodes[c].fore + matched + 1
    <3> DEFINE f == t.nodes[c].fore
    <3> DEFINE r == t.nodes[c].rear
    <3>1. f \in Nat /\ r \in Nat /\ matched < r - f /\ matched \in Nat
      BY <1>1, <1>7, <1>8
    <3> HIDE DEF f, r
    <3>2. matched + 1 \in 1 .. r - f /\ f + (matched + 1) = f + matched + 1
      BY <3>1
    <3> QED
      BY <3>2 DEF f, r
  <2>2. Edge(t, c)[matched + 1] = t.keys[t.nodes[c].cell][t.nodes[c].fore + (matched + 1)]
    BY <1>4, <2>1, EdgeForm
  <2> QED
    BY <2>1, <2>2
<1>10. t.keys[t.nodes[c].cell][t.nodes[c].fore + matched + 1] \in {0, 1}
  <2>1. t.nodes[c].fore + matched + 1 \in 1 .. Len(t.keys[t.nodes[c].cell])
    <3> DEFINE f == t.nodes[c].fore
    <3> DEFINE r == t.nodes[c].rear
    <3> DEFINE l == Len(t.keys[t.nodes[c].cell])
    <3>0. l \in Nat
      <4>1. \A key \in Seq(Bits) : Len(key) \in Nat
        OBVIOUS
      <4> QED
        BY <1>7, <4>1
    <3>1. f \in Nat /\ r \in Nat /\ matched < r - f /\ matched \in Nat /\ r <= l
      BY <1>1, <1>7, <1>8
    <3> HIDE DEF f, r, l
    <3>2. f + matched + 1 \in 1 .. l
      BY <3>0, <3>1
    <3> QED
      BY <3>2 DEF f, r, l
  <2> QED
    BY <1>7, <2>1 DEF Bits
<1>11. t.nodes[c].fore + matched < t.nodes[c].rear
  BY <1>1, <1>7, <1>8
<1>12. t.nodes[c].cell \in DOMAIN t.keys
  BY <1>4 DEF Good, Linked, NodeLinks
<1> QED
  BY <1>1, <1>2, <1>4, <1>6, <1>7, <1>9, <1>10, <1>11, <1>12 DEF CutEdge

LEMMA SplittedGood ==
  ASSUME NEW t, Good(t), NEW n, NEW b, NEW c, NEW matched, Cuttable(t, n, b, c, matched)
  PROVE  Good(Splitted(t, n, c, matched))
<1> DEFINE u == Splitted(t, n, c, matched)
<1> DEFINE a == t.end
<1> DEFINE x == t.nodes[c]
<1> DEFINE key == t.keys[x.cell]
<1> DEFINE bit == key[x.fore + matched + 1]
<1>1. Linked(t) /\ Typed(t)
  BY DEF Good, Linked
<1>2. /\ a \in Nat /\ a >= 2 /\ a \notin DOMAIN t.nodes
      /\ \A k \in DOMAIN t.nodes : k < a
      /\ \A k \in DOMAIN t.items : k < a
      /\ \A k \in DOMAIN t.keys : k < a
      /\ t.lastNode \in Nat /\ t.lastNode < a
  BY <1>1 DEF Good, Typed, Linked
<1>3. /\ n \in DOMAIN t.nodes /\ c \in DOMAIN t.nodes /\ b \in {0, 1} /\ matched \in Nat /\ matched > 0
      /\ IF b = 1 THEN c = t.nodes[n].greater ELSE c = t.nodes[n].smaller
      /\ x.parent = n /\ x.fore \in Nat /\ x.rear \in Nat
      /\ x.fore + matched < x.rear /\ x.rear <= Len(key)
      /\ key[x.fore + 1] = b /\ Head(Edge(t, c)) = b /\ bit \in {0, 1} /\ x.cell \in DOMAIN t.keys
  <2>1. CutEdge(t, n, b, c, matched)
    BY CuttableForm
  <2> QED
    BY <2>1 DEF CutEdge
<1>4. n # a /\ c # a /\ c # 0
  BY <1>1, <1>2, <1>3 DEF Typed
<1>5. /\ DOMAIN u.nodes = DOMAIN t.nodes \cup {a} /\ u.items = t.items /\ u.end = a + 1
      /\ u.keys = t.keys /\ u.lastNode = a /\ u.lastItem = t.lastItem
      /\ u = [nodes |-> u.nodes, items |-> u.items, keys |-> u.keys,
              end |-> u.end, lastNode |-> u.lastNode, lastItem |-> u.lastItem]
      /\ u.nodes \in [DOMAIN u.nodes -> {u.nodes[k] : k \in DOMAIN u.nodes}]
  BY DEF Splitted
<1>6. u.nodes[a] = [parent |-> n, smaller |-> IF bit = 1 THEN 0 ELSE c,
                    greater |-> IF bit = 1 THEN c ELSE 0, item |-> 0,
                    earlier |-> t.lastNode, cell |-> x.cell, fore |-> x.fore, rear |-> x.fore + matched]
  BY <1>3 DEF Splitted
<1>7. ASSUME NEW k \in DOMAIN t.nodes
      PROVE  u.nodes[k] = [parent |-> IF k = c THEN a ELSE t.nodes[k].parent,
                      smaller |-> IF k = n /\ b # 1 THEN a ELSE t.nodes[k].smaller,
                      greater |-> IF k = n /\ b = 1 THEN a ELSE t.nodes[k].greater,
                      item |-> t.nodes[k].item, earlier |-> t.nodes[k].earlier, cell |-> t.nodes[k].cell,
                      fore |-> IF k = c THEN x.fore + matched ELSE t.nodes[k].fore, rear |-> t.nodes[k].rear]
  BY <1>2, <1>3 DEF Splitted
<1> HIDE DEF u, a
<1>8. ASSUME NEW k \in DOMAIN t.nodes
      PROVE  /\ u.nodes[k].parent = IF k = c THEN a ELSE t.nodes[k].parent
             /\ u.nodes[k].smaller = IF k = n /\ b # 1 THEN a ELSE t.nodes[k].smaller
             /\ u.nodes[k].greater = IF k = n /\ b = 1 THEN a ELSE t.nodes[k].greater
             /\ u.nodes[k].item = t.nodes[k].item /\ u.nodes[k].earlier = t.nodes[k].earlier
             /\ u.nodes[k].cell = t.nodes[k].cell
             /\ u.nodes[k].fore = IF k = c THEN x.fore + matched ELSE t.nodes[k].fore
             /\ u.nodes[k].rear = t.nodes[k].rear
             /\ t.nodes[k] \in Node /\ NodeLinks(t, t.nodes[k]) /\ NodeGood(t, k)
  <2>1. u.nodes[k] = [parent |-> IF k = c THEN a ELSE t.nodes[k].parent,
                      smaller |-> IF k = n /\ b # 1 THEN a ELSE t.nodes[k].smaller,
                      greater |-> IF k = n /\ b = 1 THEN a ELSE t.nodes[k].greater,
                      item |-> t.nodes[k].item, earlier |-> t.nodes[k].earlier, cell |-> t.nodes[k].cell,
                      fore |-> IF k = c THEN x.fore + matched ELSE t.nodes[k].fore, rear |-> t.nodes[k].rear]
    BY <1>7
  <2>2. t.nodes[k] \in Node /\ NodeLinks(t, t.nodes[k]) /\ NodeGood(t, k)
    BY <1>1 DEF Good, Linked, Typed
  <2> HIDE DEF x
  <2> QED
    BY <2>1, <2>2
<1>9. Typed(u)
  <2>1. u.nodes[a] \in Node
    <3>1. /\ n \in Nat /\ c \in Nat /\ t.lastNode \in Nat /\ x.cell \in Nat /\ x.fore \in Nat
          /\ x.fore + matched \in Nat
      <4>1. DOMAIN t.nodes \subseteq Nat /\ DOMAIN t.keys \subseteq Nat
        BY <1>1 DEF Typed
      <4>2. n \in DOMAIN t.nodes /\ c \in DOMAIN t.nodes /\ x.cell \in DOMAIN t.keys /\ x.fore \in Nat /\ matched \in Nat
        BY <1>3
      <4>3. t.lastNode \in Nat
        BY <1>2
      <4> HIDE DEF bit, key, x
      <4>4. x.fore + matched \in Nat
        BY <4>2
      <4> QED
        BY <4>1, <4>2, <4>3, <4>4
    <3> HIDE DEF bit, x
    <3> QED
      BY <1>6, <3>1 DEF Node
  <2>2. ASSUME NEW k \in DOMAIN t.nodes PROVE u.nodes[k] \in Node
    <3>1. a \in Nat /\ t.nodes[k] \in Node /\ x.fore + matched \in Nat
      <4>1. x.fore \in Nat /\ matched \in Nat
        BY <1>3
      <4>2. a \in Nat /\ t.nodes[k] \in Node
        BY <1>2, <1>8
      <4> HIDE DEF x
      <4> QED
        BY <4>1, <4>2
    <3>2. u.nodes[k] = [parent |-> IF k = c THEN a ELSE t.nodes[k].parent,
                      smaller |-> IF k = n /\ b # 1 THEN a ELSE t.nodes[k].smaller,
                      greater |-> IF k = n /\ b = 1 THEN a ELSE t.nodes[k].greater,
                      item |-> t.nodes[k].item, earlier |-> t.nodes[k].earlier, cell |-> t.nodes[k].cell,
                      fore |-> IF k = c THEN x.fore + matched ELSE t.nodes[k].fore, rear |-> t.nodes[k].rear]
      BY <1>7
    <3> HIDE DEF x
    <3> QED
      BY <3>1, <3>2 DEF Node
  <2>3. u.nodes \in [DOMAIN u.nodes -> Node]
    BY <1>5, <2>1, <2>2
  <2>4. DOMAIN u.nodes \subseteq Nat \ {0} /\ u.end \in Nat
    BY <1>1, <1>2, <1>5 DEF Typed
  <2>5. /\ DOMAIN u.items \subseteq Nat \ {0} /\ u.items \in [DOMAIN u.items -> Item]
        /\ DOMAIN u.keys \subseteq Nat /\ u.keys \in [DOMAIN u.keys -> Seq(Bits)]
    BY <1>1, <1>5 DEF Typed
  <2> QED
    BY <1>5, <2>3, <2>4, <2>5 DEF Typed
<1>10. ASSUME NEW k \in DOMAIN u.nodes PROVE NodeLinks(u, u.nodes[k])
  <2>1. CASE k = a
    <3>1. t.lastNode \in DOMAIN t.nodes \cup {0}
      BY <1>1 DEF Linked
    <3> HIDE DEF bit, x
    <3> QED
      BY <1>3, <1>5, <1>6, <2>1, <3>1 DEF NodeLinks, x
  <2>2. CASE k # a
    <3>1. k \in DOMAIN t.nodes
      BY <1>5, <2>2
    <3>2. NodeLinks(t, t.nodes[k])
      BY <1>8, <3>1
    <3> QED
      BY <1>5, <1>8, <3>1, <3>2 DEF NodeLinks
  <2> QED
    BY <2>1, <2>2
<1>11. Linked(u)
  <2>1. \A i \in DOMAIN u.items : ItemLinks(u, u.items[i])
    BY <1>1, <1>5 DEF ItemLinks, Linked
  <2> QED
    BY <1>1, <1>5, <1>9, <1>10, <2>1 DEF Linked
<1>12. ASSUME NEW k \in DOMAIN t.nodes, NEW d \in DOMAIN t.nodes, d # c, NEW side, ChildGood(t, k, d, side)
       PROVE  ChildGood(u, k, d, side)
  <2>1. /\ u.nodes[d].cell = t.nodes[d].cell /\ u.nodes[d].parent = t.nodes[d].parent
        /\ u.nodes[d].fore = t.nodes[d].fore /\ u.nodes[d].rear = t.nodes[d].rear /\ u.keys = t.keys
    BY <1>5, <1>8, <1>12
  <2> QED
    BY <1>12, <2>1 DEF ChildGood
<1>13. NodeGood(u, a)
  <2> DEFINE y == u.nodes[a]
  <2>1. /\ y.earlier < a /\ y.fore = x.fore /\ y.rear = x.fore + matched /\ y.item = 0
        /\ u.keys[y.cell] = key
    <3> HIDE DEF bit
    <3> QED
      BY <1>2, <1>5, <1>6
  <2>2. y.smaller = (IF bit = 1 THEN 0 ELSE c) /\ y.greater = (IF bit = 1 THEN c ELSE 0)
    <3> HIDE DEF bit
    <3> QED
      BY <1>6
  <2>3. ChildGood(u, a, c, bit)
    <3>1. u.nodes[c].parent = a /\ u.nodes[c].fore = x.fore + matched /\ u.nodes[c].rear = x.rear /\ u.nodes[c].cell = x.cell
      BY <1>3, <1>8
    <3> QED
      BY <1>3, <1>5, <3>1 DEF ChildGood
  <2>4. ChildGood(u, a, 0, 0) /\ ChildGood(u, a, 0, 1)
    BY DEF ChildGood
  <2>5. y.fore <= y.rear /\ y.rear <= Len(key)
    <3>1. x.fore \in Nat /\ matched \in Nat /\ x.rear \in Nat /\ x.fore + matched < x.rear /\ x.rear <= Len(key)
      BY <1>3
    <3>2. Len(key) \in Nat
      <4>1. key \in Seq(Bits)
        BY <1>1, <1>3 DEF Typed
      <4> HIDE DEF key
      <4> QED
        BY <4>1
    <3> DEFINE f == x.fore
    <3> DEFINE r == x.rear
    <3> DEFINE l == Len(key)
    <3>3. f \in Nat /\ matched \in Nat /\ r \in Nat /\ f + matched < r /\ r <= l /\ l \in Nat
      <4> HIDE DEF x, key
      <4> QED
        BY <3>1, <3>2
    <3>4. f <= f + matched /\ f + matched <= l
      <4> HIDE DEF f, r, l
      <4> QED
        BY <3>3
    <3>5. y.fore = f /\ y.rear = f + matched
      <4> HIDE DEF x, y
      <4> QED
        BY <2>1
    <3> HIDE DEF f, r, x, y, key
    <3> QED
      BY <3>4, <3>5
  <2>6. ChildGood(u, a, y.smaller, 0) /\ ChildGood(u, a, y.greater, 1)
    <3> HIDE DEF bit, y
    <3> QED
      BY <1>3, <2>2, <2>3, <2>4
  <2> QED
    BY <2>1, <2>5, <2>6 DEF NodeGood
<1>14. ASSUME NEW k \in DOMAIN t.nodes PROVE NodeGood(u, k)
  <2> DEFINE z == t.nodes[k]
  <2> DEFINE y == u.nodes[k]
  <2>1. /\ z.smaller \in DOMAIN t.nodes \cup {0} /\ z.greater \in DOMAIN t.nodes \cup {0}
        /\ z.cell \in DOMAIN t.keys /\ NodeGood(t, k) /\ z \in Node
    BY <1>8 DEF NodeLinks
  <2>2. ChildGood(t, k, z.smaller, 0) /\ ChildGood(t, k, z.greater, 1)
    BY <2>1 DEF NodeGood
  <2>3. ASSUME k = n PROVE ChildGood(u, k, a, b)
    <3>1. u.nodes[a].parent = n /\ u.nodes[a].fore = x.fore /\ u.nodes[a].rear = x.fore + matched /\ u.nodes[a].cell = x.cell
      <4> HIDE DEF bit
      <4> QED
        BY <1>6
    <3> QED
      BY <1>3, <1>5, <2>3, <3>1 DEF ChildGood
  <2>4. ASSUME NEW d, NEW side, d = c, ChildGood(t, k, d, side) PROVE k = n /\ side = b
    BY <1>3, <1>4, <2>4 DEF ChildGood
  <2>5. ChildGood(u, k, y.smaller, 0)
    <3>1. CASE k = n /\ b # 1
      <4>1. y.smaller = a /\ b = 0
        BY <1>3, <1>8, <3>1
      <4> QED
        BY <2>3, <3>1, <4>1
    <3>2. CASE ~(k = n /\ b # 1)
      <4>1. y.smaller = z.smaller
        BY <1>8, <3>2
      <4>2. z.smaller # c
        BY <1>3, <2>2, <2>4, <3>2
      <4>3. z.smaller # 0 => ChildGood(u, k, z.smaller, 0)
        BY <1>12, <2>1, <2>2, <4>2
      <4> QED
        BY <4>1, <4>3 DEF ChildGood
    <3> QED
      BY <3>1, <3>2
  <2>6. ChildGood(u, k, y.greater, 1)
    <3>1. CASE k = n /\ b = 1
      <4>1. y.greater = a
        BY <1>3, <1>8, <3>1
      <4> QED
        BY <2>3, <3>1, <4>1
    <3>2. CASE ~(k = n /\ b = 1)
      <4>1. y.greater = z.greater
        BY <1>8, <3>2
      <4>2. z.greater # c
        BY <1>3, <2>2, <2>4, <3>2
      <4>3. z.greater # 0 => ChildGood(u, k, z.greater, 1)
        BY <1>12, <2>1, <2>2, <4>2
      <4> QED
        BY <4>1, <4>3 DEF ChildGood
    <3> QED
      BY <3>1, <3>2
  <2>7. /\ y.earlier = z.earlier /\ y.rear = z.rear /\ y.item = z.item /\ u.items = t.items
        /\ u.keys[y.cell] = t.keys[z.cell] /\ y.fore = IF k = c THEN x.fore + matched ELSE z.fore
    BY <1>5, <1>8
  <2>8. y.fore <= y.rear
    <3>1. CASE k = c
      BY <1>3, <1>8, <3>1
    <3>2. CASE k # c
      BY <1>8, <2>1, <3>2 DEF NodeGood
    <3> QED
      BY <3>1, <3>2
  <2>9. /\ z.earlier < k /\ z.rear <= Len(t.keys[z.cell])
        /\ z.item # 0 => t.items[z.item].node = k /\ t.items[z.item].next = 0
    BY <2>1 DEF NodeGood
  <2> HIDE DEF y, z
  <2>10. /\ y.earlier < k /\ y.rear <= Len(u.keys[y.cell])
         /\ y.item # 0 => u.items[y.item].node = k /\ u.items[y.item].next = 0
    BY <2>7, <2>9
  <2> QED
    BY <2>5, <2>6, <2>8, <2>10 DEF NodeGood, y
<1>15. ASSUME NEW i \in DOMAIN u.items PROVE ItemGood(u, i)
  <2>1. ItemGood(t, i) /\ i \in DOMAIN t.items
    BY <1>5 DEF Good
  <2>2. /\ u.items[i].prev < i /\ u.items[i].earlier < i
        /\ u.items[i].owner => i + 1 \in DOMAIN u.nodes
    BY <1>5, <2>1 DEF ItemGood
  <2>3. ASSUME NEW e \in Nat, i < e, e <= i + u.items[i].bytes
        PROVE  e < u.end /\ e \notin DOMAIN u.items /\ e \notin DOMAIN u.keys /\ (e \in DOMAIN u.nodes => u.items[i].owner /\ e = i + 1)
    <3>1. e < a /\ e \notin DOMAIN t.items /\ e \notin DOMAIN t.keys /\ (e \in DOMAIN t.nodes => t.items[i].owner /\ e = i + 1)
      BY <1>5, <2>1, <2>3 DEF ItemGood, a
    <3> QED
      BY <1>2, <1>5, <3>1
  <2> QED
    BY <2>2, <2>3 DEF ItemGood
<1>16. /\ u.end >= 2 /\ Root \in DOMAIN u.nodes /\ 0 \in DOMAIN u.keys
       /\ \A k \in DOMAIN u.nodes : k < u.end
       /\ \A k \in DOMAIN u.items : k < u.end
       /\ \A k \in DOMAIN u.keys : k < u.end
  <2>1. DOMAIN t.nodes \subseteq Nat /\ DOMAIN t.items \subseteq Nat /\ DOMAIN t.keys \subseteq Nat
    BY <1>1 DEF Typed
  <2>2. Root \in DOMAIN t.nodes /\ 0 \in DOMAIN t.keys
    BY DEF Good
  <2> QED
    BY <1>2, <1>5, <2>1, <2>2
<1>17. Good(u)
  BY <1>5, <1>11, <1>13, <1>14, <1>15, <1>16 DEF Good
<1> QED
  BY <1>17 DEF u

LEMMA SplittedUndone ==
  ASSUME NEW t, Good(t), NEW n, NEW b, NEW c, NEW matched, Cuttable(t, n, b, c, matched), NEW m \in 1 .. t.end
  PROVE  Restore(Splitted(t, n, c, matched), m) = Restore(t, m)
<1> DEFINE u == Splitted(t, n, c, matched)
<1> DEFINE a == t.end
<1> DEFINE x == t.nodes[c]
<1> DEFINE bit == t.keys[x.cell][x.fore + matched + 1]
<1>1. Good(u) /\ Linked(u) /\ Linked(t) /\ Typed(t)
  BY SplittedGood DEF Good, Linked
<1>2. /\ a \in Nat /\ a >= 2 /\ u.end = a + 1 /\ u.lastItem = t.lastItem /\ u.lastNode = a
      /\ t.lastItem # a /\ a \notin DOMAIN t.nodes
  <2>1. u.end = a + 1 /\ u.lastItem = t.lastItem /\ u.lastNode = a
    BY DEF Splitted
  <2>2. a \in Nat /\ a >= 2 /\ a \notin DOMAIN t.nodes
    BY <1>1 DEF Good, Typed
  <2>3. t.lastItem \in Nat /\ t.lastItem < a
    BY <1>1, <2>2 DEF Good, Typed, Linked
  <2> QED
    BY <2>1, <2>2, <2>3
<1>3. /\ n \in DOMAIN t.nodes /\ c \in DOMAIN t.nodes /\ b \in {0, 1} /\ matched \in Nat /\ matched > 0
      /\ IF b = 1 THEN c = t.nodes[n].greater ELSE c = t.nodes[n].smaller
      /\ x.parent = n /\ x.fore \in Nat
      /\ t.keys[x.cell][x.fore + 1] = b /\ Head(Edge(t, c)) = b
      /\ bit \in {0, 1} /\ x.cell \in DOMAIN t.keys
  <2>1. CutEdge(t, n, b, c, matched)
    BY CuttableForm
  <2> QED
    BY <2>1 DEF CutEdge
<1>4. n # a /\ c # a /\ c # 0
  BY <1>1, <1>2, <1>3 DEF Typed
<1>5. u.nodes[a] = [parent |-> n, smaller |-> IF bit = 1 THEN 0 ELSE c,
                    greater |-> IF bit = 1 THEN c ELSE 0, item |-> 0,
                    earlier |-> t.lastNode, cell |-> x.cell, fore |-> x.fore, rear |-> x.fore + matched]
  BY <1>3 DEF Splitted
<1>6. Undone(u, a) = NodeDropped(u, a)
  <2>1. u.end # 0 /\ a \in 1 .. u.end - 1 /\ a \in Nat \ {0} /\ a + 1 = u.end
    BY <1>2
  <2> HIDE DEF u
  <2>2. Undone(u, a) = UnlinkNode(UnlinkItem(u, a), a)
    BY <1>1, <2>1, UndoneStep
  <2>3. UnlinkItem(u, a) = u
    BY <1>2 DEF UnlinkItem
  <2> QED
    BY <1>1, <1>2, <2>1, <2>2, <2>3, UnlinkNodeForm
<1>7. Head(Edge(u, a)) = b /\ Heir(u.nodes[a]) = c
  <2>1. a \in DOMAIN u.nodes /\ u.keys = t.keys
    BY DEF Splitted
  <2>2. u.nodes[a].fore = x.fore /\ u.nodes[a].rear = x.fore + matched /\ u.nodes[a].cell = x.cell
    <3> HIDE DEF u, bit
    <3> QED
      BY <1>5
  <2>3. u.nodes[a].fore < u.nodes[a].rear
    BY <1>3, <2>2
  <2>4. Head(Edge(u, a)) = b
    <3>1. t.keys[x.cell][x.fore + 1] = b
      BY <1>3
    <3> HIDE DEF u, x, bit
    <3>2. Head(Edge(u, a)) = u.keys[u.nodes[a].cell][u.nodes[a].fore + 1]
      BY <1>1, <2>1, <2>3, EdgeForm
    <3> QED
      BY <2>1, <2>2, <3>1, <3>2
  <2> HIDE DEF u
  <2>5. u.nodes[a].smaller = (IF bit = 1 THEN 0 ELSE c) /\ u.nodes[a].greater = (IF bit = 1 THEN c ELSE 0)
    <3> HIDE DEF bit
    <3> QED
      BY <1>5
  <2> QED
    BY <1>4, <2>4, <2>5 DEF Heir
<1>8. ASSUME NEW k \in DOMAIN t.nodes PROVE NodeDropped(u, a).nodes[k] = t.nodes[k]
  <2>1. k # a /\ t.nodes[k] \in Node /\ k \in DOMAIN u.nodes
    BY <1>1, <1>2 DEF Typed, Splitted
  <2>2. u.nodes[k] = [parent |-> IF k = c THEN a ELSE t.nodes[k].parent,
                      smaller |-> IF k = n /\ b # 1 THEN a ELSE t.nodes[k].smaller,
                      greater |-> IF k = n /\ b = 1 THEN a ELSE t.nodes[k].greater,
                      item |-> t.nodes[k].item, earlier |-> t.nodes[k].earlier, cell |-> t.nodes[k].cell,
                      fore |-> IF k = c THEN x.fore + matched ELSE t.nodes[k].fore, rear |-> t.nodes[k].rear]
    BY <1>2, <1>3, <2>1 DEF Splitted
  <2> DEFINE y == NodeDropped(u, a).nodes[k]
  <2>3. u.nodes[a].parent = n /\ u.nodes[a].fore = x.fore
    <3> HIDE DEF u, bit
    <3> QED
      BY <1>5
  <2>4. y = [parent |-> IF k = c THEN n ELSE u.nodes[k].parent,
             smaller |-> IF k = n /\ b # 1 THEN c ELSE u.nodes[k].smaller,
             greater |-> IF k = n /\ b = 1 THEN c ELSE u.nodes[k].greater,
             item |-> u.nodes[k].item, earlier |-> u.nodes[k].earlier, cell |-> u.nodes[k].cell,
             fore |-> IF k = c THEN x.fore ELSE u.nodes[k].fore, rear |-> u.nodes[k].rear]
    <3> HIDE DEF u
    <3> QED
      BY <1>7, <2>1, <2>3 DEF NodeDropped
  <2>5. y = [parent |-> t.nodes[k].parent, smaller |-> t.nodes[k].smaller, greater |-> t.nodes[k].greater,
             item |-> t.nodes[k].item, earlier |-> t.nodes[k].earlier, cell |-> t.nodes[k].cell,
             fore |-> t.nodes[k].fore, rear |-> t.nodes[k].rear]
    <3> HIDE DEF y, u
    <3> QED
      BY <1>3, <2>2, <2>4
  <2> HIDE DEF y, u
  <2>6. y = t.nodes[k]
    BY <2>1, <2>5 DEF Node
  <2> QED
    BY <2>6 DEF y
<1>9. Alike(NodeDropped(u, a), t, m)
  <2> DEFINE d == NodeDropped(u, a)
  <2>1. /\ DOMAIN d.nodes = DOMAIN t.nodes \cup {a} /\ d.items = t.items /\ d.keys = t.keys
        /\ d.lastItem = t.lastItem
    BY DEF NodeDropped, Splitted
  <2>2. d.lastNode = t.lastNode
    <3>1. u.nodes[a].earlier = t.lastNode
      <4> HIDE DEF u, bit
      <4> QED
        BY <1>5
    <3> HIDE DEF u
    <3> QED
      BY <3>1 DEF NodeDropped
  <2>4. a >= m
    BY <1>2
  <2>5. ASSUME NEW k \in DOMAIN t.nodes PROVE d.nodes[k] = t.nodes[k]
    BY <1>8
  <2> HIDE DEF d, a
  <2>6. Alike(d, t, m)
    BY <2>1, <2>2, <2>4, <2>5 DEF Alike
  <2> QED
    BY <2>6 DEF d
<1> HIDE DEF u
<1> QED
  BY <1>1, <1>2, <1>6, <1>9, RestoreAgrees DEF u

(* The end of the front of a cut edge has a child only where the edge went  *)
(* on.                                                                      *)
LEMMA SplittedChild ==
  ASSUME NEW t, Good(t), NEW n, NEW b, NEW c, NEW matched, Cuttable(t, n, b, c, matched),
         NEW bit \in Bits, bit # Edge(t, c)[matched + 1]
  PROVE  t.end \in DOMAIN Splitted(t, n, c, matched).nodes /\ Child(Splitted(t, n, c, matched), t.end, bit) = 0
<1> DEFINE u == Splitted(t, n, c, matched)
<1> DEFINE a == t.end
<1> DEFINE side == t.keys[t.nodes[c].cell][t.nodes[c].fore + matched + 1]
<1>1. /\ n \in DOMAIN t.nodes /\ c \in DOMAIN t.nodes /\ t.nodes[c].parent = n
      /\ side \in {0, 1} /\ side = Edge(t, c)[matched + 1]
  <2>1. CutEdge(t, n, b, c, matched)
    BY CuttableForm
  <2> QED
    BY <2>1 DEF CutEdge
<1>2. a \notin DOMAIN t.nodes
  BY DEF Good, Linked, Typed
<1>3. /\ a \in DOMAIN u.nodes
      /\ u.nodes[a] = [parent |-> n, smaller |-> IF side = 1 THEN 0 ELSE c,
                    greater |-> IF side = 1 THEN c ELSE 0, item |-> 0,
                    earlier |-> t.lastNode, cell |-> t.nodes[c].cell, fore |-> t.nodes[c].fore, rear |-> t.nodes[c].fore + matched]
  BY <1>1, <1>2 DEF Splitted
<1> HIDE DEF u, side, a
<1>4. u.nodes[a].smaller = (IF side = 1 THEN 0 ELSE c) /\ u.nodes[a].greater = (IF side = 1 THEN c ELSE 0)
  BY <1>3
<1>5. Child(u, a, bit) = 0
  BY <1>1, <1>4 DEF Child, Bits
<1> QED
  BY <1>3, <1>5 DEF u, a

(* What the library says of prefixes, in terms of bits. *)
LEMMA PrefixForm ==
  ASSUME NEW s \in Seq(Bits), NEW t \in Seq(Bits)
  PROVE  IsPrefix(s, t) <=> Len(s) <= Len(t) /\ \A i \in 1 .. Len(s) : s[i] = t[i]
<1>1. Len(s) \in Nat /\ Len(t) \in Nat
  OBVIOUS
<1>2. SubSeq(s, 1, Len(s)) = s
  OBVIOUS
<1>3. ASSUME Len(s) <= Len(t)
      PROVE  /\ SubSeq(t, 1, Len(s)) \in Seq(Bits) /\ Len(SubSeq(t, 1, Len(s))) = Len(s)
             /\ \A i \in 1 .. Len(s) : SubSeq(t, 1, Len(s))[i] = t[i]
  BY <1>1, <1>3
<1>4. ASSUME Len(s) <= Len(t) PROVE s = SubSeq(t, 1, Len(s)) <=> \A i \in 1 .. Len(s) : s[i] = t[i]
  <2> DEFINE p == SubSeq(t, 1, Len(s))
  <2>1. p \in Seq(Bits) /\ Len(p) = Len(s) /\ \A i \in 1 .. Len(s) : p[i] = t[i]
    BY <1>3, <1>4
  <2> HIDE DEF p
  <2>2. s = p <=> \A i \in 1 .. Len(s) : s[i] = p[i]
    BY <1>1, <2>1
  <2> QED
    BY <2>1, <2>2 DEF p
<1> QED
  BY <1>2, <1>4 DEF IsPrefix

LEMMA FrontForm ==
  ASSUME NEW s \in Seq(Bits), NEW l \in 0 .. Len(s)
  PROVE  /\ SubSeq(s, 1, l) \in Seq(Bits) /\ Len(SubSeq(s, 1, l)) = l
         /\ \A i \in 1 .. l : SubSeq(s, 1, l)[i] = s[i]
OBVIOUS

(* Where the key and an edge that starts with the same bit part. *)
LEMMA SharedBits ==
  ASSUME NEW r \in Seq(Bits), NEW e \in Seq(Bits), r # <<>>, e # <<>>, Head(r) = Head(e), ~IsPrefix(e, r)
  PROVE  /\ Len(LongestCommonPrefix({r, e})) \in Nat /\ Len(LongestCommonPrefix({r, e})) > 0
         /\ Len(LongestCommonPrefix({r, e})) < Len(e) /\ Len(LongestCommonPrefix({r, e})) <= Len(r)
         /\ Len(LongestCommonPrefix({r, e})) < Len(r) =>
              r[Len(LongestCommonPrefix({r, e})) + 1] # e[Len(LongestCommonPrefix({r, e})) + 1]
         /\ \A i \in 1 .. Len(LongestCommonPrefix({r, e})) : e[i] = r[i]
<1> DEFINE Shared == {l \in 0 .. Len(e) : l <= Len(r) /\ \A i \in 1 .. l : e[i] = r[i]}
<1>1. Len(r) \in Nat /\ Len(e) \in Nat /\ Len(r) > 0 /\ Len(e) > 0 /\ e[1] = r[1]
  OBVIOUS
<1>2. 1 \in Shared
  BY <1>1
<1>3. ASSUME NEW l \in Shared PROVE SubSeq(e, 1, l) \in CommonPrefixes({r, e}) /\ Len(SubSeq(e, 1, l)) = l
  <2> DEFINE p == SubSeq(e, 1, l)
  <2>1. p \in Seq(Bits) /\ Len(p) = l /\ \A i \in 1 .. l : p[i] = e[i]
    BY FrontForm
  <2>2. p \in Prefixes(e)
    BY DEF Prefixes
  <2> HIDE DEF p
  <2>3. IsPrefix(p, e)
    BY <1>1, <2>1, PrefixForm
  <2>4. IsPrefix(p, r)
    BY <1>1, <2>1, PrefixForm
  <2> QED
    BY <2>1, <2>2, <2>3, <2>4 DEF CommonPrefixes, p
<1>4. ASSUME NEW p \in CommonPrefixes({r, e}) PROVE p \in Seq(Bits) /\ Len(p) \in Shared
  <2>1. IsPrefix(p, e) /\ IsPrefix(p, r)
    BY DEF CommonPrefixes
  <2>2. PICK s \in {r, e} : \E l \in 0 .. Len(s) : p = SubSeq(s, 1, l)
    BY DEF CommonPrefixes, Prefixes
  <2>3. PICK l \in 0 .. Len(s) : p = SubSeq(s, 1, l)
    BY <2>2
  <2>4. p \in Seq(Bits)
    BY <2>2, <2>3, FrontForm
  <2>5. Len(p) \in Nat
    BY <2>4
  <2>6. /\ Len(p) <= Len(e) /\ \A i \in 1 .. Len(p) : p[i] = e[i]
        /\ Len(p) <= Len(r) /\ \A i \in 1 .. Len(p) : p[i] = r[i]
    BY <2>1, <2>4, PrefixForm
  <2> QED
    BY <1>1, <2>4, <2>5, <2>6
<1> DEFINE longest == LongestCommonPrefix({r, e})
<1> DEFINE m == Len(longest)
<1>5. longest \in CommonPrefixes({r, e}) /\ \A other \in CommonPrefixes({r, e}) : Len(other) <= m
  <2>1. PICK l \in Shared : \A k \in Shared : k <= l
    <3>1. Shared \in SUBSET (0 .. Len(e)) /\ Shared # {}
      BY <1>2
    <3> HIDE DEF Shared
    <3> QED
      BY <1>1, <3>1, GreatestNatural
  <2> HIDE DEF Shared
  <2>2. SubSeq(e, 1, l) \in CommonPrefixes({r, e}) /\ \A other \in CommonPrefixes({r, e}) : Len(other) <= Len(SubSeq(e, 1, l))
    BY <1>3, <1>4, <2>1
  <2> QED
    BY <2>2 DEF LongestCommonPrefix
<1>6. m \in Shared
  BY <1>4, <1>5
<1>7. m > 0
  <2>1. 1 <= m
    BY <1>2, <1>3, <1>5
  <2> QED
    BY <1>6, <2>1
<1>8. m # Len(e)
  BY <1>6, PrefixForm
<1>9. ASSUME m < Len(r), r[m + 1] = e[m + 1] PROVE FALSE
  <2> HIDE DEF m
  <2>1. m \in Nat /\ m + 1 <= Len(e) /\ m + 1 <= Len(r)
    BY <1>1, <1>6, <1>8, <1>9
  <2>2. \A i \in 1 .. m + 1 : e[i] = r[i]
    BY <1>6, <1>9, <2>1
  <2>3. m + 1 \in Shared
    BY <1>1, <2>1, <2>2
  <2>4. m + 1 <= m
    BY <1>3, <1>5, <2>3
  <2> QED
    BY <2>1, <2>4
<1>10. m \in Nat /\ m < Len(e) /\ m <= Len(r) /\ \A i \in 1 .. m : e[i] = r[i]
  <2>1. m \in 0 .. Len(e) /\ m <= Len(r) /\ \A i \in 1 .. m : e[i] = r[i]
    BY <1>6
  <2> HIDE DEF m
  <2> QED
    BY <1>1, <1>8, <2>1
<1>11. m < Len(r) => r[m + 1] # e[m + 1]
  BY <1>9
<1> QED
  BY <1>7, <1>10, <1>11

(***************************************************************************)
(* The descent along a key.                                                 *)
(***************************************************************************)
Visits(t, key) == (DOMAIN t.nodes) \X (0 .. Len(key))

Ahead(t, key, v) == IF Rest(key, v[2]) = <<>> THEN 0 ELSE Child(t, v[1], Head(Rest(key, v[2])))

Onward(t, key, v) == Ahead(t, key, v) # 0 /\ IsPrefix(Edge(t, Ahead(t, key, v)), Rest(key, v[2]))

After(t, key, v) == <<Ahead(t, key, v), v[2] + Len(Edge(t, Ahead(t, key, v)))>>

Falls(t, key, f, v) ==
  LET rest == Rest(key, v[2])
      c == IF rest = <<>> THEN 0 ELSE Child(t, v[1], Head(rest))
  IN  IF c = 0 \/ ~IsPrefix(Edge(t, c), rest) THEN <<v>>
      ELSE <<v>> \o f[<<c, v[2] + Len(Edge(t, c))>>]

LEMMA FallsForm ==
  ASSUME NEW t, NEW key, NEW f, NEW v
  PROVE  Falls(t, key, f, v) = IF Onward(t, key, v) THEN <<v>> \o f[After(t, key, v)] ELSE <<v>>
BY DEF Falls, Onward, After, Ahead

LEMMA RestForm ==
  ASSUME NEW key \in Seq(Bits), NEW k \in 0 .. Len(key)
  PROVE  Rest(key, k) \in Seq(Bits) /\ Len(Rest(key, k)) = Len(key) - k
<1>1. Len(key) \in Nat /\ k \in Nat /\ k <= Len(key)
  OBVIOUS
<1>2. CASE k < Len(key)
  <2>1. \A i \in k + 1 .. Len(key) : key[i] \in Bits
    BY <1>1
  <2>2. Rest(key, k) = [i \in 1 .. Len(key) - k |-> key[k + i]]
    BY <1>1, <1>2 DEF Rest
  <2> QED
    BY <1>1, <1>2, <2>1, <2>2
<1>3. CASE k = Len(key)
  BY <1>1, <1>3 DEF Rest
<1> QED
  BY <1>1, <1>2, <1>3

(* A child is a node and its edge is not empty. *)
LEMMA ChildForm ==
  ASSUME NEW t, Good(t), NEW n \in DOMAIN t.nodes, NEW bit \in Bits, Child(t, n, bit) # 0
  PROVE  /\ Child(t, n, bit) \in DOMAIN t.nodes /\ Edge(t, Child(t, n, bit)) \in Seq(Bits)
         /\ Len(Edge(t, Child(t, n, bit))) \in Nat /\ Len(Edge(t, Child(t, n, bit))) > 0
         /\ Head(Edge(t, Child(t, n, bit))) = bit
<1> DEFINE c == Child(t, n, bit)
<1>1. NodeLinks(t, t.nodes[n]) /\ NodeGood(t, n) /\ bit \in {0, 1}
  BY DEF Good, Linked, Bits
<1>2. c = IF bit = 1 THEN t.nodes[n].greater ELSE t.nodes[n].smaller
  BY DEF Child
<1> HIDE DEF c
<1>3. c \in DOMAIN t.nodes /\ ChildGood(t, n, c, bit)
  <2>1. c # 0
    BY DEF c
  <2> QED
    BY <1>1, <1>2, <2>1 DEF NodeLinks, NodeGood
<1>4. t.nodes[c].fore < t.nodes[c].rear /\ t.keys[t.nodes[c].cell][t.nodes[c].fore + 1] = bit
  BY <1>3 DEF ChildGood, c
<1>5. /\ t.nodes[c].fore \in Nat /\ t.nodes[c].rear \in Nat
      /\ Edge(t, c) \in Seq(Bits) /\ Len(Edge(t, c)) = t.nodes[c].rear - t.nodes[c].fore
      /\ Head(Edge(t, c)) = bit
  BY <1>3, <1>4, EdgeForm
<1>6. Len(Edge(t, c)) \in Nat /\ Len(Edge(t, c)) > 0
  BY <1>4, <1>5
<1> QED
  BY <1>3, <1>5, <1>6 DEF c

LEMMA OnwardForm ==
  ASSUME NEW t, Good(t), NEW key \in Seq(Bits), NEW v \in Visits(t, key), Onward(t, key, v)
  PROVE  After(t, key, v) \in Visits(t, key) /\ After(t, key, v)[2] > v[2]
<1> DEFINE c == Ahead(t, key, v)
<1> DEFINE rest == Rest(key, v[2])
<1>1. v[1] \in DOMAIN t.nodes /\ v[2] \in 0 .. Len(key) /\ Len(key) \in Nat
  BY DEF Visits
<1>2. rest \in Seq(Bits) /\ Len(rest) = Len(key) - v[2]
  BY <1>1, RestForm
<1>3. rest # <<>> /\ c # 0 /\ c = Child(t, v[1], Head(rest)) /\ IsPrefix(Edge(t, c), rest)
  BY DEF Onward, Ahead
<1>4. Head(rest) \in Bits
  BY <1>2, <1>3
<1>5. c \in DOMAIN t.nodes /\ Edge(t, c) \in Seq(Bits) /\ Len(Edge(t, c)) \in Nat /\ Len(Edge(t, c)) > 0
  BY <1>1, <1>3, <1>4, ChildForm
<1>6. Len(Edge(t, c)) <= Len(rest)
  BY <1>2, <1>3, <1>5, PrefixForm
<1>7. After(t, key, v) = <<c, v[2] + Len(Edge(t, c))>>
  BY DEF After
<1> HIDE DEF c, rest
<1>8. v[2] + Len(Edge(t, c)) \in 0 .. Len(key) /\ v[2] + Len(Edge(t, c)) > v[2]
  BY <1>1, <1>2, <1>5, <1>6
<1> QED
  BY <1>5, <1>7, <1>8 DEF Visits

(* The recursion of Descent has a solution. *)
LEMMA DownExists ==
  ASSUME NEW t, Good(t), NEW key \in Seq(Bits)
  PROVE  \E f : f = [v \in Visits(t, key) |-> Falls(t, key, f, v)]
<1> DEFINE V(m) == {v \in Visits(t, key) : v[2] >= m}
<1> DEFINE Down(m, f) == f = [v \in V(m) |-> Falls(t, key, f, v)]
<1> DEFINE Solved == {m \in Nat : \E f : Down(m, f)}
<1>1. Len(key) \in Nat
  OBVIOUS
<1>2. Len(key) \in Solved
  <2>1. ASSUME NEW v \in V(Len(key)), Onward(t, key, v) PROVE FALSE
    <3>1. v \in Visits(t, key) /\ v[2] \in 0 .. Len(key) /\ v[2] >= Len(key)
      BY DEF Visits
    <3>2. After(t, key, v)[2] > v[2] /\ After(t, key, v)[2] \in 0 .. Len(key)
      BY <2>1, <3>1, OnwardForm DEF Visits
    <3> QED
      BY <1>1, <3>1, <3>2
  <2> DEFINE g == [v \in V(Len(key)) |-> <<v>>]
  <2>2. \A v \in V(Len(key)) : g[v] = Falls(t, key, g, v)
    BY <2>1, FallsForm
  <2>3. Down(Len(key), g)
    BY <2>2
  <2> HIDE DEF g, Down
  <2> QED
    BY <1>1, <2>3
<1>3. ASSUME NEW m \in 1 .. Len(key), m \in Solved PROVE m - 1 \in Solved
  <2>1. PICK f : Down(m, f)
    BY <1>3
  <2>2. m \in Nat /\ m - 1 \in Nat
    OBVIOUS
  <2> DEFINE g == [v \in V(m - 1) |-> IF v \in V(m) THEN f[v] ELSE Falls(t, key, f, v)]
  <2>3. ASSUME NEW v \in V(m - 1), Onward(t, key, v)
        PROVE  After(t, key, v) \in V(m - 1) /\ g[After(t, key, v)] = f[After(t, key, v)]
    <3>1. v \in Visits(t, key) /\ v[2] \in Nat /\ v[2] >= m - 1
      BY DEF Visits
    <3>2. After(t, key, v) \in Visits(t, key) /\ After(t, key, v)[2] > v[2] /\ After(t, key, v)[2] \in Nat
      BY <2>3, <3>1, OnwardForm DEF Visits
    <3>3. After(t, key, v)[2] >= m /\ After(t, key, v)[2] >= m - 1
      BY <2>2, <3>1, <3>2
    <3> QED
      BY <3>2, <3>3
  <2>4. ASSUME NEW v \in V(m - 1) PROVE g[v] = Falls(t, key, g, v)
    <3>1. Falls(t, key, g, v) = Falls(t, key, f, v)
      <4> HIDE DEF g
      <4> QED
        BY <2>3, FallsForm
    <3>2. CASE v \in V(m)
      <4>1. f[v] = Falls(t, key, f, v)
        BY <2>1, <3>2
      <4>2. g[v] = f[v]
        BY <3>2
      <4> QED
        BY <3>1, <4>1, <4>2
    <3>3. CASE v \notin V(m)
      <4>1. g[v] = Falls(t, key, f, v)
        BY <3>3
      <4> QED
        BY <3>1, <4>1
    <3> QED
      BY <3>2, <3>3
  <2>5. g = [v \in V(m - 1) |-> g[v]]
    OBVIOUS
  <2> HIDE DEF g
  <2>6. Down(m - 1, g)
    BY <2>4, <2>5
  <2> HIDE DEF Down
  <2> QED
    BY <2>2, <2>6
<1>4. 0 \in Solved
  <2> HIDE DEF Solved
  <2> QED
    BY <1>1, <1>2, <1>3, DownInduction
<1>5. V(0) = Visits(t, key)
  BY DEF Visits
<1>6. PICK f : Down(0, f)
  BY <1>4
<1> QED
  BY <1>5, <1>6

LEMMA DescentForm ==
  ASSUME NEW t, Good(t), NEW key \in Seq(Bits), NEW root \in DOMAIN t.nodes
  PROVE  \E F : /\ F = [v \in Visits(t, key) |-> Falls(t, key, F, v)]
                /\ Descent(t, root, key) = F[<<root, 0>>]
<1> DEFINE F == CHOOSE f : f = [v \in (DOMAIN t.nodes) \X (0 .. Len(key)) |->
                  LET rest == Rest(key, v[2])
                      c == IF rest = <<>> THEN 0 ELSE Child(t, v[1], Head(rest))
                  IN  IF c = 0 \/ ~IsPrefix(Edge(t, c), rest) THEN <<v>>
                      ELSE <<v>> \o f[<<c, v[2] + Len(Edge(t, c))>>]]
<1>1. Descent(t, root, key) = F[<<root, 0>>]
  BY DEF Descent
<1>2. F = CHOOSE f : f = [v \in Visits(t, key) |-> Falls(t, key, f, v)]
  BY DEF Falls, Visits
<1> HIDE DEF F
<1>3. F = [v \in Visits(t, key) |-> Falls(t, key, F, v)]
  BY <1>2, DownExists
<1> QED
  BY <1>1, <1>3

(* The descent ends at a node where the key, or the edge it would go on     *)
(* along, has ended or parted.                                              *)
LEMMA DescentEnds ==
  ASSUME NEW t, Good(t), NEW key \in Seq(Bits), NEW root \in DOMAIN t.nodes
  PROVE  Last(Descent(t, root, key)) \in Visits(t, key) /\ ~Onward(t, key, Last(Descent(t, root, key)))
<1>1. PICK F : /\ F = [v \in Visits(t, key) |-> Falls(t, key, F, v)]
               /\ Descent(t, root, key) = F[<<root, 0>>]
  BY DescentForm
<1> DEFINE Ends(v) == /\ F[v] \in Seq(Visits(t, key)) /\ F[v] # <<>>
                      /\ Last(F[v]) \in Visits(t, key) /\ ~Onward(t, key, Last(F[v]))
<1> DEFINE S == {m \in Nat : \A v \in Visits(t, key) : v[2] >= m => Ends(v)}
<1>2. Len(key) \in Nat
  OBVIOUS
<1>3. ASSUME NEW v \in Visits(t, key), ~Onward(t, key, v) PROVE Ends(v)
  <2>1. F[v] = <<v>>
    BY <1>1, <1>3, FallsForm
  <2>2. <<v>> \in Seq(Visits(t, key)) /\ <<v>> # <<>> /\ Last(<<v>>) = v
    BY DEF Last
  <2> QED
    BY <1>3, <2>1, <2>2
<1>4. ASSUME NEW v \in Visits(t, key), Onward(t, key, v), Ends(After(t, key, v)) PROVE Ends(v)
  <2> DEFINE w == F[After(t, key, v)]
  <2>1. F[v] = <<v>> \o w
    BY <1>1, <1>4, FallsForm
  <2>2. w \in Seq(Visits(t, key)) /\ w # <<>>
    BY <1>4
  <2> HIDE DEF w
  <2>3. <<v>> \o w \in Seq(Visits(t, key)) /\ <<v>> \o w # <<>> /\ Last(<<v>> \o w) = Last(w)
    BY <2>2 DEF Last
  <2> QED
    BY <1>4, <2>1, <2>3 DEF w
<1>5. Len(key) \in S
  <2>1. ASSUME NEW v \in Visits(t, key), v[2] >= Len(key) PROVE Ends(v)
    <3>1. v[2] \in 0 .. Len(key)
      BY DEF Visits
    <3>2. ASSUME Onward(t, key, v) PROVE FALSE
      <4>1. After(t, key, v)[2] > v[2] /\ After(t, key, v)[2] \in 0 .. Len(key)
        BY <3>2, OnwardForm DEF Visits
      <4> QED
        BY <1>2, <2>1, <3>1, <4>1
    <3> HIDE DEF Ends
    <3> QED
      BY <1>3, <3>2
  <2> HIDE DEF Ends
  <2> QED
    BY <1>2, <2>1
<1>6. ASSUME NEW m \in 1 .. Len(key), m \in S PROVE m - 1 \in S
  <2>1. m \in Nat /\ m - 1 \in Nat
    OBVIOUS
  <2>2. ASSUME NEW v \in Visits(t, key), v[2] >= m - 1 PROVE Ends(v)
    <3>1. CASE ~Onward(t, key, v)
      <4> HIDE DEF Ends
      <4> QED
        BY <1>3, <3>1
    <3>2. CASE Onward(t, key, v)
      <4>1. After(t, key, v) \in Visits(t, key) /\ After(t, key, v)[2] > v[2]
        BY <3>2, OnwardForm
      <4>2. After(t, key, v)[2] \in Nat /\ v[2] \in Nat
        BY <4>1 DEF Visits
      <4>3. After(t, key, v)[2] >= m
        BY <2>1, <2>2, <4>1, <4>2
      <4> HIDE DEF Ends
      <4>4. Ends(After(t, key, v))
        BY <1>6, <4>1, <4>3
      <4> QED
        BY <1>4, <3>2, <4>4
    <3> QED
      BY <3>1, <3>2
  <2> HIDE DEF Ends
  <2> QED
    BY <2>1, <2>2
<1>7. 0 \in S
  <2> HIDE DEF S
  <2> QED
    BY <1>2, <1>5, <1>6, DownInduction
<1>8. Ends(<<root, 0>>)
  <2>1. <<root, 0>> \in Visits(t, key) /\ <<root, 0>>[2] >= 0
    BY <1>2 DEF Visits
  <2> HIDE DEF Ends
  <2> QED
    BY <1>7, <2>1
<1> QED
  BY <1>1, <1>8

(***************************************************************************)
(* What each writer of the tree keeps: the new tree is good, lies in the    *)
(* region, and restores to any address of the old one as that one does.     *)
(***************************************************************************)
Over(t, u) ==
  /\ Good(u) /\ t.end <= u.end
  /\ t.end <= program.memory => u.end <= program.memory
  /\ \A m \in 1 .. t.end : Restore(u, m) = Restore(t, m)

LEMMA OverItself ==
  ASSUME NEW t, Good(t)
  PROVE  Over(t, t)
<1>1. t.end \in Nat
  BY DEF Good, Linked, Typed
<1> QED
  BY <1>1 DEF Over

LEMMA OverOver ==
  ASSUME NEW t, NEW u, NEW w, Good(t), Over(t, u), Over(u, w)
  PROVE  Over(t, w)
<1>1. t.end \in Nat /\ u.end \in Nat /\ w.end \in Nat
  BY DEF Over, Good, Linked, Typed
<1>2. \A m \in 1 .. t.end : m \in 1 .. u.end
  BY <1>1 DEF Over
<1> QED
  BY <1>1, <1>2 DEF Over

LEMMA ResultForm ==
  ASSUME NEW t, NEW a
  PROVE  Result(t, a).tree = t /\ Result(t, a).at = a
BY DEF Result

LEMMA NewLeafOver ==
  ASSUME program.memory \in Nat, NEW t, Good(t), NEW n \in DOMAIN t.nodes, NEW rest \in Seq(Bits), rest # <<>>,
         Child(t, n, Head(rest)) = 0
  PROVE  /\ Over(t, NewLeaf(t, n, rest).tree)
         /\ NewLeaf(t, n, rest).at # 0 => NewLeaf(t, n, rest).at \in DOMAIN NewLeaf(t, n, rest).tree.nodes
<1>1. t.end \in Nat
  BY DEF Good, Linked, Typed
<1>2. CASE t.end + 2 > program.memory
  BY <1>2, NewLeafForm, ResultForm, OverItself
<1>3. CASE ~(t.end + 2 > program.memory)
  <2> DEFINE u == Leafed(t, n, rest)
  <2>1. NewLeaf(t, n, rest).tree = u /\ NewLeaf(t, n, rest).at = t.end
    BY <1>3, NewLeafForm, ResultForm
  <2>2. u.end = t.end + 2 /\ t.end \in DOMAIN u.nodes
    BY DEF Leafed
  <2>3. Good(u) /\ \A m \in 1 .. t.end : Restore(u, m) = Restore(t, m)
    BY LeafedGood, LeafedUndone
  <2> HIDE DEF u
  <2>4. t.end <= u.end /\ u.end <= program.memory
    BY <1>1, <1>3, <2>2
  <2> QED
    BY <2>1, <2>2, <2>3, <2>4 DEF Over
<1> QED
  BY <1>2, <1>3

LEMMA SplitEdgeOver ==
  ASSUME program.memory \in Nat, NEW t, Good(t), NEW n, NEW b, NEW c, NEW matched, Cuttable(t, n, b, c, matched)
  PROVE  /\ Over(t, SplitEdge(t, n, c, matched).tree)
         /\ SplitEdge(t, n, c, matched).at # 0 =>
              /\ SplitEdge(t, n, c, matched).at \in DOMAIN SplitEdge(t, n, c, matched).tree.nodes
              /\ \A bit \in Bits : bit # Edge(t, c)[matched + 1] =>
                   Child(SplitEdge(t, n, c, matched).tree, SplitEdge(t, n, c, matched).at, bit) = 0
<1>1. t.end \in Nat
  BY DEF Good, Linked, Typed
<1>2. SplitEdge(t, n, c, matched) =
        IF t.end + 1 > program.memory THEN Result(t, 0) ELSE Result(Splitted(t, n, c, matched), t.end)
  <2>1. CutEdge(t, n, b, c, matched)
    BY CuttableForm
  <2>2. /\ n \in DOMAIN t.nodes /\ c \in DOMAIN t.nodes /\ matched \in Nat
        /\ t.nodes[c].fore + matched < t.nodes[c].rear /\ t.nodes[c].fore \in Nat /\ t.nodes[c].rear \in Nat
    BY <2>1 DEF CutEdge
  <2>3. matched < t.nodes[c].rear - t.nodes[c].fore
    BY <2>2
  <2> QED
    BY <2>2, <2>3, SplitEdgeForm
<1>3. CASE t.end + 1 > program.memory
  BY <1>2, <1>3, ResultForm, OverItself
<1>4. CASE ~(t.end + 1 > program.memory)
  <2> DEFINE u == Splitted(t, n, c, matched)
  <2>1. SplitEdge(t, n, c, matched).tree = u /\ SplitEdge(t, n, c, matched).at = t.end
    BY <1>2, <1>4, ResultForm
  <2>2. u.end = t.end + 1 /\ t.end \in DOMAIN u.nodes
    BY DEF Splitted
  <2>3. Good(u) /\ \A m \in 1 .. t.end : Restore(u, m) = Restore(t, m)
    BY SplittedGood, SplittedUndone
  <2>4. \A bit \in Bits : bit # Edge(t, c)[matched + 1] => Child(u, t.end, bit) = 0
    BY SplittedChild
  <2> HIDE DEF u
  <2>5. t.end <= u.end /\ u.end <= program.memory
    BY <1>1, <1>4, <2>2
  <2> QED
    BY <2>1, <2>2, <2>3, <2>4, <2>5 DEF Over
<1> QED
  BY <1>3, <1>4

LEMMA RestHead ==
  ASSUME NEW key \in Seq(Bits), NEW k \in Nat, k < Len(key)
  PROVE  Rest(key, k) \in Seq(Bits) /\ Rest(key, k) # <<>> /\ Head(Rest(key, k)) = key[k + 1] /\ Head(Rest(key, k)) \in Bits
<1>1. \A i \in k + 1 .. Len(key) : key[i] \in Bits
  OBVIOUS
<1>2. Rest(key, k) = [i \in 1 .. Len(key) - k |-> key[k + i]]
  BY DEF Rest
<1>3. key[k + 1] \in Bits /\ Len(key) - k \in Nat /\ Len(key) - k > 0 /\ 1 \in 1 .. Len(key) - k
  BY <1>1
<1>4. Rest(key, k) \in Seq(Bits) /\ Len(Rest(key, k)) = Len(key) - k
  BY RestForm
<1>5. Rest(key, k)[1] = key[k + 1]
  BY <1>2, <1>3
<1>6. Rest(key, k) # <<>>
  BY <1>3, <1>4
<1>7. Head(Rest(key, k)) = Rest(key, k)[1]
  BY <1>4, <1>6
<1> QED
  BY <1>3, <1>4, <1>5, <1>6, <1>7

LEMMA AppendBesideOver ==
  ASSUME program.memory \in Nat, NEW t, Good(t), NEW n, NEW rest \in Seq(Bits), rest # <<>>,
         NEW c, NEW matched, Cuttable(t, n, Head(rest), c, matched),
         matched <= Len(rest), matched < Len(rest) => rest[matched + 1] # Edge(t, c)[matched + 1]
  PROVE  /\ Over(t, AppendBeside(t, n, c, matched, rest).tree)
         /\ AppendBeside(t, n, c, matched, rest).at # 0 =>
              AppendBeside(t, n, c, matched, rest).at \in DOMAIN AppendBeside(t, n, c, matched, rest).tree.nodes
<1> DEFINE split == SplitEdge(t, n, c, matched)
<1>1. AppendBeside(t, n, c, matched, rest) =
        IF split.at = 0 \/ matched = Len(rest) THEN split ELSE NewLeaf(split.tree, split.at, Rest(rest, matched))
  BY DEF AppendBeside, AppendSplit
<1>2. /\ Over(t, split.tree)
      /\ split.at # 0 => /\ split.at \in DOMAIN split.tree.nodes
                         /\ \A bit \in Bits : bit # Edge(t, c)[matched + 1] => Child(split.tree, split.at, bit) = 0
  BY SplitEdgeOver
<1> HIDE DEF split
<1>3. CASE split.at = 0 \/ matched = Len(rest)
  BY <1>1, <1>2, <1>3
<1>4. CASE split.at # 0 /\ matched # Len(rest)
  <2>1. matched \in Nat /\ Len(rest) \in Nat
    BY DEF Cuttable
  <2>2. matched < Len(rest)
    BY <1>4, <2>1
  <2>3. /\ Rest(rest, matched) \in Seq(Bits) /\ Rest(rest, matched) # <<>>
        /\ Head(Rest(rest, matched)) = rest[matched + 1] /\ Head(Rest(rest, matched)) \in Bits
    BY <2>1, <2>2, RestHead
  <2>4. Child(split.tree, split.at, Head(Rest(rest, matched))) = 0
    BY <1>2, <1>4, <2>2, <2>3
  <2>5. Good(split.tree)
    BY <1>2 DEF Over
  <2> DEFINE w == NewLeaf(split.tree, split.at, Rest(rest, matched))
  <2>6. Over(split.tree, w.tree) /\ (w.at # 0 => w.at \in DOMAIN w.tree.nodes)
    BY <1>2, <1>4, <2>3, <2>4, <2>5, NewLeafOver
  <2>7. AppendBeside(t, n, c, matched, rest) = w
    BY <1>1, <1>4
  <2> HIDE DEF w
  <2> QED
    BY <1>2, <2>6, <2>7, OverOver
<1> QED
  BY <1>3, <1>4

LEMMA AppendKeyOver ==
  ASSUME program.memory \in Nat, NEW t, Good(t), NEW root \in DOMAIN t.nodes, NEW key \in Seq(Bits)
  PROVE  /\ Over(t, AppendKey(t, root, key).tree)
         /\ AppendKey(t, root, key).at # 0 => AppendKey(t, root, key).at \in DOMAIN AppendKey(t, root, key).tree.nodes
<1> DEFINE v == Last(Descent(t, root, key))
<1> DEFINE n == v[1]
<1> DEFINE rest == Rest(key, v[2])
<1>1. v \in Visits(t, key) /\ ~Onward(t, key, v)
  BY DescentEnds
<1>2. AppendKey(t, root, key) = AppendRest(t, n, rest)
  BY DEF AppendKey, AppendFrom
<1> HIDE DEF v
<1>3. n \in DOMAIN t.nodes /\ rest \in Seq(Bits)
  <2>1. v[1] \in DOMAIN t.nodes /\ v[2] \in 0 .. Len(key)
    BY <1>1 DEF Visits
  <2> QED
    BY <2>1, RestForm
<1>4. rest # <<>> => (Child(t, n, Head(rest)) = 0 \/ ~IsPrefix(Edge(t, Child(t, n, Head(rest))), rest))
  BY <1>1 DEF Onward, Ahead
<1> HIDE DEF n, rest
<1>5. CASE rest = <<>>
  <2>1. AppendRest(t, n, rest) = Result(t, n)
    BY <1>5 DEF AppendRest
  <2> QED
    BY <1>2, <1>3, <2>1, ResultForm, OverItself
<1>6. CASE rest # <<>> /\ Child(t, n, Head(rest)) = 0
  <2>1. AppendRest(t, n, rest) = NewLeaf(t, n, rest)
    BY <1>6 DEF AppendRest, AppendTo
  <2> QED
    BY <1>2, <1>3, <1>6, <2>1, NewLeafOver
<1>7. CASE rest # <<>> /\ Child(t, n, Head(rest)) # 0
  <2> DEFINE c == Child(t, n, Head(rest))
  <2> DEFINE e == Edge(t, c)
  <2> DEFINE matched == Len(LongestCommonPrefix({rest, e}))
  <2>1. AppendRest(t, n, rest) = AppendBeside(t, n, c, matched, rest)
    BY <1>7 DEF AppendRest, AppendTo
  <2>2. Head(rest) \in Bits
    BY <1>3, <1>7
  <2>3. e \in Seq(Bits) /\ Len(e) > 0 /\ Head(e) = Head(rest)
    BY <1>3, <1>7, <2>2, ChildForm
  <2>4. e # <<>> /\ ~IsPrefix(e, rest)
    BY <1>4, <1>7, <2>3
  <2> HIDE DEF e
  <2>5. /\ matched \in Nat /\ matched > 0 /\ matched < Len(e) /\ matched <= Len(rest)
        /\ matched < Len(rest) => rest[matched + 1] # e[matched + 1]
    BY <1>3, <1>7, <2>3, <2>4, SharedBits
  <2> HIDE DEF matched
  <2>6. Cuttable(t, n, Head(rest), c, matched)
    BY <1>3, <1>7, <2>2, <2>5 DEF Cuttable, e
  <2> HIDE DEF c
  <2>7. /\ Over(t, AppendBeside(t, n, c, matched, rest).tree)
        /\ AppendBeside(t, n, c, matched, rest).at # 0 =>
             AppendBeside(t, n, c, matched, rest).at \in DOMAIN AppendBeside(t, n, c, matched, rest).tree.nodes
    BY <1>3, <1>7, <2>5, <2>6, AppendBesideOver DEF e
  <2> QED
    BY <1>2, <2>1, <2>7
<1> QED
  BY <1>5, <1>6, <1>7

(***************************************************************************)
(* An item put in front of those of its node.                               *)
(***************************************************************************)
Pushed(t, n) ==
  LET a == t.end
      prev == t.nodes[n].item IN
  [nodes |-> [k \in DOMAIN t.nodes |->
                [parent |-> t.nodes[k].parent, smaller |-> t.nodes[k].smaller, greater |-> t.nodes[k].greater,
                 item |-> IF k = n THEN a ELSE t.nodes[k].item,
                 earlier |-> t.nodes[k].earlier, cell |-> t.nodes[k].cell,
                 fore |-> t.nodes[k].fore, rear |-> t.nodes[k].rear]],
   items |-> [j \in DOMAIN t.items \cup {a} |->
                IF j = a
                THEN [node |-> n, prev |-> prev, next |-> 0, earlier |-> t.lastItem,
                      bytes |-> 0, owner |-> FALSE, permanent |-> FALSE]
                ELSE [node |-> t.items[j].node, prev |-> t.items[j].prev,
                      next |-> IF j = prev THEN a ELSE t.items[j].next,
                      earlier |-> t.items[j].earlier, bytes |-> t.items[j].bytes,
                      owner |-> t.items[j].owner, permanent |-> t.items[j].permanent]],
   keys |-> t.keys, end |-> a + 1, lastNode |-> t.lastNode, lastItem |-> a]

LEMMA PushItemForm ==
  ASSUME NEW t, Good(t), NEW n \in DOMAIN t.nodes
  PROVE  PushItem(t, n) = IF t.end + 1 > program.memory THEN Result(t, 0) ELSE Result(Pushed(t, n), t.end)
<1> DEFINE a == t.end
<1> DEFINE prev == t.nodes[n].item
<1> DEFINE item == [node |-> n, prev |-> prev, next |-> 0, earlier |-> t.lastItem,
                    bytes |-> 0, owner |-> FALSE, permanent |-> FALSE]
<1> DEFINE linked == IF prev = 0 THEN t.items ELSE [t.items EXCEPT ![prev].next = a]
<1> DEFINE full == [t EXCEPT !.items = Put(linked, a, item), !.nodes[n].item = a, !.end = a + 1, !.lastItem = a]
<1>0. Typed(t) /\ prev \in DOMAIN t.items \cup {0} /\ 0 \notin DOMAIN t.items /\ a \notin DOMAIN t.items
  <2>1. Linked(t) /\ Typed(t)
    BY DEF Good, Linked
  <2>2. NodeLinks(t, t.nodes[n])
    BY <2>1 DEF Linked
  <2>3. 0 \notin DOMAIN t.items /\ a \in Nat
    BY <2>1 DEF Typed
  <2>4. a \notin DOMAIN t.items
    BY <2>3 DEF Good
  <2> QED
    BY <2>1, <2>2, <2>3, <2>4 DEF NodeLinks
<1>1. PushItem(t, n) = IF a + 1 > program.memory THEN Result(t, 0) ELSE Result(full, a)
  BY DEF PushItem
<1>2. PICK N, I, K, e, l, i : t = [nodes |-> N, items |-> I, keys |-> K, end |-> e, lastNode |-> l, lastItem |-> i]
  BY <1>0 DEF Typed
<1> DEFINE J == Put(linked, a, item)
<1> DEFINE M == [N EXCEPT ![n].item = a]
<1> DEFINE first == [t EXCEPT !.items = J]
<1> DEFINE second == [first EXCEPT !.nodes[n].item = a]
<1> DEFINE third == [second EXCEPT !.end = a + 1]
<1>3. full = [third EXCEPT !.lastItem = a]
  OBVIOUS
<1>4. first = [nodes |-> N, items |-> J, keys |-> K, end |-> e, lastNode |-> l, lastItem |-> i]
  <2> HIDE DEF J
  <2> QED
    BY <1>2
<1>5. second = [nodes |-> M, items |-> J, keys |-> K, end |-> e, lastNode |-> l, lastItem |-> i]
  <2> HIDE DEF first, J, a
  <2> QED
    BY <1>4
<1>6. third = [nodes |-> M, items |-> J, keys |-> K, end |-> a + 1, lastNode |-> l, lastItem |-> i]
  <2> HIDE DEF second, J, a, M
  <2> QED
    BY <1>5
<1>7. full = [nodes |-> M, items |-> J, keys |-> K, end |-> a + 1, lastNode |-> l, lastItem |-> a]
  <2> HIDE DEF full, third, J, a, M
  <2> QED
    BY <1>3, <1>6
<1>8. M = Pushed(t, n).nodes
  <2>1. N \in [DOMAIN N -> Node] /\ N = t.nodes /\ n \in DOMAIN N
    BY <1>0, <1>2 DEF Typed
  <2> HIDE DEF a
  <2> QED
    BY <2>1 DEF Pushed, Node, a
<1>9. J = Pushed(t, n).items
  <2>1. t.items \in [DOMAIN t.items -> Item]
    BY <1>0 DEF Typed
  <2>2. linked = [j \in DOMAIN t.items |->
                     [node |-> t.items[j].node, prev |-> t.items[j].prev,
                      next |-> IF j = prev THEN a ELSE t.items[j].next,
                      earlier |-> t.items[j].earlier, bytes |-> t.items[j].bytes,
                      owner |-> t.items[j].owner, permanent |-> t.items[j].permanent]]
    <3> HIDE DEF prev, a
    <3>1. CASE prev = 0
      BY <1>0, <2>1, <3>1 DEF Item
    <3>2. CASE prev # 0
      BY <1>0, <2>1, <3>2 DEF Item
    <3> QED
      BY <3>1, <3>2
  <2> HIDE DEF linked
  <2>3. DOMAIN linked = DOMAIN t.items
    BY <2>2
  <2>4. Pushed(t, n).items = [j \in DOMAIN t.items \cup {a} |-> IF j = a THEN item ELSE
                     [node |-> t.items[j].node, prev |-> t.items[j].prev,
                      next |-> IF j = prev THEN a ELSE t.items[j].next,
                      earlier |-> t.items[j].earlier, bytes |-> t.items[j].bytes,
                      owner |-> t.items[j].owner, permanent |-> t.items[j].permanent]]
    BY DEF Pushed
  <2> HIDE DEF item, prev, a
  <2>5. \A j \in DOMAIN t.items \cup {a} : J[j] = Pushed(t, n).items[j]
    BY <2>2, <2>3, <2>4 DEF Put
  <2> QED
    BY <2>3, <2>4, <2>5 DEF Put
<1>10. Pushed(t, n) = [nodes |-> Pushed(t, n).nodes, items |-> Pushed(t, n).items, keys |-> K,
                       end |-> a + 1, lastNode |-> l, lastItem |-> a]
  BY <1>2 DEF Pushed
<1>11. full = Pushed(t, n)
  <2> HIDE DEF full, J, M, a
  <2> QED
    BY <1>7, <1>8, <1>9, <1>10
<1> QED
  BY <1>1, <1>11

(* The fields of the records of the new tree. *)
LEMMA PushedFields ==
  ASSUME NEW t, NEW n \in DOMAIN t.nodes
  PROVE  /\ DOMAIN Pushed(t, n).nodes = DOMAIN t.nodes /\ DOMAIN Pushed(t, n).items = DOMAIN t.items \cup {t.end}
         /\ Pushed(t, n).keys = t.keys /\ Pushed(t, n).end = t.end + 1
         /\ Pushed(t, n).lastNode = t.lastNode /\ Pushed(t, n).lastItem = t.end
         /\ Pushed(t, n).items[t.end] = [node |-> n, prev |-> t.nodes[n].item, next |-> 0, earlier |-> t.lastItem,
                                         bytes |-> 0, owner |-> FALSE, permanent |-> FALSE]
BY DEF Pushed

LEMMA PushedGood ==
  ASSUME NEW t, Good(t), NEW n \in DOMAIN t.nodes
  PROVE  Good(Pushed(t, n)) /\ Packed(Pushed(t, n))
<1> DEFINE u == Pushed(t, n)
<1> DEFINE a == t.end
<1> DEFINE prev == t.nodes[n].item
<1>1. Linked(t) /\ Typed(t)
  BY DEF Good, Linked
<1>2. /\ a \in Nat /\ a >= 2 /\ a \notin DOMAIN t.nodes /\ a \notin DOMAIN t.items
      /\ \A k \in DOMAIN t.nodes : k < a
      /\ \A k \in DOMAIN t.items : k < a
      /\ \A k \in DOMAIN t.keys : k < a
      /\ t.lastItem \in Nat /\ t.lastItem < a /\ t.lastItem \in DOMAIN t.items \cup {0}
      /\ prev \in DOMAIN t.items \cup {0} /\ prev \in Nat /\ prev < a
      /\ DOMAIN t.nodes \subseteq Nat \ {0} /\ DOMAIN t.items \subseteq Nat \ {0} /\ DOMAIN t.keys \subseteq Nat
  <2>1. NodeLinks(t, t.nodes[n])
    BY <1>1 DEF Linked
  <2>2. /\ a \in Nat /\ DOMAIN t.nodes \subseteq Nat \ {0} /\ DOMAIN t.items \subseteq Nat \ {0}
        /\ DOMAIN t.keys \subseteq Nat
    BY <1>1 DEF Typed
  <2>3. /\ a >= 2 /\ \A k \in DOMAIN t.nodes : k < a
        /\ \A k \in DOMAIN t.items : k < a
        /\ \A k \in DOMAIN t.keys : k < a
    BY DEF Good
  <2>4. t.lastItem \in DOMAIN t.items \cup {0} /\ prev \in DOMAIN t.items \cup {0}
    BY <1>1, <2>1 DEF Linked, NodeLinks
  <2> HIDE DEF a, prev
  <2> QED
    BY <2>2, <2>3, <2>4
<1>3. /\ DOMAIN u.nodes = DOMAIN t.nodes /\ DOMAIN u.items = DOMAIN t.items \cup {a}
      /\ u.keys = t.keys /\ u.end = a + 1 /\ u.lastNode = t.lastNode /\ u.lastItem = a
      /\ u.items[a] = [node |-> n, prev |-> prev, next |-> 0, earlier |-> t.lastItem,
                       bytes |-> 0, owner |-> FALSE, permanent |-> FALSE]
  BY PushedFields
<1>4. /\ u = [nodes |-> u.nodes, items |-> u.items, keys |-> u.keys,
              end |-> u.end, lastNode |-> u.lastNode, lastItem |-> u.lastItem]
      /\ u.nodes \in [DOMAIN u.nodes -> {u.nodes[k] : k \in DOMAIN u.nodes}]
      /\ u.items \in [DOMAIN u.items -> {u.items[k] : k \in DOMAIN u.items}]
  BY DEF Pushed
<1> HIDE DEF u, a, prev
<1>5. ASSUME NEW k \in DOMAIN t.nodes
      PROVE  /\ u.nodes[k] \in Node
             /\ u.nodes[k].parent = t.nodes[k].parent /\ u.nodes[k].smaller = t.nodes[k].smaller
             /\ u.nodes[k].greater = t.nodes[k].greater /\ u.nodes[k].item = IF k = n THEN a ELSE t.nodes[k].item
             /\ u.nodes[k].earlier = t.nodes[k].earlier /\ u.nodes[k].cell = t.nodes[k].cell
             /\ u.nodes[k].fore = t.nodes[k].fore /\ u.nodes[k].rear = t.nodes[k].rear
             /\ t.nodes[k] \in Node /\ NodeLinks(t, t.nodes[k]) /\ NodeGood(t, k)
  <2>1. u.nodes[k] = [parent |-> t.nodes[k].parent, smaller |-> t.nodes[k].smaller, greater |-> t.nodes[k].greater,
                 item |-> IF k = n THEN a ELSE t.nodes[k].item,
                 earlier |-> t.nodes[k].earlier, cell |-> t.nodes[k].cell,
                 fore |-> t.nodes[k].fore, rear |-> t.nodes[k].rear]
    BY DEF Pushed, u, a
  <2>2. t.nodes[k] \in Node /\ NodeLinks(t, t.nodes[k]) /\ NodeGood(t, k)
    BY <1>1 DEF Typed, Linked, Good
  <2>3. u.nodes[k] \in Node
    BY <1>2, <2>1, <2>2 DEF Node
  <2> QED
    BY <2>1, <2>2, <2>3
<1>6. ASSUME NEW j \in DOMAIN t.items
      PROVE  /\ j # a /\ u.items[j] \in Item
             /\ u.items[j].node = t.items[j].node /\ u.items[j].prev = t.items[j].prev
             /\ u.items[j].next = (IF j = prev THEN a ELSE t.items[j].next)
             /\ u.items[j].earlier = t.items[j].earlier /\ u.items[j].bytes = t.items[j].bytes
             /\ u.items[j].owner = t.items[j].owner
             /\ ItemLinks(t, t.items[j]) /\ ItemGood(t, j)
  <2>1. u.items[j] = [node |-> t.items[j].node, prev |-> t.items[j].prev,
                 next |-> IF j = prev THEN a ELSE t.items[j].next,
                 earlier |-> t.items[j].earlier, bytes |-> t.items[j].bytes,
                 owner |-> t.items[j].owner, permanent |-> t.items[j].permanent]
    BY <1>2 DEF Pushed, u, a, prev
  <2>2. t.items[j] \in Item /\ ItemLinks(t, t.items[j]) /\ ItemGood(t, j)
    BY <1>1 DEF Typed, Linked, Good
  <2>3. u.items[j] \in Item
    BY <1>2, <2>1, <2>2 DEF Item
  <2> QED
    BY <1>2, <2>1, <2>2, <2>3
<1>7. Typed(u)
  <2>1. u.items[a] \in Item
    BY <1>2, <1>3 DEF Item
  <2>2. u.nodes \in [DOMAIN u.nodes -> Node] /\ u.items \in [DOMAIN u.items -> Item]
    BY <1>3, <1>4, <1>5, <1>6, <2>1
  <2>3. DOMAIN u.nodes \subseteq Nat \ {0} /\ DOMAIN u.items \subseteq Nat \ {0} /\ u.end \in Nat
    BY <1>2, <1>3
  <2>4. DOMAIN u.keys \subseteq Nat /\ u.keys \in [DOMAIN u.keys -> Seq(Bits)]
    BY <1>1, <1>3 DEF Typed
  <2> QED
    BY <1>4, <2>2, <2>3, <2>4 DEF Typed
<1>8. ASSUME NEW k \in DOMAIN u.nodes PROVE NodeLinks(u, u.nodes[k])
  <2>1. k \in DOMAIN t.nodes /\ NodeLinks(t, t.nodes[k])
    BY <1>3, <1>5
  <2> QED
    BY <1>3, <1>5, <2>1 DEF NodeLinks
<1>9. ASSUME NEW j \in DOMAIN u.items PROVE ItemLinks(u, u.items[j])
  <2>1. CASE j = a
    BY <1>2, <1>3, <2>1 DEF ItemLinks
  <2>2. CASE j # a
    <3>1. j \in DOMAIN t.items /\ ItemLinks(t, t.items[j])
      BY <1>3, <1>6, <2>2
    <3> QED
      BY <1>3, <1>6, <3>1 DEF ItemLinks
  <2> QED
    BY <2>1, <2>2
<1>10. Linked(u)
  <2>1. u.lastNode \in DOMAIN u.nodes \cup {0} /\ u.lastItem \in DOMAIN u.items \cup {0}
    BY <1>1, <1>3 DEF Linked
  <2> QED
    BY <1>7, <1>8, <1>9, <2>1 DEF Linked
<1>11. ASSUME NEW k \in DOMAIN u.nodes PROVE NodeGood(u, k)
  <2>1. k \in DOMAIN t.nodes
    BY <1>3
  <2> DEFINE x == t.nodes[k]
  <2> DEFINE y == u.nodes[k]
  <2>2. NodeGood(t, k) /\ NodeLinks(t, x)
    BY <1>5, <2>1
  <2>3. ASSUME NEW c \in DOMAIN t.nodes \cup {0}, NEW bit, ChildGood(t, k, c, bit) PROVE ChildGood(u, k, c, bit)
    <3>1. CASE c = 0
      BY <3>1 DEF ChildGood
    <3>2. CASE c # 0
      <4>1. c \in DOMAIN t.nodes
        BY <3>2
      <4>2. /\ u.nodes[c].parent = t.nodes[c].parent /\ u.nodes[c].fore = t.nodes[c].fore
            /\ u.nodes[c].rear = t.nodes[c].rear /\ u.nodes[c].cell = t.nodes[c].cell /\ u.keys = t.keys
        BY <1>3, <1>5, <4>1
      <4> QED
        BY <2>3, <4>2 DEF ChildGood
    <3> QED
      BY <3>1, <3>2
  <2>4. ChildGood(u, k, y.smaller, 0) /\ ChildGood(u, k, y.greater, 1)
    <3>1. ChildGood(t, k, x.smaller, 0) /\ ChildGood(t, k, x.greater, 1)
      BY <2>2 DEF NodeGood
    <3>2. x.smaller \in DOMAIN t.nodes \cup {0} /\ x.greater \in DOMAIN t.nodes \cup {0}
      BY <2>2 DEF NodeLinks
    <3>3. y.smaller = x.smaller /\ y.greater = x.greater
      BY <1>5, <2>1
    <3> HIDE DEF x, y
    <3> QED
      BY <2>3, <3>1, <3>2, <3>3
  <2>5. y.item # 0 => u.items[y.item].node = k /\ u.items[y.item].next = 0
    <3>1. CASE k = n
      <4>1. y.item = a
        BY <1>5, <2>1, <3>1
      <4>2. u.items[a].node = n /\ u.items[a].next = 0
        BY <1>3
      <4> HIDE DEF y
      <4> QED
        BY <3>1, <4>1, <4>2
    <3>2. CASE k # n
      <4>1. y.item = x.item
        BY <1>5, <2>1, <3>2
      <4>2. x.item # 0 => x.item \in DOMAIN t.items /\ t.items[x.item].node = k /\ t.items[x.item].next = 0
        BY <2>2 DEF NodeGood, NodeLinks
      <4>3. prev # 0 => t.items[prev].node = n
        <5>1. NodeGood(t, n)
          BY <1>5
        <5> QED
          BY <5>1 DEF NodeGood, prev
      <4>4. x.item # 0 => x.item # prev
        BY <3>2, <4>2, <4>3
      <4> HIDE DEF x, y
      <4>5. x.item # 0 => u.items[x.item].node = t.items[x.item].node /\ u.items[x.item].next = t.items[x.item].next
        BY <1>6, <4>2, <4>4
      <4> QED
        BY <4>1, <4>2, <4>5
    <3> QED
      BY <3>1, <3>2
  <2>6. y.earlier < k /\ y.fore <= y.rear /\ y.rear <= Len(u.keys[y.cell])
    <3>1. y.earlier = x.earlier /\ y.fore = x.fore /\ y.rear = x.rear /\ y.cell = x.cell /\ u.keys = t.keys
      BY <1>3, <1>5, <2>1
    <3> QED
      BY <2>2, <3>1 DEF NodeGood
  <2> QED
    BY <2>4, <2>5, <2>6 DEF NodeGood
<1>12. ASSUME NEW j \in DOMAIN u.items PROVE ItemGood(u, j)
  <2>1. CASE j = a
    <3>1. u.items[j].prev = prev /\ u.items[j].earlier = t.lastItem /\ u.items[j].bytes = 0 /\ u.items[j].owner = FALSE
      BY <1>3, <2>1
    <3>2. \A b \in Nat : ~(j < b /\ b <= j + 0)
      BY <1>2, <2>1
    <3> QED
      BY <1>2, <2>1, <3>1, <3>2 DEF ItemGood
  <2>2. CASE j # a
    <3>1. j \in DOMAIN t.items /\ ItemGood(t, j)
      BY <1>3, <1>6, <2>2
    <3>2. /\ u.items[j].prev < j /\ u.items[j].earlier < j
          /\ u.items[j].owner => j + 1 \in DOMAIN u.nodes
      BY <1>3, <1>6, <3>1 DEF ItemGood
    <3>3. ASSUME NEW b \in Nat, j < b, b <= j + u.items[j].bytes
          PROVE  b < u.end /\ b \notin DOMAIN u.items /\ b \notin DOMAIN u.keys /\ (b \in DOMAIN u.nodes => u.items[j].owner /\ b = j + 1)
      <4>1. u.items[j].bytes = t.items[j].bytes /\ u.items[j].owner = t.items[j].owner
        BY <1>6, <3>1
      <4>2. b < a /\ b \notin DOMAIN t.items /\ b \notin DOMAIN t.keys /\ (b \in DOMAIN t.nodes => t.items[j].owner /\ b = j + 1)
        BY <3>1, <3>3, <4>1 DEF ItemGood, a
      <4> QED
        BY <1>2, <1>3, <4>1, <4>2
    <3> QED
      BY <3>2, <3>3 DEF ItemGood
  <2> QED
    BY <2>1, <2>2
<1>13. /\ u.end >= 2 /\ Root \in DOMAIN u.nodes /\ 0 \in DOMAIN u.keys
       /\ \A k \in DOMAIN u.nodes : k < u.end
       /\ \A k \in DOMAIN u.items : k < u.end
       /\ \A k \in DOMAIN u.keys : k < u.end
  <2>1. Root \in DOMAIN t.nodes /\ 0 \in DOMAIN t.keys
    BY DEF Good
  <2> QED
    BY <1>2, <1>3, <2>1
<1>14. Good(u)
  BY <1>10, <1>11, <1>12, <1>13 DEF Good
<1>15. Packed(u)
  BY <1>2, <1>3 DEF Packed
<1> QED
  BY <1>14, <1>15 DEF u

LEMMA PushedUndone ==
  ASSUME NEW t, Good(t), NEW n \in DOMAIN t.nodes, NEW m \in 1 .. t.end
  PROVE  Restore(Pushed(t, n), m) = Restore(t, m)
<1> DEFINE u == Pushed(t, n)
<1> DEFINE a == t.end
<1> DEFINE prev == t.nodes[n].item
<1>1. Good(u) /\ Linked(u) /\ Linked(t) /\ Typed(t)
  BY PushedGood DEF Good, Linked
<1>2. /\ a \in Nat /\ a >= 2 /\ u.end = a + 1 /\ u.lastItem = a /\ u.lastNode = t.lastNode /\ t.lastNode # a
      /\ DOMAIN u.nodes = DOMAIN t.nodes /\ DOMAIN u.items = DOMAIN t.items \cup {a} /\ u.keys = t.keys
      /\ u.items[a] = [node |-> n, prev |-> prev, next |-> 0, earlier |-> t.lastItem,
                       bytes |-> 0, owner |-> FALSE, permanent |-> FALSE]
  <2>1. a \in Nat /\ a >= 2
    BY <1>1 DEF Good, Typed
  <2>2. t.lastNode # a
    BY <1>1, <2>1 DEF Good, Typed, Linked
  <2> QED
    BY <2>1, <2>2, PushedFields
<1>3. Undone(u, a) = ItemDropped(u, a)
  <2>1. u.end # 0 /\ a \in 1 .. u.end - 1 /\ a \in Nat \ {0} /\ a + 1 = u.end
    BY <1>2
  <2> HIDE DEF u
  <2>2. Undone(u, a) = UnlinkNode(UnlinkItem(u, a), a)
    BY <1>1, <2>1, UndoneStep
  <2>3. UnlinkItem(u, a) = ItemDropped(u, a)
    BY <1>1, <1>2, <2>1, UnlinkItemForm
  <2>4. ItemDropped(u, a).lastNode # a
    BY <1>2 DEF ItemDropped
  <2> QED
    BY <2>2, <2>3, <2>4 DEF UnlinkNode
<1>4. u.items[a].node = n /\ u.items[a].prev = prev /\ u.items[a].earlier = t.lastItem
  <2> HIDE DEF u, prev
  <2> QED
    BY <1>2
<1>5. ASSUME NEW k \in DOMAIN t.nodes PROVE ItemDropped(u, a).nodes[k] = t.nodes[k]
  <2>1. t.nodes[k] \in Node
    BY <1>1 DEF Typed
  <2>2. u.nodes[k] = [parent |-> t.nodes[k].parent, smaller |-> t.nodes[k].smaller, greater |-> t.nodes[k].greater,
                 item |-> IF k = n THEN a ELSE t.nodes[k].item,
                 earlier |-> t.nodes[k].earlier, cell |-> t.nodes[k].cell,
                 fore |-> t.nodes[k].fore, rear |-> t.nodes[k].rear]
    BY DEF Pushed
  <2> DEFINE y == ItemDropped(u, a).nodes[k]
  <2>3. y = [parent |-> u.nodes[k].parent, smaller |-> u.nodes[k].smaller, greater |-> u.nodes[k].greater,
                 item |-> IF k = n THEN prev ELSE u.nodes[k].item,
                 earlier |-> u.nodes[k].earlier, cell |-> u.nodes[k].cell,
                 fore |-> u.nodes[k].fore, rear |-> u.nodes[k].rear]
    <3> HIDE DEF u, prev
    <3> QED
      BY <1>2, <1>4 DEF ItemDropped
  <2> HIDE DEF u, y
  <2>4. y = [parent |-> t.nodes[k].parent, smaller |-> t.nodes[k].smaller, greater |-> t.nodes[k].greater,
             item |-> t.nodes[k].item, earlier |-> t.nodes[k].earlier, cell |-> t.nodes[k].cell,
             fore |-> t.nodes[k].fore, rear |-> t.nodes[k].rear]
    BY <2>2, <2>3
  <2>5. y = t.nodes[k]
    BY <2>1, <2>4 DEF Node
  <2> QED
    BY <2>5 DEF y
<1>6. ASSUME NEW j \in DOMAIN t.items PROVE ItemDropped(u, a).items[j] = t.items[j]
  <2>1. t.items[j] \in Item /\ j # 0 /\ j # a
    BY <1>1 DEF Typed, Good
  <2>2. u.items[j] = [node |-> t.items[j].node, prev |-> t.items[j].prev,
                 next |-> IF j = prev THEN a ELSE t.items[j].next,
                 earlier |-> t.items[j].earlier, bytes |-> t.items[j].bytes,
                 owner |-> t.items[j].owner, permanent |-> t.items[j].permanent]
    BY <2>1 DEF Pushed
  <2>3. j = prev => t.items[j].next = 0
    <3>1. NodeGood(t, n)
      BY DEF Good
    <3> QED
      BY <2>1, <3>1 DEF NodeGood
  <2> DEFINE y == ItemDropped(u, a).items[j]
  <2>4. y = [node |-> u.items[j].node, prev |-> u.items[j].prev,
                 next |-> IF j = prev THEN 0 ELSE u.items[j].next,
                 earlier |-> u.items[j].earlier, bytes |-> u.items[j].bytes,
                 owner |-> u.items[j].owner, permanent |-> u.items[j].permanent]
    <3> HIDE DEF u, prev
    <3> QED
      BY <1>2, <1>4 DEF ItemDropped
  <2> HIDE DEF u, y, prev
  <2>5. y = [node |-> t.items[j].node, prev |-> t.items[j].prev, next |-> t.items[j].next,
             earlier |-> t.items[j].earlier, bytes |-> t.items[j].bytes,
             owner |-> t.items[j].owner, permanent |-> t.items[j].permanent]
    BY <2>2, <2>3, <2>4
  <2>6. y = t.items[j]
    BY <2>1, <2>5 DEF Item
  <2> QED
    BY <2>6 DEF y
<1>7. Alike(ItemDropped(u, a), t, m)
  <2> DEFINE d == ItemDropped(u, a)
  <2> HIDE DEF u
  <2>1. /\ DOMAIN d.nodes = DOMAIN t.nodes /\ DOMAIN d.items = DOMAIN t.items \cup {a} /\ d.keys = t.keys
        /\ d.lastNode = t.lastNode /\ d.lastItem = t.lastItem
    BY <1>2, <1>4 DEF ItemDropped
  <2>2. a >= m
    BY <1>2
  <2>3. (\A k \in DOMAIN t.nodes : d.nodes[k] = t.nodes[k]) /\ (\A j \in DOMAIN t.items : d.items[j] = t.items[j])
    BY <1>5, <1>6
  <2> HIDE DEF d, a
  <2>4. Alike(d, t, m)
    BY <2>1, <2>2, <2>3 DEF Alike
  <2> QED
    BY <2>4 DEF d
<1> HIDE DEF u
<1> QED
  BY <1>1, <1>2, <1>3, <1>7, RestoreAgrees DEF u

(***************************************************************************)
(* Trees that tell of the same items, but for the content of one of them    *)
(* and the roots of dictionaries inside it.                                 *)
(***************************************************************************)
Retold(t, u, i) ==
  /\ u = [nodes |-> u.nodes, items |-> u.items, keys |-> u.keys,
          end |-> u.end, lastNode |-> u.lastNode, lastItem |-> u.lastItem]
  /\ u.nodes \in [DOMAIN u.nodes -> {u.nodes[k] : k \in DOMAIN u.nodes}]
  /\ u.items \in [DOMAIN u.items -> {u.items[k] : k \in DOMAIN u.items}]
  /\ DOMAIN t.nodes \subseteq DOMAIN u.nodes
  /\ \A k \in DOMAIN t.nodes : u.nodes[k] = t.nodes[k]
  /\ \A k \in DOMAIN u.nodes \ DOMAIN t.nodes : k \in Nat /\ k > i /\ k < u.end /\ u.nodes[k] = Embedded
  /\ DOMAIN u.items = DOMAIN t.items
  /\ \A j \in DOMAIN t.items :
       /\ u.items[j] \in Item
       /\ u.items[j].node = t.items[j].node /\ u.items[j].prev = t.items[j].prev
       /\ u.items[j].next = t.items[j].next /\ u.items[j].earlier = t.items[j].earlier
       /\ j # i => u.items[j] = t.items[j]
  /\ u.keys = t.keys /\ u.lastNode = t.lastNode /\ u.lastItem = t.lastItem
  /\ u.end \in {t.end, t.end + 1}

LEMMA RetoldGood ==
  ASSUME NEW t, Good(t), NEW i \in DOMAIN t.items, NEW u, Retold(t, u, i), \A j \in DOMAIN u.items : ItemGood(u, j)
  PROVE  Good(u)
<1>1. Linked(t) /\ Typed(t) /\ i \in Nat \ {0}
  BY DEF Good, Linked, Typed
<1>2. /\ DOMAIN t.nodes \subseteq DOMAIN u.nodes /\ DOMAIN u.items = DOMAIN t.items
      /\ u.keys = t.keys /\ u.lastNode = t.lastNode /\ u.lastItem = t.lastItem
      /\ t.end \in Nat /\ u.end \in Nat /\ t.end <= u.end /\ t.end >= 2
  BY <1>1 DEF Retold, Good, Typed
<1>3. ASSUME NEW k \in DOMAIN t.nodes PROVE u.nodes[k] = t.nodes[k]
  BY DEF Retold
<1>4. ASSUME NEW k \in DOMAIN u.nodes, k \notin DOMAIN t.nodes
      PROVE  /\ k \in Nat /\ k > i /\ k < u.end
             /\ u.nodes[k] = [parent |-> 0, smaller |-> 0, greater |-> 0, item |-> 0,
                              earlier |-> 0, cell |-> 0, fore |-> 0, rear |-> 0]
  BY <1>4 DEF Retold, Embedded
<1>5. Typed(u)
  <2>1. ASSUME NEW k \in DOMAIN u.nodes PROVE u.nodes[k] \in Node /\ k \in Nat \ {0}
    <3>1. CASE k \in DOMAIN t.nodes
      BY <1>1, <1>3, <3>1 DEF Typed
    <3>2. CASE k \notin DOMAIN t.nodes
      BY <1>1, <1>4, <3>2 DEF Node
    <3> QED
      BY <3>1, <3>2
  <2>2. u.nodes \in [DOMAIN u.nodes -> Node] /\ DOMAIN u.nodes \subseteq Nat \ {0}
    BY <2>1 DEF Retold
  <2>3. u.items \in [DOMAIN u.items -> Item] /\ DOMAIN u.items \subseteq Nat \ {0}
    BY <1>1, <1>2 DEF Retold, Typed
  <2>4. DOMAIN u.keys \subseteq Nat /\ u.keys \in [DOMAIN u.keys -> Seq(Bits)]
    BY <1>1, <1>2 DEF Typed
  <2>5. u = [nodes |-> u.nodes, items |-> u.items, keys |-> u.keys,
             end |-> u.end, lastNode |-> u.lastNode, lastItem |-> u.lastItem]
    BY DEF Retold
  <2> QED
    BY <1>2, <2>2, <2>3, <2>4, <2>5 DEF Typed
<1>6. Root \in DOMAIN t.nodes /\ 0 \in DOMAIN t.keys
  BY DEF Good
<1>7. ASSUME NEW k \in DOMAIN u.nodes PROVE NodeLinks(u, u.nodes[k])
  <2>1. CASE k \in DOMAIN t.nodes
    <3>1. NodeLinks(t, t.nodes[k])
      BY <1>1, <2>1 DEF Linked
    <3> QED
      BY <1>2, <1>3, <2>1, <3>1 DEF NodeLinks
  <2>2. CASE k \notin DOMAIN t.nodes
    BY <1>2, <1>4, <1>6, <2>2 DEF NodeLinks
  <2> QED
    BY <2>1, <2>2
<1>8. ASSUME NEW j \in DOMAIN u.items PROVE ItemLinks(u, u.items[j])
  <2>1. ItemLinks(t, t.items[j]) /\ j \in DOMAIN t.items
    BY <1>1, <1>2 DEF Linked
  <2>2. /\ u.items[j].node = t.items[j].node /\ u.items[j].prev = t.items[j].prev
        /\ u.items[j].next = t.items[j].next /\ u.items[j].earlier = t.items[j].earlier
    BY <2>1 DEF Retold
  <2> QED
    BY <1>2, <2>1, <2>2 DEF ItemLinks
<1>9. Linked(u)
  <2>1. u.lastNode \in DOMAIN u.nodes \cup {0} /\ u.lastItem \in DOMAIN u.items \cup {0}
    BY <1>1, <1>2 DEF Linked
  <2> QED
    BY <1>5, <1>7, <1>8, <2>1 DEF Linked
<1>10. ASSUME NEW k \in DOMAIN u.nodes PROVE NodeGood(u, k)
  <2>1. CASE k \in DOMAIN t.nodes
    <3> DEFINE x == t.nodes[k]
    <3>1. u.nodes[k] = x /\ NodeGood(t, k) /\ NodeLinks(t, x)
      BY <1>1, <1>3, <2>1 DEF Good, Linked
    <3>2. ASSUME NEW c \in DOMAIN t.nodes \cup {0}, NEW bit, ChildGood(t, k, c, bit) PROVE ChildGood(u, k, c, bit)
      <4>1. CASE c = 0
        BY <4>1 DEF ChildGood
      <4>2. CASE c # 0
        <5>1. u.nodes[c] = t.nodes[c] /\ u.keys = t.keys
          BY <1>2, <1>3, <4>2
        <5> QED
          BY <3>2, <5>1 DEF ChildGood
      <4> QED
        BY <4>1, <4>2
    <3>3. ChildGood(u, k, x.smaller, 0) /\ ChildGood(u, k, x.greater, 1)
      BY <3>1, <3>2 DEF NodeGood, NodeLinks
    <3>4. x.item # 0 => u.items[x.item].node = t.items[x.item].node /\ u.items[x.item].next = t.items[x.item].next
      BY <3>1 DEF NodeLinks, Retold
    <3> HIDE DEF x
    <3> QED
      BY <1>2, <3>1, <3>3, <3>4 DEF NodeGood, x
  <2>2. CASE k \notin DOMAIN t.nodes
    <3>1. /\ k > 0 /\ u.nodes[k].earlier = 0 /\ u.nodes[k].fore = 0 /\ u.nodes[k].rear = 0 /\ u.nodes[k].cell = 0
          /\ u.nodes[k].smaller = 0 /\ u.nodes[k].greater = 0 /\ u.nodes[k].item = 0
      BY <1>1, <1>4, <2>2
    <3>2. Len(u.keys[0]) >= 0
      <4>1. u.keys[0] \in Seq(Bits)
        BY <1>1, <1>2, <1>6 DEF Typed
      <4> QED
        BY <4>1
    <3> QED
      BY <3>1, <3>2 DEF NodeGood, ChildGood
  <2> QED
    BY <2>1, <2>2
<1>11. /\ u.end >= 2 /\ Root \in DOMAIN u.nodes /\ 0 \in DOMAIN u.keys
       /\ \A k \in DOMAIN u.nodes : k < u.end
       /\ \A k \in DOMAIN u.items : k < u.end
       /\ \A k \in DOMAIN u.keys : k < u.end
  <2>1. DOMAIN t.nodes \subseteq Nat /\ DOMAIN t.items \subseteq Nat /\ DOMAIN t.keys \subseteq Nat
    BY <1>1 DEF Typed
  <2>2. /\ \A k \in DOMAIN t.nodes : k < t.end
        /\ \A k \in DOMAIN t.items : k < t.end
        /\ \A k \in DOMAIN t.keys : k < t.end
    BY DEF Good
  <2>3. \A k \in DOMAIN u.nodes : k < u.end
    BY <1>2, <1>4, <2>1, <2>2
  <2>4. /\ \A k \in DOMAIN u.items : k < u.end
        /\ \A k \in DOMAIN u.keys : k < u.end
    BY <1>2, <2>1, <2>2
  <2> QED
    BY <1>2, <1>6, <2>3, <2>4
<1> QED
  BY <1>9, <1>10, <1>11 DEF Good

LEMMA RetoldUndone ==
  ASSUME NEW t, Good(t), NEW i \in DOMAIN t.items, NEW u, Retold(t, u, i), Good(u), NEW m \in 1 .. i
  PROVE  Restore(u, m) = Restore(t, m)
<1>1. Linked(t) /\ Linked(u) /\ Typed(t) /\ Typed(u)
  BY DEF Good, Linked
<1>2. /\ t.end \in Nat /\ t.end >= 2 /\ u.end \in Nat /\ i \in Nat /\ i < t.end
      /\ t.lastItem # t.end /\ t.lastNode # t.end
  <2>1. t.end \in Nat /\ t.end >= 2 /\ u.end \in Nat /\ i \in Nat /\ i < t.end
    BY <1>1 DEF Typed, Good
  <2>2. t.lastItem \in DOMAIN t.items \cup {0} /\ t.lastNode \in DOMAIN t.nodes \cup {0}
    BY <1>1 DEF Linked
  <2>3. t.end \notin DOMAIN t.items \cup {0} /\ t.end \notin DOMAIN t.nodes \cup {0}
    BY <1>1, <2>1 DEF Typed, Good
  <2> QED
    BY <2>1, <2>2, <2>3
<1>3. u.end \in {t.end, t.end + 1} /\ u.lastItem = t.lastItem /\ u.lastNode = t.lastNode
  BY DEF Retold
<1>4. Undone(u, t.end) = u
  <2>1. CASE u.end = t.end
    <3>1. u.end # 0
      BY <1>2, <2>1
    <3> QED
      BY <1>1, <2>1, <3>1, UndoneStep
  <2>2. CASE u.end = t.end + 1
    <3>1. u.end # 0 /\ t.end \in 1 .. u.end - 1
      BY <1>2, <2>2
    <3>2. Undone(u, t.end) = UnlinkNode(UnlinkItem(Undone(u, u.end), t.end), t.end) /\ Undone(u, u.end) = u
      BY <1>1, <2>2, <3>1, UndoneStep
    <3> QED
      BY <1>2, <1>3, <3>2, UnlinkNothing
  <2> QED
    BY <1>3, <2>1, <2>2
<1>5. Alike(u, t, m)
  <2>1. /\ DOMAIN t.nodes \subseteq DOMAIN u.nodes /\ DOMAIN u.items = DOMAIN t.items /\ u.keys = t.keys
        /\ u.lastItem = t.lastItem /\ u.lastNode = t.lastNode
        /\ \A n \in DOMAIN t.nodes : u.nodes[n] = t.nodes[n]
    BY DEF Retold
  <2>2. \A a \in DOMAIN u.nodes \ DOMAIN t.nodes : a >= m
    BY <1>2 DEF Retold
  <2>3. ASSUME NEW j \in DOMAIN t.items
        PROVE  /\ u.items[j].node = t.items[j].node /\ u.items[j].prev = t.items[j].prev
               /\ u.items[j].earlier = t.items[j].earlier
               /\ j < m => u.items[j] = t.items[j]
    <3>1. j < m => j # i
      BY <1>2
    <3> QED
      BY <3>1 DEF Retold
  <2> QED
    BY <2>1, <2>2, <2>3 DEF Alike
<1>6. m \in 1 .. t.end /\ t.end <= u.end /\ t.end # 0
  BY <1>2, <1>3
<1> QED
  BY <1>1, <1>4, <1>5, <1>6, RestoreAgrees

(* One more cell of content. *)
Extended(t, i) ==
  [nodes |-> t.nodes, items |-> [t.items EXCEPT ![i].bytes = @ + 1], keys |-> t.keys,
   end |-> t.end + 1, lastNode |-> t.lastNode, lastItem |-> t.lastItem]

LEMMA AllocateContentForm ==
  ASSUME NEW t, Typed(t), NEW i
  PROVE  AllocateContent(t, i) =
           IF t.lastItem # i \/ t.end + 1 > program.memory THEN Result(t, 0) ELSE Result(Extended(t, i), t.end)
<1>1. PICK N, I, K, e, l, p : t = [nodes |-> N, items |-> I, keys |-> K, end |-> e, lastNode |-> l, lastItem |-> p]
  BY DEF Typed
<1> DEFINE full == [t EXCEPT !.items[i].bytes = @ + 1, !.end = @ + 1]
<1> DEFINE J == [I EXCEPT ![i].bytes = @ + 1]
<1> DEFINE first == [t EXCEPT !.items = J]
<1>2. full = [first EXCEPT !.end = e + 1]
  BY <1>1
<1>3. first = [nodes |-> N, items |-> J, keys |-> K, end |-> e, lastNode |-> l, lastItem |-> p]
  <2> HIDE DEF J
  <2> QED
    BY <1>1
<1>4. full = [nodes |-> N, items |-> J, keys |-> K, end |-> e + 1, lastNode |-> l, lastItem |-> p]
  <2> HIDE DEF full, first, J
  <2> QED
    BY <1>2, <1>3
<1>5. full = Extended(t, i)
  <2> HIDE DEF full
  <2> QED
    BY <1>1, <1>4 DEF Extended
<1> QED
  BY <1>5 DEF AllocateContent

LEMMA ExtendedGood ==
  ASSUME NEW t, Good(t), Packed(t), NEW i \in DOMAIN t.items, t.lastItem = i
  PROVE  /\ Retold(t, Extended(t, i), i) /\ Good(Extended(t, i)) /\ Packed(Extended(t, i))
         /\ Extended(t, i).items[i].bytes = t.items[i].bytes + 1
         /\ Extended(t, i).items[i].owner = t.items[i].owner
<1> DEFINE u == Extended(t, i)
<1>1. Typed(t) /\ t.end \in Nat /\ i \in Nat /\ i # 0 /\ t.items[i].bytes \in Nat
  <2>1. Typed(t)
    BY DEF Good, Linked
  <2>2. t.items[i] \in Item
    BY <2>1 DEF Typed
  <2> QED
    BY <2>1, <2>2 DEF Typed, Item
<1>2. /\ u.nodes = t.nodes /\ DOMAIN u.items = DOMAIN t.items /\ u.keys = t.keys /\ u.end = t.end + 1
      /\ u.lastNode = t.lastNode /\ u.lastItem = t.lastItem
      /\ u = [nodes |-> u.nodes, items |-> u.items, keys |-> u.keys,
              end |-> u.end, lastNode |-> u.lastNode, lastItem |-> u.lastItem]
      /\ u.items \in [DOMAIN u.items -> {u.items[j] : j \in DOMAIN u.items}]
  BY DEF Extended
<1>3. ASSUME NEW j \in DOMAIN t.items
      PROVE  u.items[j] = IF j = i THEN [t.items[i] EXCEPT !.bytes = @ + 1] ELSE t.items[j]
  BY DEF Extended
<1> HIDE DEF u
<1>4. ASSUME NEW j \in DOMAIN t.items
      PROVE  /\ u.items[j] \in Item
             /\ u.items[j].node = t.items[j].node /\ u.items[j].prev = t.items[j].prev
             /\ u.items[j].next = t.items[j].next /\ u.items[j].earlier = t.items[j].earlier
             /\ u.items[j].owner = t.items[j].owner
             /\ u.items[j].bytes = (IF j = i THEN t.items[i].bytes + 1 ELSE t.items[j].bytes)
             /\ j # i => u.items[j] = t.items[j]
  <2>1. t.items[j] \in Item /\ t.items[i] \in Item
    BY <1>1 DEF Typed
  <2>2. CASE j = i
    BY <1>3, <2>1, <2>2 DEF Item
  <2>3. CASE j # i
    BY <1>3, <2>1, <2>3 DEF Item
  <2> QED
    BY <2>2, <2>3
<1>5. Retold(t, u, i)
  <2>1. t.nodes \in [DOMAIN t.nodes -> {t.nodes[k] : k \in DOMAIN t.nodes}]
    BY <1>1 DEF Typed
  <2> QED
    BY <1>2, <1>4, <2>1 DEF Retold
<1>6. t.end = i + t.items[i].bytes + 1
  BY <1>1 DEF Packed
<1>7. ASSUME NEW j \in DOMAIN u.items PROVE ItemGood(u, j)
  <2>1. j \in DOMAIN t.items /\ ItemGood(t, j)
    BY <1>2 DEF Good
  <2>2. /\ u.items[j].prev < j /\ u.items[j].earlier < j
        /\ u.items[j].owner => j + 1 \in DOMAIN u.nodes
    BY <1>2, <1>4, <2>1 DEF ItemGood
  <2>3. ASSUME NEW b \in Nat, j < b, b <= j + u.items[j].bytes
        PROVE  b < u.end /\ b \notin DOMAIN u.items /\ b \notin DOMAIN u.keys /\ (b \in DOMAIN u.nodes => u.items[j].owner /\ b = j + 1)
    <3>1. CASE b <= j + t.items[j].bytes
      <4>1. b < t.end /\ b \notin DOMAIN t.items /\ b \notin DOMAIN t.keys /\ (b \in DOMAIN t.nodes => t.items[j].owner /\ b = j + 1)
        BY <2>1, <2>3, <3>1 DEF ItemGood
      <4>2. b < u.end
        BY <1>1, <1>2, <4>1
      <4> QED
        BY <1>2, <1>4, <2>1, <4>1, <4>2
    <3>2. CASE ~(b <= j + t.items[j].bytes)
      <4>1. j = i /\ u.items[j].bytes = t.items[i].bytes + 1
        BY <1>4, <2>1, <2>3, <3>2
      <4>2. b = t.end
        BY <1>1, <1>6, <2>3, <3>2, <4>1
      <4>3. b \notin DOMAIN t.items /\ b \notin DOMAIN t.keys /\ b \notin DOMAIN t.nodes
        BY <1>1, <4>2 DEF Good
      <4> QED
        BY <1>1, <1>2, <4>2, <4>3
    <3> QED
      BY <3>1, <3>2
  <2> QED
    BY <2>2, <2>3 DEF ItemGood
<1>8. Good(u)
  BY <1>5, <1>7, RetoldGood
<1>9. Packed(u)
  <2>1. u.items[i].bytes = t.items[i].bytes + 1
    BY <1>4
  <2>2. u.end = i + u.items[i].bytes + 1 /\ u.lastItem = i
    BY <1>1, <1>2, <1>6, <2>1
  <2> QED
    BY <2>2 DEF Packed
<1> QED
  BY <1>4, <1>5, <1>8, <1>9 DEF u

(* The metadata of a phrase. *)
Described(t, i, kind) ==
  [nodes |-> IF kind.owner THEN Put(t.nodes, i + 1, Embedded) ELSE t.nodes,
   items |-> [t.items EXCEPT ![i] = [node |-> @.node, prev |-> @.prev, next |-> @.next, earlier |-> @.earlier,
                                     bytes |-> @.bytes, owner |-> kind.owner, permanent |-> kind.permanent]],
   keys |-> t.keys, end |-> t.end, lastNode |-> t.lastNode, lastItem |-> t.lastItem]

LEMMA SaveMetadataForm ==
  ASSUME NEW pushed, NEW saved, NEW kind, Typed(saved.tree), pushed.at \in DOMAIN saved.tree.items
  PROVE  SaveMetadata(pushed, saved, kind) =
           IF pushed.at = 0 \/ saved.at = 0 THEN Result(pushed.tree, 0)
           ELSE Result(Described(saved.tree, pushed.at, kind), pushed.at)
<1> DEFINE t == saved.tree
<1> DEFINE i == pushed.at
<1>1. PICK N, I, K, e, l, p : t = [nodes |-> N, items |-> I, keys |-> K, end |-> e, lastNode |-> l, lastItem |-> p]
  BY DEF Typed
<1> DEFINE full == [t EXCEPT !.items[i].owner = kind.owner, !.items[i].permanent = kind.permanent,
                             !.nodes = IF kind.owner THEN Put(@, i + 1, Embedded) ELSE @]
<1> DEFINE J == [I EXCEPT ![i].owner = kind.owner]
<1> DEFINE L == [J EXCEPT ![i].permanent = kind.permanent]
<1> DEFINE M == IF kind.owner THEN Put(N, i + 1, Embedded) ELSE N
<1> DEFINE first == [t EXCEPT !.items[i].owner = kind.owner]
<1> DEFINE second == [first EXCEPT !.items[i].permanent = kind.permanent]
<1>2. first = [nodes |-> N, items |-> J, keys |-> K, end |-> e, lastNode |-> l, lastItem |-> p]
  <2> HIDE DEF t, i
  <2> QED
    BY <1>1
<1>3. second = [nodes |-> N, items |-> L, keys |-> K, end |-> e, lastNode |-> l, lastItem |-> p]
  <2> HIDE DEF first, J
  <2> QED
    BY <1>2
<1>4. full = [second EXCEPT !.nodes = M]
  <2>1. full = [second EXCEPT !.nodes = IF kind.owner THEN Put(@, i + 1, Embedded) ELSE @]
    <3> HIDE DEF t, i
    <3> QED
      OBVIOUS
  <2>2. second.nodes = N
    <3> HIDE DEF second, L
    <3> QED
      BY <1>3
  <2> HIDE DEF second, full
  <2> QED
    BY <2>1, <2>2
<1>5. full = [nodes |-> M, items |-> L, keys |-> K, end |-> e, lastNode |-> l, lastItem |-> p]
  <2> HIDE DEF full, second, L, M
  <2> QED
    BY <1>3, <1>4
<1>6. L = Described(t, i, kind).items
  <2>1. I = t.items /\ I \in [DOMAIN I -> Item] /\ i \in DOMAIN I
    BY <1>1 DEF Typed
  <2>2. Described(t, i, kind).items =
          [I EXCEPT ![i] = [node |-> @.node, prev |-> @.prev, next |-> @.next, earlier |-> @.earlier,
                            bytes |-> @.bytes, owner |-> kind.owner, permanent |-> kind.permanent]]
    BY <2>1 DEF Described
  <2> HIDE DEF i, t
  <2> QED
    BY <2>1, <2>2 DEF Item
<1>7. Described(t, i, kind) = [nodes |-> M, items |-> Described(t, i, kind).items, keys |-> K,
                               end |-> e, lastNode |-> l, lastItem |-> p]
  <2> HIDE DEF i, t
  <2> QED
    BY <1>1 DEF Described
<1>8. full = Described(t, i, kind)
  <2> HIDE DEF full, L, M
  <2> QED
    BY <1>5, <1>6, <1>7
<1> QED
  BY <1>8 DEF SaveMetadata

LEMMA DescribedGood ==
  ASSUME NEW t, Good(t), Packed(t), NEW i \in DOMAIN t.items, t.items[i].bytes >= 1, t.items[i].owner = FALSE,
         NEW kind \in [owner : BOOLEAN, permanent : BOOLEAN]
  PROVE  Retold(t, Described(t, i, kind), i) /\ Good(Described(t, i, kind)) /\ Packed(Described(t, i, kind))
<1> DEFINE u == Described(t, i, kind)
<1>1. Linked(t) /\ Typed(t) /\ t.end \in Nat /\ i \in Nat /\ i # 0 /\ t.items[i].bytes \in Nat
  <2>1. Linked(t) /\ Typed(t)
    BY DEF Good, Linked
  <2>2. t.items[i] \in Item
    BY <2>1 DEF Typed
  <2> QED
    BY <2>1, <2>2 DEF Typed, Item
<1>2. i + 1 < t.end /\ i + 1 \notin DOMAIN t.items /\ i + 1 \notin DOMAIN t.keys /\ i + 1 \notin DOMAIN t.nodes
  <2>1. ItemGood(t, i)
    BY DEF Good
  <2>2. i + 1 \in Nat /\ i < i + 1 /\ i + 1 <= i + t.items[i].bytes
    BY <1>1
  <2> QED
    BY <2>1, <2>2 DEF ItemGood
<1>3. /\ DOMAIN u.items = DOMAIN t.items /\ u.keys = t.keys /\ u.end = t.end
      /\ u.lastNode = t.lastNode /\ u.lastItem = t.lastItem
      /\ u = [nodes |-> u.nodes, items |-> u.items, keys |-> u.keys,
              end |-> u.end, lastNode |-> u.lastNode, lastItem |-> u.lastItem]
      /\ u.items \in [DOMAIN u.items -> {u.items[j] : j \in DOMAIN u.items}]
      /\ u.nodes = IF kind.owner THEN Put(t.nodes, i + 1, Embedded) ELSE t.nodes
  BY DEF Described
<1>4. ASSUME NEW j \in DOMAIN t.items
      PROVE  u.items[j] = IF j = i THEN [node |-> t.items[i].node, prev |-> t.items[i].prev, next |-> t.items[i].next,
                                         earlier |-> t.items[i].earlier, bytes |-> t.items[i].bytes,
                                         owner |-> kind.owner, permanent |-> kind.permanent]
                          ELSE t.items[j]
  BY DEF Described
<1> HIDE DEF u
<1>5. ASSUME NEW j \in DOMAIN t.items
      PROVE  /\ u.items[j] \in Item
             /\ u.items[j].node = t.items[j].node /\ u.items[j].prev = t.items[j].prev
             /\ u.items[j].next = t.items[j].next /\ u.items[j].earlier = t.items[j].earlier
             /\ u.items[j].bytes = t.items[j].bytes
             /\ u.items[j].owner = (IF j = i THEN kind.owner ELSE t.items[j].owner)
             /\ j # i => u.items[j] = t.items[j]
  <2>1. t.items[j] \in Item /\ t.items[i] \in Item
    BY <1>1 DEF Typed
  <2>2. CASE j = i
    BY <1>4, <2>1, <2>2 DEF Item
  <2>3. CASE j # i
    BY <1>4, <2>1, <2>3 DEF Item
  <2> QED
    BY <2>2, <2>3
<1>6. /\ DOMAIN u.nodes = IF kind.owner THEN DOMAIN t.nodes \cup {i + 1} ELSE DOMAIN t.nodes
      /\ u.nodes \in [DOMAIN u.nodes -> {u.nodes[k] : k \in DOMAIN u.nodes}]
      /\ \A k \in DOMAIN t.nodes : u.nodes[k] = t.nodes[k]
      /\ kind.owner => u.nodes[i + 1] = Embedded
  <2>1. CASE kind.owner
    BY <1>2, <1>3, <2>1 DEF Put
  <2>2. CASE ~kind.owner
    <3>1. t.nodes \in [DOMAIN t.nodes -> {t.nodes[k] : k \in DOMAIN t.nodes}]
      BY <1>1 DEF Typed
    <3> QED
      BY <1>3, <2>2, <3>1
  <2> QED
    BY <2>1, <2>2
<1>7. Retold(t, u, i)
  <2>1. \A k \in DOMAIN u.nodes \ DOMAIN t.nodes : k \in Nat /\ k > i /\ k < u.end /\ u.nodes[k] = Embedded
    BY <1>1, <1>2, <1>3, <1>6
  <2>2. DOMAIN t.nodes \subseteq DOMAIN u.nodes
    BY <1>6
  <2> QED
    BY <1>3, <1>5, <1>6, <2>1, <2>2 DEF Retold
<1>8. ASSUME NEW j \in DOMAIN u.items PROVE ItemGood(u, j)
  <2>1. j \in DOMAIN t.items /\ ItemGood(t, j) /\ j \in Nat
    BY <1>1, <1>3 DEF Good, Typed
  <2>2. u.items[j].prev < j /\ u.items[j].earlier < j
    BY <1>5, <2>1 DEF ItemGood
  <2>3. u.items[j].owner => j + 1 \in DOMAIN u.nodes
    BY <1>5, <1>6, <2>1 DEF ItemGood
  <2>4. ASSUME NEW b \in Nat, j < b, b <= j + u.items[j].bytes
        PROVE  b < u.end /\ b \notin DOMAIN u.items /\ b \notin DOMAIN u.keys /\ (b \in DOMAIN u.nodes => u.items[j].owner /\ b = j + 1)
    <3>1. b < t.end /\ b \notin DOMAIN t.items /\ b \notin DOMAIN t.keys /\ (b \in DOMAIN t.nodes => t.items[j].owner /\ b = j + 1)
      BY <1>5, <2>1, <2>4 DEF ItemGood
    <3>2. ASSUME b \in DOMAIN u.nodes PROVE u.items[j].owner /\ b = j + 1
      <4>1. CASE b \in DOMAIN t.nodes
        BY <1>5, <2>1, <3>1, <4>1
      <4>2. CASE b \notin DOMAIN t.nodes
        <5>1. kind.owner /\ b = i + 1
          BY <1>6, <3>2, <4>2
        <5>2. j <= i
          BY <1>1, <2>1, <2>4, <5>1
        <5>3. j = i
          <6>1. ASSUME j < i PROVE FALSE
            <7>1. i <= j + t.items[j].bytes
              <8>1. t.items[j].bytes \in Nat
                <9>1. t.items[j] \in Item
                  BY <1>1, <2>1 DEF Typed
                <9> QED
                  BY <9>1 DEF Item
              <8>2. i + 1 <= j + t.items[j].bytes
                BY <1>5, <2>1, <2>4, <5>1
              <8> QED
                BY <1>1, <2>1, <8>1, <8>2
            <7> QED
              BY <1>1, <2>1, <6>1, <7>1 DEF ItemGood
          <6> QED
            BY <1>1, <2>1, <5>2, <6>1
        <5> QED
          BY <1>5, <2>1, <5>1, <5>3
      <4> QED
        BY <4>1, <4>2
    <3> QED
      BY <1>3, <3>1, <3>2
  <2> QED
    BY <2>2, <2>3, <2>4 DEF ItemGood
<1>9. Good(u)
  BY <1>7, <1>8, RetoldGood
<1>10. Packed(u)
  <2>1. t.lastItem # 0 => t.lastItem \in DOMAIN t.items
    BY <1>1 DEF Linked
  <2> QED
    BY <1>3, <1>5, <2>1 DEF Packed
<1> QED
  BY <1>7, <1>9, <1>10 DEF u

(* A phrase saved on a node. *)
LEMMA SavePhraseOver ==
  ASSUME program.memory \in Nat, NEW t, Good(t), NEW n \in DOMAIN t.nodes,
         NEW kind \in [owner : BOOLEAN, permanent : BOOLEAN]
  PROVE  /\ Over(t, SavePhrase(t, n, kind).tree)
         /\ SavePhrase(t, n, kind).at # 0 =>
              /\ Packed(SavePhrase(t, n, kind).tree)
              /\ SavePhrase(t, n, kind).tree.lastItem = t.end
<1> DEFINE pushed == PushItem(t, n)
<1> DEFINE p == pushed.tree
<1> DEFINE saved == AllocateContent(p, pushed.at)
<1> DEFINE s == saved.tree
<1> DEFINE result == SavePhrase(t, n, kind)
<1> DEFINE a == t.end
<1>1. result = SaveMetadata(pushed, saved, kind)
  BY DEF SavePhrase, SaveItem
<1>2. a \in Nat /\ a >= 2 /\ a \in 1 .. a
  <2>1. a \in Nat /\ a >= 2
    BY DEF Good, Linked, Typed
  <2> QED
    BY <2>1
<1>3. CASE a + 1 > program.memory
  <2>1. pushed.at = 0 /\ p = t
    BY <1>3, PushItemForm, ResultForm
  <2>2. result.tree = t /\ result.at = 0
    BY <1>1, <2>1, ResultForm DEF SaveMetadata
  <2> QED
    BY <2>2, OverItself
<1>4. CASE ~(a + 1 > program.memory)
  <2>1. pushed.at = a /\ p = Pushed(t, n)
    BY <1>4, PushItemForm, ResultForm
  <2>2. Good(p) /\ Packed(p) /\ \A m \in 1 .. a : Restore(p, m) = Restore(t, m)
    BY <2>1, PushedGood, PushedUndone
  <2>3. /\ p.end = a + 1 /\ p.lastItem = a /\ a \in DOMAIN p.items
        /\ p.items[a] = [node |-> n, prev |-> t.nodes[n].item, next |-> 0, earlier |-> t.lastItem,
                         bytes |-> 0, owner |-> FALSE, permanent |-> FALSE]
    BY <2>1, PushedFields
  <2> HIDE DEF pushed
  <2>4. p.items[a].bytes = 0 /\ p.items[a].owner = FALSE
    BY <2>3
  <2>5. p.end <= program.memory /\ a <= p.end
    BY <1>2, <1>4, <2>3
  <2>6. Over(t, p)
    BY <2>2, <2>5 DEF Over
  <2>7. Typed(p)
    BY <2>2 DEF Good, Linked
  <2>8. saved = IF p.end + 1 > program.memory THEN Result(p, 0) ELSE Result(Extended(p, a), p.end)
    BY <2>1, <2>3, <2>7, AllocateContentForm
  <2>9. CASE p.end + 1 > program.memory
    <3>1. saved.at = 0
      BY <2>8, <2>9, ResultForm
    <3>2. result.tree = p /\ result.at = 0
      BY <1>1, <3>1, ResultForm DEF SaveMetadata
    <3> QED
      BY <2>6, <3>2
  <2>10. CASE ~(p.end + 1 > program.memory)
    <3>1. saved.at = p.end /\ s = Extended(p, a)
      BY <2>8, <2>10, ResultForm
    <3>2. Retold(p, s, a) /\ Good(s) /\ Packed(s) /\ s.items[a].bytes = p.items[a].bytes + 1 /\ s.items[a].owner = p.items[a].owner
      <4> HIDE DEF s, p, a
      <4>1. /\ Retold(p, Extended(p, a), a) /\ Good(Extended(p, a)) /\ Packed(Extended(p, a))
            /\ Extended(p, a).items[a].bytes = p.items[a].bytes + 1 /\ Extended(p, a).items[a].owner = p.items[a].owner
        BY <2>2, <2>3, ExtendedGood
      <4> QED
        BY <3>1, <4>1
    <3>3. s.items[a].bytes >= 1 /\ s.items[a].owner = FALSE
      BY <2>4, <3>2
    <3>4. s.end = a + 2 /\ s.lastItem = a /\ a \in DOMAIN s.items
      BY <1>2, <2>3, <3>1 DEF Extended
    <3>5. Typed(s)
      BY <3>2 DEF Good, Linked
    <3> HIDE DEF saved
    <3> DEFINE w == Described(s, a, kind)
    <3>6. result.tree = w /\ result.at = a
      <4>1. saved.at # 0 /\ pushed.at # 0
        BY <1>2, <2>1, <2>3, <3>1
      <4> HIDE DEF w
      <4> QED
        BY <1>1, <2>1, <3>4, <3>5, <4>1, SaveMetadataForm, ResultForm DEF w
    <3>7. Retold(s, w, a) /\ Good(w) /\ Packed(w)
      BY <3>2, <3>3, <3>4, DescribedGood
    <3>8. w.end = a + 2 /\ w.lastItem = a
      BY <3>4 DEF Described
    <3> HIDE DEF w, s
    <3>9. \A m \in 1 .. a : Restore(w, m) = Restore(t, m)
      <4> TAKE m \in 1 .. a
      <4>1. Restore(w, m) = Restore(s, m)
        BY <3>2, <3>4, <3>7, RetoldUndone
      <4>2. Restore(s, m) = Restore(p, m)
        BY <2>2, <2>3, <3>2, RetoldUndone
      <4> QED
        BY <2>2, <4>1, <4>2
    <3>10. w.end <= program.memory /\ a <= w.end
      BY <1>2, <2>3, <2>10, <3>8
    <3>11. Over(t, w)
      BY <3>7, <3>9, <3>10 DEF Over
    <3> QED
      <4> HIDE DEF result, a
      <4>1. Over(t, result.tree) /\ Packed(result.tree) /\ result.tree.lastItem = a
        BY <3>6, <3>7, <3>8, <3>11
      <4> QED
        BY <4>1 DEF result, a
  <2> QED
    BY <2>9, <2>10
<1> QED
  BY <1>3, <1>4

(* An attempted definition, whether it succeeds or fails. *)
LEMMA AttemptOver ==
  ASSUME program.memory \in Nat, NEW t, Good(t), NEW d \in Dictionaries(t), NEW k \in Seq(Bits),
         NEW kind \in [owner : BOOLEAN, permanent : BOOLEAN]
  PROVE  /\ Over(t, Attempt(t, d, k, kind).tree)
         /\ Attempt(t, d, k, kind).at # 0 =>
              /\ Packed(Attempt(t, d, k, kind).tree)
              /\ Attempt(t, d, k, kind).tree.lastItem >= t.end
<1> DEFINE node == AppendKey(t, d, k)
<1> DEFINE result == Attempt(t, d, k, kind)
<1>1. result = IF node.at = 0 \/ ~MayDefine(node.tree, node.at) THEN Result(node.tree, 0)
               ELSE SavePhrase(node.tree, node.at, kind)
  BY DEF Attempt, AttemptAt
<1>2. d \in DOMAIN t.nodes
  BY DEF Dictionaries, Good, ItemGood
<1>3. Over(t, node.tree) /\ (node.at # 0 => node.at \in DOMAIN node.tree.nodes)
  BY <1>2, AppendKeyOver
<1> HIDE DEF node, result
<1>4. CASE node.at = 0 \/ ~MayDefine(node.tree, node.at)
  <2>1. result.tree = node.tree /\ result.at = 0
    BY <1>1, <1>4, ResultForm
  <2> QED
    BY <1>3, <2>1 DEF result
<1>5. CASE ~(node.at = 0 \/ ~MayDefine(node.tree, node.at))
  <2>1. result = SavePhrase(node.tree, node.at, kind) /\ node.at \in DOMAIN node.tree.nodes
    BY <1>1, <1>3, <1>5
  <2>2. Good(node.tree) /\ t.end <= node.tree.end
    BY <1>3 DEF Over
  <2>3. /\ Over(node.tree, result.tree)
        /\ result.at # 0 => Packed(result.tree) /\ result.tree.lastItem = node.tree.end
    BY <2>1, <2>2, SavePhraseOver
  <2> QED
    BY <1>3, <2>2, <2>3, OverOver DEF result
<1> QED
  BY <1>4, <1>5

(***************************************************************************)
(* Restores that follow one another.                                        *)
(***************************************************************************)
LEMMA RestoreWhole ==
  ASSUME NEW t, Good(t)
  PROVE  Restore(t, t.end) = t
<1>1. Linked(t) /\ Typed(t) /\ t.end # 0 /\ t.end \in 1 .. t.end
  BY DEF Good, Linked, Typed
<1>2. Restore(t, t.end) = Cut(t, t.end)
  BY <1>1, UndoneStep, RestoreForm
<1>3. Below(t.nodes, t.end) = t.nodes
  <2>1. {b \in DOMAIN t.nodes : b < t.end} = DOMAIN t.nodes
    BY DEF Good
  <2> QED
    BY <1>1, <2>1 DEF Below, Typed
<1>4. Below(t.items, t.end) = t.items
  <2>1. {b \in DOMAIN t.items : b < t.end} = DOMAIN t.items
    BY DEF Good
  <2> QED
    BY <1>1, <2>1 DEF Below, Typed
<1>5. Below(t.keys, t.end) = t.keys
  <2>1. {b \in DOMAIN t.keys : b < t.end} = DOMAIN t.keys
    BY DEF Good
  <2> QED
    BY <1>1, <2>1 DEF Below, Typed
<1> QED
  BY <1>1, <1>2, <1>3, <1>4, <1>5 DEF Cut, Typed

LEMMA RestoreRestore ==
  ASSUME NEW t, Good(t), NEW e \in 1 .. t.end, Good(Restore(t, e)), NEW m \in 1 .. e
  PROVE  Restore(t, e).end = e /\ Restore(Restore(t, e), m) = Restore(t, m)
<1> DEFINE v == Restore(t, e)
<1> DEFINE x == Undone(t, e)
<1>1. v = Cut(x, e)
  BY RestoreForm DEF Good
<1>2. Linked(t) /\ Linked(v) /\ t.end \in Nat /\ e \in Nat /\ m \in Nat
  <2>1. Linked(v)
    BY DEF Good
  <2> HIDE DEF v
  <2>2. Linked(t) /\ t.end \in Nat
    BY DEF Good, Linked, Typed
  <2> QED
    BY <2>1, <2>2
<1>3. Linked(x)
  <2>1. t.end # 0
    BY <1>2
  <2> QED
    BY <1>2, <2>1, UndoneStep
<1>4. v.end = e
  BY <1>1 DEF Cut
<1>5. Alike(x, v, m)
  <2>1. /\ v.lastItem = x.lastItem /\ v.lastNode = x.lastNode
        /\ v.nodes = Below(x.nodes, e) /\ v.items = Below(x.items, e) /\ v.keys = Below(x.keys, e)
    BY <1>1 DEF Cut
  <2>2. DOMAIN x.nodes \subseteq Nat /\ DOMAIN x.items \subseteq Nat /\ DOMAIN x.keys \subseteq Nat
    BY <1>3 DEF Linked, Typed
  <2>3. /\ DOMAIN v.nodes \subseteq DOMAIN x.nodes /\ \A a \in DOMAIN x.nodes \ DOMAIN v.nodes : a >= m
        /\ \A a \in DOMAIN v.nodes : x.nodes[a] = v.nodes[a]
    BY <1>2, <2>1, <2>2 DEF Below
  <2>4. /\ DOMAIN v.items \subseteq DOMAIN x.items /\ \A a \in DOMAIN x.items \ DOMAIN v.items : a >= m
        /\ \A a \in DOMAIN v.items : x.items[a] = v.items[a]
    BY <1>2, <2>1, <2>2 DEF Below
  <2>5. /\ DOMAIN v.keys \subseteq DOMAIN x.keys /\ \A a \in DOMAIN x.keys \ DOMAIN v.keys : a >= m
        /\ \A a \in DOMAIN v.keys : x.keys[a] = v.keys[a]
    BY <1>2, <2>1, <2>2 DEF Below
  <2> HIDE DEF v, x
  <2> QED
    BY <2>1, <2>3, <2>4, <2>5 DEF Alike
<1> HIDE DEF v
<1>6. v.end # 0 /\ v.end <= t.end /\ m \in 1 .. v.end
  BY <1>2, <1>4
<1>7. Restore(t, m) = Restore(v, m)
  BY <1>2, <1>4, <1>5, <1>6, RestoreAgrees
<1> QED
  BY <1>4, <1>7 DEF v

(***************************************************************************)
(* The invariant.                                                           *)
(***************************************************************************)
LEMMA ProgramForm ==
  ASSUME program \in Programs
  PROVE  /\ program.memory \in Nat /\ program.memory >= 2
         /\ \A k \in program.keys : k \in Seq(Bits)
         /\ \A kind \in program.kinds : kind \in [owner : BOOLEAN, permanent : BOOLEAN]
BY ProgramsAssumption

LEMMA InitSound ==
  ASSUME Init
  PROVE  IInv
<1>1. program \in Programs /\ marks = <<>>
  BY DEF Init
<1>2. /\ tree = [nodes |-> tree.nodes, items |-> tree.items, keys |-> tree.keys,
                 end |-> tree.end, lastNode |-> tree.lastNode, lastItem |-> tree.lastItem]
      /\ tree.nodes = [n \in {1} |-> [parent |-> 0, smaller |-> 0, greater |-> 0, item |-> 0,
                                      earlier |-> 0, cell |-> 0, fore |-> 0, rear |-> 0]]
      /\ tree.items = <<>> /\ tree.keys = [c \in {0} |-> <<>>]
      /\ tree.end = 2 /\ tree.lastNode = 1 /\ tree.lastItem = 0
  BY DEF Init, Root, Embedded
<1>3. DOMAIN tree.nodes = {1} /\ DOMAIN tree.items = {} /\ DOMAIN tree.keys = {0} /\ tree.keys[0] = <<>>
  BY <1>2
<1>4. /\ tree.nodes[1].parent = 0 /\ tree.nodes[1].smaller = 0 /\ tree.nodes[1].greater = 0
      /\ tree.nodes[1].item = 0 /\ tree.nodes[1].earlier = 0 /\ tree.nodes[1].cell = 0
      /\ tree.nodes[1].fore = 0 /\ tree.nodes[1].rear = 0 /\ tree.nodes[1] \in Node
  BY <1>2 DEF Node
<1>5. Typed(tree)
  <2>1. tree.nodes \in [{1} -> Node]
    BY <1>2, <1>4
  <2>2. tree.keys \in [{0} -> Seq(Bits)]
    <3>1. <<>> \in Seq(Bits)
      OBVIOUS
    <3> QED
      BY <1>2, <3>1
  <2>3. tree.items \in [{} -> Item]
    <3>1. tree.items = [j \in {} |-> tree.items[j]]
      BY <1>2
    <3> QED
      BY <3>1
  <2> QED
    BY <1>2, <1>3, <2>1, <2>2, <2>3 DEF Typed
<1>6. Linked(tree)
  BY <1>2, <1>3, <1>4, <1>5 DEF Linked, NodeLinks
<1>7. NodeGood(tree, 1)
  BY <1>3, <1>4 DEF NodeGood, ChildGood
<1>8. Sound(tree)
  BY <1>2, <1>3, <1>6, <1>7 DEF Sound, Good, Packed, Root
<1> QED
  BY <1>1, <1>2, <1>8, ProgramForm DEF IInv

(* What is done on top of the tree while the same scopes are open.          *)
LEMMA SameScopes ==
  ASSUME IInv, program' = program, marks' = marks, Good(tree'), Packed(tree'),
         tree.end <= tree'.end, tree'.end <= program.memory,
         \A i \in DOMAIN marks : Restore(tree', marks[i]) = Restore(tree, marks[i]),
         marks # <<>> => tree'.lastItem >= marks[Len(marks)]
  PROVE  IInv'
<1>1. tree.end \in Nat /\ tree'.end \in Nat
  BY DEF IInv, Sound, Good, Linked, Typed
<1>2. \A i \in DOMAIN marks : 2 <= marks[i] /\ marks[i] <= tree'.end
  BY <1>1 DEF IInv
<1> QED
  BY <1>2 DEF IInv, Sound

LEMMA LastMark ==
  ASSUME IInv, marks # <<>>
  PROVE  /\ Len(marks) \in DOMAIN marks /\ marks[Len(marks)] \in Nat
         /\ \A i \in DOMAIN marks : marks[i] \in Nat /\ marks[i] <= marks[Len(marks)]
<1>1. marks \in Seq(Nat) /\ Len(marks) \in Nat /\ Len(marks) \in DOMAIN marks
  BY DEF IInv
<1>2. ASSUME NEW i \in DOMAIN marks PROVE marks[i] \in Nat /\ marks[i] <= marks[Len(marks)]
  <2>1. marks[i] \in Nat /\ i \in 1 .. Len(marks)
    BY <1>1
  <2>2. CASE i = Len(marks)
    BY <2>1, <2>2
  <2>3. CASE i # Len(marks)
    <3>1. i < Len(marks)
      BY <1>1, <2>1, <2>3
    <3> QED
      BY <1>1, <2>1, <3>1 DEF IInv
  <2> QED
    BY <2>2, <2>3
<1> QED
  BY <1>1, <1>2

LEMMA DefinePhraseSound ==
  ASSUME IInv, NEW d \in Dictionaries(tree), NEW k \in program.keys, NEW kind \in program.kinds, DefinePhrase(d, k, kind)
  PROVE  IInv' /\ \A i \in DOMAIN marks : Restore(tree', marks[i]) = Restore(tree, marks[i])
<1> DEFINE made == Attempt(tree, d, k, kind)
<1>1. /\ program.memory \in Nat /\ k \in Seq(Bits) /\ kind \in [owner : BOOLEAN, permanent : BOOLEAN]
      /\ Good(tree) /\ Packed(tree) /\ tree.end <= program.memory /\ tree.end \in Nat
  <2>1. program \in Programs /\ Good(tree) /\ Packed(tree) /\ tree.end <= program.memory
    BY DEF IInv, Sound
  <2> QED
    BY <2>1, ProgramForm DEF Good, Linked, Typed
<1>2. /\ Over(tree, made.tree)
      /\ made.at # 0 => Packed(made.tree) /\ made.tree.lastItem >= tree.end
  BY <1>1, AttemptOver
<1>3. /\ tree' = IF made.at # 0 THEN made.tree ELSE Restore(made.tree, tree.end)
      /\ program' = program /\ marks' = marks
  BY DEF DefinePhrase
<1> HIDE DEF made
<1>4. ASSUME NEW i \in DOMAIN marks PROVE marks[i] \in 1 .. tree.end
  <2>1. marks[i] \in Nat /\ 2 <= marks[i] /\ marks[i] <= tree.end
    BY DEF IInv
  <2> QED
    BY <1>1, <2>1
<1>5. CASE made.at = 0
  <2>1. tree.end \in 1 .. tree.end
    BY <1>1 DEF Good
  <2>2. Restore(made.tree, tree.end) = Restore(tree, tree.end)
    BY <1>2, <2>1 DEF Over
  <2>3. tree' = tree
    BY <1>1, <1>3, <1>5, <2>2, RestoreWhole
  <2>4. Good(tree') /\ Packed(tree') /\ tree.end <= tree'.end /\ tree'.end <= program.memory
    BY <1>1, <2>3
  <2>5. marks # <<>> => tree'.lastItem >= marks[Len(marks)]
    BY <2>3 DEF IInv
  <2>6. \A i \in DOMAIN marks : Restore(tree', marks[i]) = Restore(tree, marks[i])
    BY <2>3
  <2> QED
    BY <1>3, <2>4, <2>5, <2>6, SameScopes
<1>6. CASE made.at # 0
  <2>1. tree' = made.tree
    BY <1>3, <1>6
  <2>2. Good(tree') /\ Packed(tree') /\ tree.end <= tree'.end /\ tree'.end <= program.memory
    BY <1>1, <1>2, <1>6, <2>1 DEF Over
  <2>3. \A i \in DOMAIN marks : Restore(tree', marks[i]) = Restore(tree, marks[i])
    BY <1>2, <1>4, <2>1 DEF Over
  <2>4. ASSUME marks # <<>> PROVE tree'.lastItem >= marks[Len(marks)]
    <3>1. marks[Len(marks)] \in 1 .. tree.end
      BY <1>4, <2>4, LastMark
    <3>2. tree'.lastItem \in Nat /\ tree'.lastItem >= tree.end
      <4>1. tree'.lastItem \in DOMAIN tree'.items \cup {0} /\ DOMAIN tree'.items \subseteq Nat
        BY <2>2 DEF Good, Linked, Typed
      <4> QED
        BY <1>2, <1>6, <2>1, <4>1
    <3> QED
      BY <1>1, <3>1, <3>2
  <2> QED
    BY <1>3, <2>2, <2>3, <2>4, SameScopes
<1> QED
  BY <1>5, <1>6

LEMMA ExtendPhraseSound ==
  ASSUME IInv, ExtendPhrase
  PROVE  IInv' /\ \A i \in DOMAIN marks : Restore(tree', marks[i]) = Restore(tree, marks[i])
<1> DEFINE last == tree.lastItem
<1>1. /\ program.memory \in Nat /\ Good(tree) /\ Packed(tree) /\ Typed(tree)
      /\ tree.end <= program.memory /\ tree.end \in Nat
  <2>1. program \in Programs /\ Good(tree) /\ Packed(tree) /\ tree.end <= program.memory
    BY DEF IInv, Sound
  <2> QED
    BY <2>1, ProgramForm DEF Good, Linked, Typed
<1>2. last # 0 /\ tree' = AllocateContent(tree, last).tree /\ program' = program /\ marks' = marks
  BY DEF ExtendPhrase
<1>3. last \in DOMAIN tree.items /\ last \in Nat
  BY <1>1, <1>2 DEF Good, Linked, Typed
<1>4. CASE tree.end + 1 > program.memory
  <2>1. tree' = tree
    BY <1>1, <1>2, <1>4, AllocateContentForm, ResultForm
  <2>2. Good(tree') /\ Packed(tree') /\ tree.end <= tree'.end /\ tree'.end <= program.memory
    BY <1>1, <2>1
  <2>3. marks # <<>> => tree'.lastItem >= marks[Len(marks)]
    BY <2>1 DEF IInv
  <2>4. \A i \in DOMAIN marks : Restore(tree', marks[i]) = Restore(tree, marks[i])
    BY <2>1
  <2> QED
    BY <1>2, <2>2, <2>3, <2>4, SameScopes
<1>5. CASE ~(tree.end + 1 > program.memory)
  <2>1. tree' = Extended(tree, last)
    BY <1>1, <1>2, <1>5, AllocateContentForm, ResultForm
  <2>2. Retold(tree, tree', last) /\ Good(tree') /\ Packed(tree')
    BY <1>1, <1>3, <2>1, ExtendedGood
  <2>3. tree'.end = tree.end + 1 /\ tree'.lastItem = last
    BY <2>1 DEF Extended
  <2> HIDE DEF last
  <2>4. ASSUME NEW i \in DOMAIN marks PROVE Restore(tree', marks[i]) = Restore(tree, marks[i])
    <3>1. marks # <<>>
      OBVIOUS
    <3>2. marks[i] \in Nat /\ marks[i] <= marks[Len(marks)] /\ marks[Len(marks)] \in Nat
      BY <3>1, LastMark
    <3>3. 2 <= marks[i] /\ marks[Len(marks)] <= last
      BY <3>1 DEF IInv, last
    <3>4. marks[i] \in 1 .. last
      BY <1>3, <3>2, <3>3
    <3> QED
      BY <1>1, <1>3, <2>2, <3>4, RetoldUndone
  <2>5. tree.end <= tree'.end /\ tree'.end <= program.memory
    BY <1>1, <1>5, <2>3
  <2>6. marks # <<>> => tree'.lastItem >= marks[Len(marks)]
    BY <2>3 DEF IInv, last
  <2> QED
    BY <1>2, <2>2, <2>4, <2>5, <2>6, SameScopes
<1> QED
  BY <1>4, <1>5

LEMMA MarksForm ==
  ASSUME IInv
  PROVE  /\ marks \in Seq(Nat) /\ Len(marks) \in Nat /\ DOMAIN marks = 1 .. Len(marks)
         /\ \A i \in DOMAIN marks : marks[i] \in Nat /\ marks[i] \in 1 .. tree.end
         /\ Good(tree) /\ tree.end \in Nat /\ tree.lastItem \in Nat
<1>1. marks \in Seq(Nat) /\ Good(tree)
  BY DEF IInv, Sound
<1>2. Len(marks) \in Nat /\ DOMAIN marks = 1 .. Len(marks) /\ \A i \in DOMAIN marks : marks[i] \in Nat
  BY <1>1
<1>3. tree.end \in Nat /\ tree.lastItem \in Nat
  BY <1>1 DEF Good, Linked, Typed
<1>4. \A i \in DOMAIN marks : marks[i] \in 1 .. tree.end
  BY <1>2, <1>3 DEF IInv
<1> QED
  BY <1>1, <1>2, <1>3, <1>4

LEMMA OpenScopeSound ==
  ASSUME IInv, NEW d \in Dictionaries(tree), NEW k \in program.keys, OpenScope(d, k)
  PROVE  /\ IInv'
         /\ \A i \in DOMAIN marks \cap DOMAIN marks' : Restore(tree', marks'[i]) = Restore(tree, marks[i])
<1> DEFINE made == Attempt(tree, d, k, Plain)
<1> DEFINE l == Len(marks)
<1>1. /\ program.memory \in Nat /\ k \in Seq(Bits) /\ Good(tree) /\ Sound(tree) /\ tree.end <= program.memory
      /\ program \in Programs
  <2>1. program \in Programs /\ Good(tree) /\ Sound(tree) /\ tree.end <= program.memory
    BY DEF IInv, Sound
  <2> QED
    BY <2>1, ProgramForm
<1>2. /\ Over(tree, made.tree)
      /\ made.at # 0 => Packed(made.tree) /\ made.tree.lastItem >= tree.end
  <2>1. Plain \in [owner : BOOLEAN, permanent : BOOLEAN]
    BY DEF Plain
  <2> QED
    BY <1>1, <2>1, AttemptOver
<1>3. made.at # 0 /\ tree' = made.tree /\ marks' = Append(marks, tree.end) /\ program' = program
  BY DEF OpenScope
<1> HIDE DEF made
<1>4. /\ Good(tree') /\ Packed(tree') /\ tree.end <= tree'.end /\ tree'.end <= program.memory
      /\ tree'.lastItem >= tree.end
      /\ \A m \in 1 .. tree.end : Restore(tree', m) = Restore(tree, m)
  BY <1>1, <1>2, <1>3 DEF Over
<1>5. /\ marks \in Seq(Nat) /\ l \in Nat /\ DOMAIN marks = 1 .. l /\ tree.end \in Nat
      /\ \A i \in DOMAIN marks : marks[i] \in Nat /\ marks[i] \in 1 .. tree.end
  BY MarksForm
<1>6. tree'.end \in Nat /\ tree.end >= 2 /\ tree.end \in 1 .. tree.end
  <2>1. tree'.end \in Nat
    BY <1>4 DEF Good, Linked, Typed
  <2>2. tree.end >= 2
    BY <1>1 DEF Good
  <2> QED
    BY <1>5, <2>1, <2>2
<1>7. /\ marks' \in Seq(Nat) /\ Len(marks') = l + 1 /\ DOMAIN marks' = 1 .. l + 1
      /\ marks'[l + 1] = tree.end /\ \A i \in 1 .. l : marks'[i] = marks[i]
  <2>1. marks' \in Seq(Nat) /\ Len(marks') = l + 1
    BY <1>3, <1>5
  <2> QED
    BY <1>3, <1>5, <2>1
<1> HIDE DEF l
<1>8. ASSUME NEW i \in DOMAIN marks'
      PROVE  \/ i \in 1 .. l /\ i \in DOMAIN marks /\ marks'[i] = marks[i]
             \/ i = l + 1 /\ marks'[i] = tree.end
  BY <1>5, <1>7
<1>9. Restore(tree', tree.end) = tree
  BY <1>1, <1>4, <1>6, RestoreWhole
<1>10. ASSUME NEW i \in DOMAIN marks PROVE Restore(tree', marks[i]) = Restore(tree, marks[i])
  BY <1>4, <1>5
<1>11. ASSUME NEW i \in DOMAIN marks'
       PROVE  2 <= marks'[i] /\ marks'[i] <= tree.end /\ marks'[i] <= tree'.end /\ Sound(Restore(tree', marks'[i]))
  <2>1. CASE i \in DOMAIN marks /\ marks'[i] = marks[i]
    <3>1. 2 <= marks[i] /\ marks[i] <= tree.end /\ Sound(Restore(tree, marks[i])) /\ marks[i] \in Nat
      BY <1>5, <2>1 DEF IInv
    <3>2. marks[i] <= tree'.end
      BY <1>4, <1>5, <1>6, <3>1
    <3> QED
      BY <1>10, <2>1, <3>1, <3>2
  <2>2. CASE marks'[i] = tree.end
    BY <1>1, <1>4, <1>5, <1>6, <1>9, <2>2
  <2> QED
    BY <1>8, <2>1, <2>2
<1>12. ASSUME NEW i \in DOMAIN marks', NEW j \in DOMAIN marks', i < j PROVE marks'[i] <= marks'[j]
  <2>1. i \in 1 .. l /\ i \in DOMAIN marks /\ marks'[i] = marks[i]
    BY <1>5, <1>7, <1>8, <1>12
  <2>2. CASE j \in 1 .. l /\ j \in DOMAIN marks /\ marks'[j] = marks[j]
    BY <1>12, <2>1, <2>2 DEF IInv
  <2>3. CASE j = l + 1 /\ marks'[j] = tree.end
    BY <1>11, <2>3
  <2> QED
    BY <1>8, <2>2, <2>3
<1>13. tree'.lastItem >= marks'[Len(marks')]
  BY <1>4, <1>7
<1>14. ASSUME NEW i \in DOMAIN marks', NEW j \in DOMAIN marks', i = j + 1
       PROVE  Restore(tree', marks'[i]).lastItem >= marks'[j]
  <2>1. j \in 1 .. l /\ j \in DOMAIN marks /\ marks'[j] = marks[j]
    BY <1>5, <1>7, <1>8, <1>14
  <2>2. CASE i \in 1 .. l /\ i \in DOMAIN marks /\ marks'[i] = marks[i]
    <3>1. Restore(tree, marks[i]).lastItem >= marks[j]
      BY <1>14, <2>1, <2>2 DEF IInv
    <3> QED
      BY <1>10, <2>1, <2>2, <3>1
  <2>3. CASE i = l + 1 /\ marks'[i] = tree.end
    <3>1. j = l
      BY <1>5, <1>14, <2>1, <2>3
    <3>2. marks # <<>>
      BY <2>1
    <3>3. tree.lastItem >= marks[j]
      BY <3>1, <3>2 DEF IInv, l
    <3> QED
      BY <1>9, <2>1, <2>3, <3>3
  <2> QED
    BY <1>8, <2>2, <2>3
<1>15. IInv'
  BY <1>1, <1>3, <1>4, <1>7, <1>11, <1>12, <1>13, <1>14 DEF IInv, Sound
<1>16. ASSUME NEW i \in DOMAIN marks \cap DOMAIN marks' PROVE Restore(tree', marks'[i]) = Restore(tree, marks[i])
  BY <1>5, <1>7, <1>10
<1> QED
  BY <1>15, <1>16

(* Closing a scope forgets it and those inside it. *)
LEMMA OuterMarks ==
  ASSUME IInv, NEW i \in DOMAIN marks, marks' = SubSeq(marks, 1, i - 1)
  PROVE  /\ marks' \in Seq(Nat) /\ Len(marks') = i - 1 /\ DOMAIN marks' = 1 .. i - 1
         /\ \A j \in DOMAIN marks' : j \in DOMAIN marks /\ j < i /\ marks'[j] = marks[j]
         /\ marks' # <<>> => i - 1 \in DOMAIN marks' /\ i - 1 \in DOMAIN marks /\ i = (i - 1) + 1
<1>1. marks \in Seq(Nat) /\ Len(marks) \in Nat /\ DOMAIN marks = 1 .. Len(marks)
  BY MarksForm
<1>2. i \in 1 .. Len(marks) /\ i - 1 \in 0 .. Len(marks)
  BY <1>1
<1>3. marks' \in Seq(Nat) /\ Len(marks') = i - 1 /\ \A j \in 1 .. i - 1 : marks'[j] = marks[j]
  <2> DEFINE e == i - 1
  <2>1. e \in 0 .. Len(marks) /\ marks' = SubSeq(marks, 1, e)
    BY <1>2
  <2> HIDE DEF e
  <2>2. marks' \in Seq(Nat) /\ Len(marks') = e /\ \A j \in 1 .. e : marks'[j] = marks[j]
    BY <1>1, <2>1
  <2> QED
    BY <2>2 DEF e
<1>4. DOMAIN marks' = 1 .. i - 1
  BY <1>3
<1>5. ASSUME NEW j \in DOMAIN marks' PROVE j \in DOMAIN marks /\ j < i /\ marks'[j] = marks[j]
  <2>1. j \in 1 .. i - 1 /\ i \in Nat /\ i <= Len(marks)
    BY <1>2, <1>4
  <2>2. j \in 1 .. Len(marks) /\ j < i
    BY <1>1, <2>1
  <2> QED
    BY <1>1, <1>3, <2>1, <2>2
<1>6. marks' # <<>> => i - 1 \in DOMAIN marks' /\ i - 1 \in DOMAIN marks /\ i = (i - 1) + 1
  <2> SUFFICES ASSUME marks' # <<>> PROVE i - 1 \in DOMAIN marks' /\ i = (i - 1) + 1
    BY <1>5
  <2>1. Len(marks') # 0
    BY <1>3
  <2> QED
    BY <1>2, <1>3, <1>4, <2>1
<1> QED
  BY <1>3, <1>4, <1>5, <1>6

LEMMA CommitScopeSound ==
  ASSUME IInv, NEW i \in DOMAIN marks, CommitScope(i)
  PROVE  /\ IInv'
         /\ \A j \in DOMAIN marks \cap DOMAIN marks' : Restore(tree', marks'[j]) = Restore(tree, marks[j])
<1>1. marks' = SubSeq(marks, 1, i - 1) /\ tree' = tree /\ program' = program
  BY DEF CommitScope
<1>2. /\ marks' \in Seq(Nat) /\ Len(marks') = i - 1
      /\ \A j \in DOMAIN marks' : j \in DOMAIN marks /\ j < i /\ marks'[j] = marks[j]
      /\ marks' # <<>> => i - 1 \in DOMAIN marks' /\ i - 1 \in DOMAIN marks
  BY <1>1, OuterMarks
<1>3. ASSUME marks' # <<>> PROVE tree'.lastItem >= marks'[Len(marks')]
  <2>1. marks # <<>>
    OBVIOUS
  <2>2. tree.lastItem >= marks[Len(marks)]
    BY <2>1 DEF IInv
  <2>3. i - 1 \in DOMAIN marks /\ marks'[i - 1] = marks[i - 1]
    BY <1>2, <1>3
  <2>4. marks[i - 1] \in Nat /\ marks[Len(marks)] \in Nat /\ marks[i - 1] <= marks[Len(marks)] /\ tree.lastItem \in Nat
    BY <2>1, <2>3, LastMark, MarksForm
  <2>5. tree.lastItem >= marks[i - 1]
    BY <2>2, <2>4
  <2> QED
    BY <1>1, <1>2, <2>3, <2>5
<1>4. IInv'
  <2>1. /\ \A j \in DOMAIN marks' : 2 <= marks'[j] /\ marks'[j] <= tree'.end
        /\ \A j \in DOMAIN marks' : Sound(Restore(tree', marks'[j]))
    BY <1>1, <1>2 DEF IInv
  <2>2. \A h, j \in DOMAIN marks' : h < j => marks'[h] <= marks'[j]
    BY <1>2 DEF IInv
  <2>3. \A h, j \in DOMAIN marks' : h = j + 1 => Restore(tree', marks'[h]).lastItem >= marks'[j]
    BY <1>1, <1>2 DEF IInv
  <2>4. program' \in Programs /\ Sound(tree') /\ tree'.end <= program'.memory
    BY <1>1 DEF IInv
  <2> QED
    BY <1>2, <1>3, <2>1, <2>2, <2>3, <2>4 DEF IInv
<1> QED
  BY <1>1, <1>2, <1>4

LEMMA RollbackScopeSound ==
  ASSUME IInv, NEW i \in DOMAIN marks, RollbackScope(i)
  PROVE  /\ IInv'
         /\ \A j \in DOMAIN marks \cap DOMAIN marks' : Restore(tree', marks'[j]) = Restore(tree, marks[j])
<1>1. marks' = SubSeq(marks, 1, i - 1) /\ tree' = Restore(tree, marks[i]) /\ program' = program
  BY DEF RollbackScope
<1>2. /\ marks' \in Seq(Nat) /\ Len(marks') = i - 1
      /\ \A j \in DOMAIN marks' : j \in DOMAIN marks /\ j < i /\ marks'[j] = marks[j]
      /\ marks' # <<>> => i - 1 \in DOMAIN marks' /\ i - 1 \in DOMAIN marks /\ i = (i - 1) + 1
  BY <1>1, OuterMarks
<1>3. Good(tree) /\ marks[i] \in 1 .. tree.end /\ Sound(Restore(tree, marks[i])) /\ Good(Restore(tree, marks[i]))
  BY MarksForm DEF IInv, Sound
<1>4. tree'.end = marks[i]
  <2>1. 1 \in 1 .. marks[i]
    BY <1>3
  <2> QED
    BY <1>1, <1>3, <2>1, RestoreRestore
<1>5. ASSUME NEW j \in DOMAIN marks'
      PROVE  2 <= marks'[j] /\ marks'[j] <= tree'.end /\ Restore(tree', marks'[j]) = Restore(tree, marks[j])
  <2>1. marks'[j] = marks[j] /\ 2 <= marks[j] /\ marks[j] <= marks[i] /\ marks[j] \in Nat
    BY <1>2, MarksForm DEF IInv
  <2>2. marks[j] \in 1 .. marks[i]
    BY <1>3, <2>1
  <2> QED
    BY <1>1, <1>3, <1>4, <2>1, <2>2, RestoreRestore
<1>6. IInv'
  <2>1. \A j \in DOMAIN marks' : Sound(Restore(tree', marks'[j]))
    BY <1>2, <1>5 DEF IInv
  <2>2. \A h, j \in DOMAIN marks' : h < j => marks'[h] <= marks'[j]
    BY <1>2 DEF IInv
  <2>3. \A h, j \in DOMAIN marks' : h = j + 1 => Restore(tree', marks'[h]).lastItem >= marks'[j]
    BY <1>2, <1>5 DEF IInv
  <2>4. program' \in Programs /\ Sound(tree')
    BY <1>1, <1>3 DEF IInv
  <2>5. tree'.end <= program'.memory
    <3>1. tree.end <= program.memory /\ program.memory \in Nat /\ tree.end \in Nat
      BY ProgramForm, MarksForm DEF IInv
    <3> QED
      BY <1>1, <1>3, <1>4, <3>1
  <2>6. marks' # <<>> => tree'.lastItem >= marks'[Len(marks')]
    BY <1>1, <1>2 DEF IInv
  <2> QED
    BY <1>2, <1>5, <2>1, <2>2, <2>3, <2>4, <2>5, <2>6 DEF IInv
<1> QED
  BY <1>2, <1>5, <1>6

LEMMA StepSound ==
  ASSUME IInv, [Next]_vars
  PROVE  /\ IInv'
         /\ \A i \in DOMAIN marks \cap DOMAIN marks' : Restore(tree', marks'[i]) = Restore(tree, marks[i])
<1>1. CASE UNCHANGED vars
  <2>1. program' = program /\ tree' = tree /\ marks' = marks
    BY <1>1 DEF vars
  <2>2. Good(tree') /\ Packed(tree') /\ tree.end <= tree'.end /\ tree'.end <= program.memory
    <3>1. Good(tree) /\ Packed(tree) /\ tree.end <= program.memory /\ tree.end \in Nat
      BY MarksForm DEF IInv, Sound
    <3> QED
      BY <2>1, <3>1
  <2>3. /\ \A i \in DOMAIN marks : Restore(tree', marks[i]) = Restore(tree, marks[i])
        /\ marks # <<>> => tree'.lastItem >= marks[Len(marks)]
    BY <2>1 DEF IInv
  <2> QED
    BY <2>1, <2>2, <2>3, SameScopes
<1>2. ASSUME NEW d \in Dictionaries(tree), NEW k \in program.keys, NEW kind \in program.kinds, DefinePhrase(d, k, kind)
      PROVE  /\ IInv'
             /\ \A i \in DOMAIN marks \cap DOMAIN marks' : Restore(tree', marks'[i]) = Restore(tree, marks[i])
  <2>1. marks' = marks
    BY <1>2 DEF DefinePhrase
  <2> QED
    BY <1>2, <2>1, DefinePhraseSound
<1>3. CASE ExtendPhrase
  <2>1. marks' = marks
    BY <1>3 DEF ExtendPhrase
  <2> QED
    BY <1>3, <2>1, ExtendPhraseSound
<1>4. ASSUME NEW d \in Dictionaries(tree), NEW k \in program.keys, OpenScope(d, k)
      PROVE  /\ IInv'
             /\ \A i \in DOMAIN marks \cap DOMAIN marks' : Restore(tree', marks'[i]) = Restore(tree, marks[i])
  BY <1>4, OpenScopeSound
<1>5. ASSUME NEW i \in DOMAIN marks, RollbackScope(i) \/ CommitScope(i)
      PROVE  /\ IInv'
             /\ \A j \in DOMAIN marks \cap DOMAIN marks' : Restore(tree', marks'[j]) = Restore(tree, marks[j])
  BY <1>5, RollbackScopeSound, CommitScopeSound
<1> QED
  BY <1>1, <1>2, <1>3, <1>4, <1>5 DEF Next

(* Whatever is defined, extended, rolled back or committed, in any order:   *)
(* the tree stays sound, and what rolling back any open scope would leave   *)
(* is sound as well (src/source/radix, LexiconTransaction.hpp).             *)
THEOREM TreeStaysSound == Spec => []IInv
<1>1. Init => IInv
  BY InitSound
<1>2. IInv /\ [Next]_vars => IInv'
  BY StepSound
<1> QED
  BY <1>1, <1>2, PTL DEF Spec

LEMMA NarrowSeq ==
  ASSUME NEW S, NEW s \in Seq(Nat), \A i \in DOMAIN s : s[i] \in S
  PROVE  s \in Seq(S)
OBVIOUS

LEMMA IInvReferencesLead ==
  ASSUME IInv
  PROVE  ReferencesLead
<1>1. /\ Good(tree) /\ Linked(tree) /\ Typed(tree) /\ tree.end <= program.memory /\ tree.end \in Nat
      /\ program.memory \in Nat
  BY ProgramForm DEF IInv, Sound, Good, Linked, Typed
<1>2. tree.end \in 2 .. program.memory
  BY <1>1 DEF Good
<1>3. marks \in Seq(2 .. tree.end)
  <2>1. marks \in Seq(Nat) /\ \A i \in DOMAIN marks : marks[i] \in 2 .. tree.end
    BY <1>1, MarksForm DEF IInv
  <2> QED
    BY <2>1, NarrowSeq
<1>4. DOMAIN tree.nodes \cup DOMAIN tree.items \cup DOMAIN tree.keys \subseteq Addresses(tree)
  BY <1>1 DEF Good, Typed, Addresses
<1>5. ASSUME NEW n \in DOMAIN tree.nodes
      PROVE  LET x == tree.nodes[n]
             IN  /\ {x.parent, x.smaller, x.greater, x.earlier} \subseteq DOMAIN tree.nodes \cup {0}
                 /\ x.item \in DOMAIN tree.items \cup {0}
                 /\ x.cell \in DOMAIN tree.keys /\ 0 <= x.fore /\ x.fore <= x.rear /\ x.rear <= Len(tree.keys[x.cell])
                 /\ \A c \in Children(tree, n) : tree.nodes[c].parent = n
  <2> DEFINE x == tree.nodes[n]
  <2>1. NodeLinks(tree, x) /\ NodeGood(tree, n) /\ x \in Node
    BY <1>1 DEF Good, Linked, Typed
  <2>2. ASSUME NEW c \in Children(tree, n) PROVE tree.nodes[c].parent = n
    <3>1. c # 0 /\ (c = x.smaller \/ c = x.greater)
      BY DEF Children
    <3>2. ChildGood(tree, n, x.smaller, 0) /\ ChildGood(tree, n, x.greater, 1)
      BY <2>1 DEF NodeGood
    <3>3. \E bit \in {0, 1} : ChildGood(tree, n, c, bit)
      <4> HIDE DEF x
      <4> QED
        BY <3>1, <3>2
    <3> QED
      BY <3>1, <3>3 DEF ChildGood
  <2>3. 0 <= x.fore /\ x.fore <= x.rear /\ x.rear <= Len(tree.keys[x.cell])
    BY <2>1 DEF Node, NodeGood
  <2> QED
    BY <2>1, <2>2, <2>3 DEF NodeLinks
<1>6. ASSUME NEW i \in DOMAIN tree.items
      PROVE  LET x == tree.items[i]
             IN  x.node \in DOMAIN tree.nodes /\ {x.prev, x.next, x.earlier} \subseteq DOMAIN tree.items \cup {0}
  BY <1>1 DEF Linked, ItemLinks
<1> QED
  BY <1>2, <1>3, <1>4, <1>5, <1>6 DEF ReferencesLead

(* No reference of the tree dangles, and nothing overlays the content an    *)
(* item counts as its own (Item.cpp 90-104, Checkpoint.cpp 14-73).          *)
THEOREM NothingDangles == Spec => [](ReferencesLead /\ ContentIsOwn)
<1>1. IInv => ReferencesLead
  BY IInvReferencesLead
<1>2. IInv => ContentIsOwn
  <2> SUFFICES ASSUME IInv, NEW i \in DOMAIN tree.items, NEW a \in (i + 1) .. (i + tree.items[i].bytes)
               PROVE  /\ a < tree.end
                      /\ a \notin DOMAIN tree.items \cup DOMAIN tree.keys
                      /\ a \in DOMAIN tree.nodes => tree.items[i].owner /\ a = i + 1
    BY DEF ContentIsOwn
  <2>1. ItemGood(tree, i) /\ i \in Nat
    BY DEF IInv, Sound, Good, Linked, Typed
  <2>2. a \in Nat /\ i < a /\ a <= i + tree.items[i].bytes
    BY <2>1
  <2> QED
    BY <2>1, <2>2 DEF ItemGood
<1> QED
  BY <1>1, <1>2, TreeStaysSound, PTL

(* A definition that fails at any of its steps, for want of memory or       *)
(* because it would shadow a permanent phrase, is undone to the last record *)
(* by the checkpoint taken before it, and so is one that succeeds           *)
(* (LexiconTransaction.hpp, Checkpoint.cpp 14-73).                          *)
THEOREM DefinitionsAreUndone == Spec => []DefinitionIsUndone
<1>1. IInv => DefinitionIsUndone
  <2> SUFFICES ASSUME IInv, NEW d \in Dictionaries(tree), NEW k \in program.keys, NEW kind \in program.kinds
               PROVE  Restore(Attempt(tree, d, k, kind).tree, tree.end) = tree
    BY DEF DefinitionIsUndone
  <2> DEFINE made == Attempt(tree, d, k, kind)
  <2>1. program \in Programs /\ Good(tree)
    BY DEF IInv, Sound
  <2>2. program.memory \in Nat /\ k \in Seq(Bits) /\ kind \in [owner : BOOLEAN, permanent : BOOLEAN]
    BY <2>1, ProgramForm
  <2>3. Over(tree, made.tree)
    BY <2>1, <2>2, AttemptOver
  <2>4. tree.end \in 1 .. tree.end
    BY <2>1 DEF Good, Linked, Typed
  <2>5. Restore(made.tree, tree.end) = Restore(tree, tree.end)
    BY <2>3, <2>4 DEF Over
  <2> QED
    BY <2>1, <2>5, RestoreWhole
<1> QED
  BY <1>1, TreeStaysSound, PTL

(* Nothing done inside an open scope, the closing of scopes inside it       *)
(* included, changes what rolling it back would leave.                      *)
THEOREM ScopesUndoExactly == Spec => UndoIsExact
<1>1. IInv /\ [Next]_vars =>
        [\A i \in DOMAIN marks \cap DOMAIN marks' : Restore(tree', marks'[i]) = Restore(tree, marks[i])]_vars
  BY StepSound
<1> QED
  BY <1>1, TreeStaysSound, PTL DEF Spec, UndoIsExact

(***************************************************************************)
(* The list of phrases.                                                     *)
(***************************************************************************)
Held(t) == \A n \in DOMAIN t.nodes : t.nodes[n].parent # 0 => n \in Children(t, t.nodes[n].parent)

Order(t) == Reverse(Chain(t.items, t.lastItem))

(* The chain of items lists them by their addresses. *)
Listed(t) ==
  /\ IsFiniteSet(DOMAIN t.items)
  /\ Order(t) \in Seq(DOMAIN t.items) /\ Len(Order(t)) = Cardinality(DOMAIN t.items)
  /\ \A p \in DOMAIN Order(t) : Position(t, Order(t)[p]) = p
  /\ \A i \in DOMAIN t.items : Position(t, i) \in DOMAIN Order(t) /\ Order(t)[Position(t, i)] = i

(* What the recursions upwards from a node amount to. *)
Upward(t, key, root) ==
  /\ key \in [DOMAIN t.nodes -> Seq(Bits)] /\ root \in [DOMAIN t.nodes -> DOMAIN t.nodes]
  /\ \A n \in DOMAIN t.nodes :
       LET p == t.nodes[n].parent IN
       IF p = 0 THEN key[n] = <<>> /\ root[n] = n /\ Edge(t, n) = <<>>
       ELSE key[n] = key[p] \o Edge(t, n) /\ root[n] = root[p]

Keys(t) == [n \in DOMAIN t.nodes |-> KeyOf(t, n)]
Roots(t) == [n \in DOMAIN t.nodes |-> TreeRoot(t, n)]

(* Every node is a child of its parent, the nodes without are the roots of  *)
(* the dictionaries, every node has one key and one dictionary, and items   *)
(* are filed in the chain of the tree and at their node.                    *)
Filed(t) ==
  /\ Held(t)
  /\ \A n \in Nat : n \in Dictionaries(t) <=> n \in DOMAIN t.nodes /\ t.nodes[n].parent = 0
  /\ Upward(t, Keys(t), Roots(t))
  /\ \A i \in DOMAIN t.items : i <= t.nodes[t.items[i].node].item
  /\ Listed(t)

(* The recursion of Chain along links that lead downwards. *)
LEMMA ChainForm ==
  ASSUME NEW r, DOMAIN r \subseteq Nat \ {0}, NEW e \in Nat, \A a \in DOMAIN r : a <= e,
         \A a \in DOMAIN r : r[a].earlier \in DOMAIN r \cup {0} /\ r[a].earlier < a
  PROVE  /\ Chain(r, 0) = <<>>
         /\ \A a \in DOMAIN r : Chain(r, a) = <<a>> \o Chain(r, r[a].earlier)
<1> DEFINE D == DOMAIN r \cup {0}
<1> DEFINE Back(E, f) == f = [a \in E |-> IF a = 0 THEN <<>> ELSE <<a>> \o f[r[a].earlier]]
<1> DEFINE F == CHOOSE f : Back(D, f)
<1>1. \E f : Back(D, f)
  <2> DEFINE B(m) == {a \in D : a <= m}
  <2> DEFINE Solved == {m \in Nat : \E f : Back(B(m), f)}
  <2>1. 0 \in Solved
    <3> DEFINE g == [a \in B(0) |-> <<>>]
    <3>1. \A a \in B(0) : a = 0
      OBVIOUS
    <3>2. Back(B(0), g)
      BY <3>1
    <3> HIDE DEF g, Back
    <3> QED
      BY <3>2
  <2>2. ASSUME NEW m \in Solved PROVE m + 1 \in Solved
    <3>1. PICK f : Back(B(m), f)
      OBVIOUS
    <3> DEFINE g == [a \in B(m + 1) |-> IF a = 0 THEN <<>> ELSE <<a>> \o f[r[a].earlier]]
    <3>2. ASSUME NEW a \in B(m + 1), a # 0 PROVE g[r[a].earlier] = f[r[a].earlier]
      <4>1. r[a].earlier \in B(m) /\ r[a].earlier \in B(m + 1)
        BY <3>2
      <4>2. f[r[a].earlier] = IF r[a].earlier = 0 THEN <<>> ELSE <<r[a].earlier>> \o f[r[r[a].earlier].earlier]
        BY <3>1, <4>1
      <4> QED
        BY <4>1, <4>2
    <3>3. Back(B(m + 1), g)
      BY <3>2
    <3> HIDE DEF g, Back
    <3> QED
      BY <3>3
  <2>3. Solved = Nat
    <3>1. Solved \in SUBSET Nat
      OBVIOUS
    <3> HIDE DEF Solved
    <3> QED
      BY <2>1, <2>2, <3>1, SetInduction
  <2>4. B(e) = D
    OBVIOUS
  <2>5. e \in Solved
    <3> HIDE DEF Solved
    <3> QED
      BY <2>3
  <2> HIDE DEF Back, B, D
  <2> QED
    BY <2>4, <2>5
<1>2. Back(D, F)
  <2> HIDE DEF Back, D
  <2> QED
    BY <1>1
<1>3. \A a : Chain(r, a) = F[a]
  BY DEF Chain
<1> HIDE DEF F
<1>4. F[0] = <<>>
  BY <1>2
<1>5. ASSUME NEW a \in DOMAIN r PROVE F[a] = <<a>> \o F[r[a].earlier]
  <2>1. a \in D /\ a # 0
    OBVIOUS
  <2> HIDE DEF D
  <2> QED
    BY <1>2, <2>1
<1> QED
  BY <1>3, <1>4, <1>5

(* The chain from a record depends on the older ones only. *)
LEMMA ChainAgrees ==
  ASSUME NEW r, DOMAIN r \subseteq Nat \ {0}, NEW e \in Nat, \A a \in DOMAIN r : a <= e,
         \A a \in DOMAIN r : r[a].earlier \in DOMAIN r \cup {0} /\ r[a].earlier < a,
         NEW s, DOMAIN s \subseteq Nat \ {0}, NEW f \in Nat, \A a \in DOMAIN s : a <= f,
         \A a \in DOMAIN s : s[a].earlier \in DOMAIN s \cup {0} /\ s[a].earlier < a,
         DOMAIN r \subseteq DOMAIN s, \A a \in DOMAIN r : s[a].earlier = r[a].earlier
  PROVE  \A a \in DOMAIN r \cup {0} : Chain(s, a) = Chain(r, a)
<1> DEFINE S == {m \in Nat : \A a \in DOMAIN r \cup {0} : a <= m => Chain(s, a) = Chain(r, a)}
<1>1. Chain(s, 0) = Chain(r, 0)
  BY ChainForm
<1>2. 0 \in S
  BY <1>1
<1>3. ASSUME NEW m \in S PROVE m + 1 \in S
  <2> SUFFICES ASSUME NEW a \in DOMAIN r, a <= m + 1 PROVE Chain(s, a) = Chain(r, a)
    BY <1>1
  <2>1. r[a].earlier \in DOMAIN r \cup {0} /\ r[a].earlier <= m
    OBVIOUS
  <2>2. Chain(s, r[a].earlier) = Chain(r, r[a].earlier)
    BY <2>1
  <2>3. Chain(s, a) = <<a>> \o Chain(s, s[a].earlier)
    BY ChainForm
  <2>4. Chain(r, a) = <<a>> \o Chain(r, r[a].earlier)
    BY ChainForm
  <2> QED
    BY <2>2, <2>3, <2>4
<1>4. S = Nat
  <2>1. S \in SUBSET Nat
    OBVIOUS
  <2> HIDE DEF S
  <2> QED
    BY <1>2, <1>3, <2>1, SetInduction
<1> QED
  BY <1>4
(***************************************************************************)
(* Keys and roots of nodes.                                                 *)
(***************************************************************************)
LEMMA EdgeOfChild ==
  ASSUME NEW t, Good(t), Held(t), NEW n \in DOMAIN t.nodes, t.nodes[n].parent # 0
  PROVE  /\ t.nodes[n].parent \in DOMAIN t.nodes
         /\ Edge(t, n) \in Seq(Bits) /\ Len(Edge(t, n)) \in Nat /\ Len(Edge(t, n)) > 0 /\ Edge(t, n) # <<>>
         /\ Head(Edge(t, n)) \in Bits /\ Child(t, t.nodes[n].parent, Head(Edge(t, n))) = n
<1> DEFINE p == t.nodes[n].parent
<1>1. p \in DOMAIN t.nodes
  BY DEF Good, Linked, NodeLinks
<1>2. n \in Children(t, p)
  BY DEF Held
<1> HIDE DEF p
<1>3. n # 0 /\ (n = Child(t, p, 0) \/ n = Child(t, p, 1))
  BY <1>2 DEF Children, Child
<1>4. PICK bit \in Bits : n = Child(t, p, bit)
  BY <1>3 DEF Bits
<1>5. /\ Edge(t, n) \in Seq(Bits) /\ Len(Edge(t, n)) \in Nat /\ Len(Edge(t, n)) > 0 /\ Head(Edge(t, n)) = bit
  BY <1>1, <1>3, <1>4, ChildForm
<1>6. Edge(t, n) # <<>>
  BY <1>5
<1> QED
  BY <1>1, <1>4, <1>5, <1>6 DEF p

(* The recursions upwards have one solution. *)
LEMMA UpwardIs ==
  ASSUME NEW t, Good(t), Held(t), NEW key, NEW root, Upward(t, key, root)
  PROVE  Keys(t) = key /\ Roots(t) = root
<1> DEFINE D == DOMAIN t.nodes
<1> DEFINE p(n) == t.nodes[n].parent
<1> DEFINE UpKey(f) == f = [n \in D |-> IF p(n) = 0 THEN Edge(t, n) ELSE f[p(n)] \o Edge(t, n)]
<1> DEFINE UpRoot(f) == f = [n \in D |-> IF p(n) = 0 THEN n ELSE f[p(n)]]
<1> DEFINE K == CHOOSE f : UpKey(f)
<1> DEFINE R == CHOOSE f : UpRoot(f)
<1>1. key \in [D -> Seq(Bits)] /\ root \in [D -> D]
  BY DEF Upward
<1>2. ASSUME NEW n \in D
      PROVE  IF p(n) = 0 THEN key[n] = <<>> /\ root[n] = n /\ Edge(t, n) = <<>>
             ELSE key[n] = key[p(n)] \o Edge(t, n) /\ root[n] = root[p(n)]
  BY DEF Upward
<1>3. UpKey(key)
  BY <1>1, <1>2
<1>4. UpRoot(root)
  BY <1>1, <1>2
<1>5. UpKey(K)
  <2> HIDE DEF UpKey
  <2> QED
    BY <1>3
<1>6. UpRoot(R)
  <2> HIDE DEF UpRoot
  <2> QED
    BY <1>4
<1>7. (\A n : KeyOf(t, n) = K[n]) /\ (\A n : TreeRoot(t, n) = R[n])
  BY DEF KeyOf, TreeRoot
<1> HIDE DEF K, R
<1> DEFINE S == {m \in Nat : \A n \in D : Len(key[n]) <= m => K[n] = key[n] /\ R[n] = root[n]}
<1>8. ASSUME NEW n \in D, p(n) = 0 PROVE K[n] = key[n] /\ R[n] = root[n]
  BY <1>2, <1>5, <1>6, <1>8
<1>9. ASSUME NEW n \in D, p(n) # 0
      PROVE  /\ p(n) \in D /\ Len(key[p(n)]) \in Nat /\ Len(key[n]) \in Nat /\ Len(key[p(n)]) < Len(key[n])
             /\ K[n] = K[p(n)] \o Edge(t, n) /\ R[n] = R[p(n)]
             /\ key[n] = key[p(n)] \o Edge(t, n) /\ root[n] = root[p(n)]
  <2>1. p(n) \in D /\ Edge(t, n) \in Seq(Bits) /\ Len(Edge(t, n)) \in Nat /\ Len(Edge(t, n)) > 0
    BY <1>9, EdgeOfChild
  <2>2. key[p(n)] \in Seq(Bits)
    BY <1>1, <2>1
  <2>3. key[n] = key[p(n)] \o Edge(t, n) /\ root[n] = root[p(n)]
    BY <1>2, <1>9
  <2>4. Len(key[n]) = Len(key[p(n)]) + Len(Edge(t, n)) /\ Len(key[p(n)]) \in Nat
    BY <2>1, <2>2, <2>3
  <2>5. K[n] = K[p(n)] \o Edge(t, n) /\ R[n] = R[p(n)]
    BY <1>5, <1>6, <1>9
  <2> QED
    BY <2>1, <2>3, <2>4, <2>5
<1>10. 0 \in S
  <2> SUFFICES ASSUME NEW n \in D, Len(key[n]) <= 0 PROVE K[n] = key[n] /\ R[n] = root[n]
    OBVIOUS
  <2>1. p(n) = 0
    BY <1>9
  <2> QED
    BY <1>8, <2>1
<1>11. ASSUME NEW m \in S PROVE m + 1 \in S
  <2> SUFFICES ASSUME NEW n \in D, Len(key[n]) <= m + 1 PROVE K[n] = key[n] /\ R[n] = root[n]
    OBVIOUS
  <2>1. CASE p(n) = 0
    BY <1>8, <2>1
  <2>2. CASE p(n) # 0
    <3>1. p(n) \in D /\ Len(key[p(n)]) <= m
      BY <1>9, <2>2
    <3>2. K[p(n)] = key[p(n)] /\ R[p(n)] = root[p(n)]
      BY <3>1
    <3>3. K[n] = K[p(n)] \o Edge(t, n) /\ R[n] = R[p(n)] /\ key[n] = key[p(n)] \o Edge(t, n) /\ root[n] = root[p(n)]
      BY <1>9, <2>2
    <3> HIDE DEF p
    <3> QED
      BY <3>2, <3>3
  <2> QED
    BY <2>1, <2>2
<1>12. S = Nat
  <2>1. S \in SUBSET Nat
    OBVIOUS
  <2> HIDE DEF S
  <2> QED
    BY <1>10, <1>11, <2>1, SetInduction
<1>13. ASSUME NEW n \in D PROVE K[n] = key[n] /\ R[n] = root[n]
  <2>1. Len(key[n]) \in Nat
    BY <1>1
  <2> QED
    BY <1>12, <2>1
<1>14. Keys(t) = [n \in D |-> key[n]] /\ Roots(t) = [n \in D |-> root[n]]
  BY <1>7, <1>13 DEF Keys, Roots
<1> QED
  BY <1>1, <1>14
LEMMA ConcatThree ==
  ASSUME NEW p \in Seq(Bits), NEW q \in Seq(Bits), NEW r \in Seq(Bits)
  PROVE  (p \o q) \o r = p \o (q \o r) /\ p \o q \in Seq(Bits) /\ Len(p \o q) = Len(p) + Len(q)
OBVIOUS

(* A tree has grown and tells the same of the nodes it had. *)
Keeps(t, u) ==
  /\ DOMAIN t.nodes \subseteq DOMAIN u.nodes
  /\ \A n \in DOMAIN t.nodes : Keys(u)[n] = Keys(t)[n] /\ Roots(u)[n] = Roots(t)[n]

(* A node of a tree in which it is known by a key in a dictionary.          *)
Provided(t, d, key, made) ==
  /\ Good(made.tree) /\ Filed(made.tree) /\ Keeps(t, made.tree)
  /\ made.tree.items = t.items /\ made.tree.lastItem = t.lastItem
  /\ made.at # 0 => /\ made.at \in DOMAIN made.tree.nodes
                    /\ Keys(made.tree)[made.at] = key /\ Roots(made.tree)[made.at] = d

(* A node more, below an old one. *)
Grows(t, u, a, key, root) ==
  /\ u.items = t.items /\ u.lastItem = t.lastItem
  /\ DOMAIN u.nodes = DOMAIN t.nodes \cup {a} /\ a \notin DOMAIN t.nodes /\ u.nodes[a].parent # 0
  /\ \A n \in DOMAIN t.nodes : (u.nodes[n].parent = 0 <=> t.nodes[n].parent = 0) /\ u.nodes[n].item = t.nodes[n].item
  /\ Upward(u, key, root)
  /\ \A n \in DOMAIN t.nodes : key[n] = Keys(t)[n] /\ root[n] = Roots(t)[n]

LEMMA FiledGrown ==
  ASSUME NEW t, Good(t), Filed(t), NEW u, Good(u), Held(u), NEW a, NEW key, NEW root, Grows(t, u, a, key, root)
  PROVE  Filed(u) /\ Keeps(t, u) /\ Keys(u)[a] = key[a] /\ Roots(u)[a] = root[a]
<1>1. Keys(u) = key /\ Roots(u) = root
  BY UpwardIs DEF Grows
<1>2. Keeps(t, u)
  BY <1>1 DEF Keeps, Grows
<1>3. Dictionaries(u) = Dictionaries(t)
  BY DEF Dictionaries, Grows
<1>4. ASSUME NEW n \in Nat PROVE n \in Dictionaries(u) <=> n \in DOMAIN u.nodes /\ u.nodes[n].parent = 0
  BY <1>3 DEF Filed, Grows
<1>5. ASSUME NEW i \in DOMAIN u.items PROVE i <= u.nodes[u.items[i].node].item
  <2>1. t.items[i].node \in DOMAIN t.nodes
    BY DEF Good, Linked, ItemLinks, Grows
  <2> QED
    BY <2>1 DEF Filed, Grows
<1>6. Listed(u)
  BY DEF Filed, Listed, Order, Position, Grows
<1> QED
  BY <1>1, <1>2, <1>4, <1>5, <1>6 DEF Filed, Grows

LEMMA UpwardForm ==
  ASSUME NEW t, Good(t), Filed(t), NEW n \in DOMAIN t.nodes
  PROVE  /\ Keys(t)[n] \in Seq(Bits) /\ Len(Keys(t)[n]) \in Nat /\ Roots(t)[n] \in DOMAIN t.nodes
         /\ t.nodes[n].parent = 0 => Keys(t)[n] = <<>> /\ Roots(t)[n] = n /\ Edge(t, n) = <<>>
         /\ t.nodes[n].parent # 0 =>
              /\ t.nodes[n].parent \in DOMAIN t.nodes
              /\ Keys(t)[n] = Keys(t)[t.nodes[n].parent] \o Edge(t, n)
              /\ Roots(t)[n] = Roots(t)[t.nodes[n].parent]
<1>1. Keys(t) \in [DOMAIN t.nodes -> Seq(Bits)] /\ Roots(t) \in [DOMAIN t.nodes -> DOMAIN t.nodes]
  BY DEF Filed, Upward
<1>2. LET p == t.nodes[n].parent IN
      IF p = 0 THEN Keys(t)[n] = <<>> /\ Roots(t)[n] = n /\ Edge(t, n) = <<>>
      ELSE Keys(t)[n] = Keys(t)[p] \o Edge(t, n) /\ Roots(t)[n] = Roots(t)[p]
  BY DEF Filed, Upward
<1>3. t.nodes[n].parent \in DOMAIN t.nodes \cup {0}
  BY DEF Good, Linked, NodeLinks
<1> QED
  BY <1>1, <1>2, <1>3

LEMMA LeafedFiled ==
  ASSUME NEW t, Good(t), Filed(t), NEW n \in DOMAIN t.nodes, NEW rest \in Seq(Bits), rest # <<>>,
         Child(t, n, Head(rest)) = 0
  PROVE  Provided(t, Roots(t)[n], Keys(t)[n] \o rest, Result(Leafed(t, n, rest), t.end))
<1> DEFINE u == Leafed(t, n, rest)
<1> DEFINE a == t.end
<1>1. Linked(t) /\ Typed(t) /\ Good(u) /\ Held(t)
  BY LeafedGood DEF Good, Linked, Filed
<1>2. /\ a \in Nat /\ a >= 2 /\ a \notin DOMAIN t.nodes /\ a + 1 \notin DOMAIN t.keys /\ n # 0
  BY <1>1 DEF Good, Typed
<1>3. Len(rest) \in Nat /\ Head(rest) \in Bits
  OBVIOUS
<1>4. /\ DOMAIN u.nodes = DOMAIN t.nodes \cup {a} /\ u.items = t.items /\ u.lastItem = t.lastItem
      /\ u.keys[a + 1] = rest /\ \A c \in DOMAIN t.keys : u.keys[c] = t.keys[c]
  BY <1>2 DEF Leafed, Put
<1>5. /\ u.nodes[a].parent = n /\ u.nodes[a].item = 0 /\ u.nodes[a].cell = a + 1
      /\ u.nodes[a].fore = 0 /\ u.nodes[a].rear = Len(rest)
  BY DEF Leafed
<1>6. ASSUME NEW k \in DOMAIN t.nodes
      PROVE  /\ k # a /\ NodeLinks(t, t.nodes[k])
             /\ u.nodes[k].parent = t.nodes[k].parent
             /\ u.nodes[k].smaller = IF k = n /\ Head(rest) # 1 THEN a ELSE t.nodes[k].smaller
             /\ u.nodes[k].greater = IF k = n /\ Head(rest) = 1 THEN a ELSE t.nodes[k].greater
             /\ u.nodes[k].item = t.nodes[k].item
             /\ u.nodes[k].cell = t.nodes[k].cell /\ u.nodes[k].fore = t.nodes[k].fore
             /\ u.nodes[k].rear = t.nodes[k].rear
  <2>1. k # a /\ NodeLinks(t, t.nodes[k])
    BY <1>1, <1>2 DEF Linked
  <2>2. u.nodes[k] = [parent |-> t.nodes[k].parent,
                      smaller |-> IF k = n /\ Head(rest) # 1 THEN a ELSE t.nodes[k].smaller,
                      greater |-> IF k = n /\ Head(rest) = 1 THEN a ELSE t.nodes[k].greater,
                      item |-> t.nodes[k].item, earlier |-> t.nodes[k].earlier, cell |-> t.nodes[k].cell,
                      fore |-> t.nodes[k].fore, rear |-> t.nodes[k].rear]
    BY <2>1 DEF Leafed
  <2> HIDE DEF u, a
  <2> QED
    BY <2>1, <2>2
<1> HIDE DEF u, a
<1>7. ASSUME NEW k \in DOMAIN t.nodes PROVE Edge(u, k) = Edge(t, k)
  BY <1>4, <1>6 DEF Edge, NodeLinks
<1>8. Edge(u, a) = rest
  <2>1. Edge(u, a) = SubSeq(rest, 1, Len(rest))
    BY <1>4, <1>5 DEF Edge
  <2> QED
    BY <2>1
<1>9. (Head(rest) = 1 => t.nodes[n].greater = 0) /\ (Head(rest) # 1 => t.nodes[n].smaller = 0)
  BY DEF Child
<1>10. Held(u)
  <2> SUFFICES ASSUME NEW k \in DOMAIN u.nodes, u.nodes[k].parent # 0 PROVE k \in Children(u, u.nodes[k].parent)
    BY DEF Held
  <2>1. CASE k = a
    BY <1>2, <1>5, <1>6, <2>1 DEF Children
  <2>2. CASE k # a
    <3>1. k \in DOMAIN t.nodes /\ t.nodes[k].parent # 0 /\ t.nodes[k].parent \in DOMAIN t.nodes
      BY <1>4, <1>6, <2>2 DEF NodeLinks
    <3>2. k \in Children(t, t.nodes[k].parent)
      BY <1>1, <3>1 DEF Held
    <3> QED
      BY <1>6, <1>9, <3>1, <3>2 DEF Children
  <2> QED
    BY <2>1, <2>2
<1> DEFINE key == [k \in DOMAIN u.nodes |-> IF k = a THEN Keys(t)[n] \o rest ELSE Keys(t)[k]]
<1> DEFINE root == [k \in DOMAIN u.nodes |-> IF k = a THEN Roots(t)[n] ELSE Roots(t)[k]]
<1>13. /\ \A k \in DOMAIN t.nodes : key[k] = Keys(t)[k] /\ root[k] = Roots(t)[k]
       /\ key[a] = Keys(t)[n] \o rest /\ root[a] = Roots(t)[n]
  BY <1>4, <1>6
<1>11. Upward(t, Keys(t), Roots(t))
  BY DEF Filed
<1>12. Upward(u, key, root)
  <2>1. Keys(t) \in [DOMAIN t.nodes -> Seq(Bits)] /\ Roots(t) \in [DOMAIN t.nodes -> DOMAIN t.nodes]
    BY <1>11 DEF Upward
  <2>2. Keys(t)[n] \o rest \in Seq(Bits)
    BY <2>1, ConcatThree
  <2>3. key \in [DOMAIN u.nodes -> Seq(Bits)] /\ root \in [DOMAIN u.nodes -> DOMAIN u.nodes]
    BY <1>4, <2>1, <2>2
  <2>4. ASSUME NEW k \in DOMAIN t.nodes
        PROVE  LET p == u.nodes[k].parent IN
               IF p = 0 THEN key[k] = <<>> /\ root[k] = k /\ Edge(u, k) = <<>>
               ELSE key[k] = key[p] \o Edge(u, k) /\ root[k] = root[p]
    <3>1. t.nodes[k].parent # 0 => t.nodes[k].parent \in DOMAIN t.nodes /\ t.nodes[k].parent # a
      BY <1>2, <1>6 DEF NodeLinks
    <3>2. LET p == t.nodes[k].parent IN
          IF p = 0 THEN Keys(t)[k] = <<>> /\ Roots(t)[k] = k /\ Edge(t, k) = <<>>
          ELSE Keys(t)[k] = Keys(t)[p] \o Edge(t, k) /\ Roots(t)[k] = Roots(t)[p]
      BY <1>11 DEF Upward
    <3>3. u.nodes[k].parent = t.nodes[k].parent /\ Edge(u, k) = Edge(t, k)
      BY <1>6, <1>7
    <3> HIDE DEF key, root
    <3> QED
      BY <1>13, <3>1, <3>2, <3>3
  <2>5. key[a] = key[n] \o Edge(u, a) /\ root[a] = root[n]
    BY <1>4, <1>6, <1>8
  <2> HIDE DEF key, root
  <2> QED
    BY <1>2, <1>4, <1>5, <2>3, <2>4, <2>5 DEF Upward
<1> HIDE DEF key, root
<1>14. Filed(u) /\ Keeps(t, u) /\ Keys(u)[a] = key[a] /\ Roots(u)[a] = root[a]
  <2>1. /\ DOMAIN u.nodes = DOMAIN t.nodes \cup {a} /\ a \notin DOMAIN t.nodes /\ u.nodes[a].parent # 0
        /\ u.items = t.items /\ u.lastItem = t.lastItem
    BY <1>2, <1>4, <1>5
  <2>2. \A k \in DOMAIN t.nodes : (u.nodes[k].parent = 0 <=> t.nodes[k].parent = 0) /\ u.nodes[k].item = t.nodes[k].item
    BY <1>6
  <2>3. \A k \in DOMAIN t.nodes : key[k] = Keys(t)[k] /\ root[k] = Roots(t)[k]
    BY <1>13
  <2>4. Good(u)
    BY <1>1
  <2>5. Grows(t, u, a, key, root)
    BY <1>12, <2>1, <2>2, <2>3 DEF Grows
  <2> QED
    BY <1>10, <2>4, <2>5, FiledGrown
<1>15. key[a] = Keys(t)[n] \o rest /\ root[a] = Roots(t)[n]
  BY <1>4, <1>13
<1>16. u.items = t.items /\ u.lastItem = t.lastItem /\ a \in DOMAIN u.nodes
  BY <1>4
<1>17. Provided(t, Roots(t)[n], Keys(t)[n] \o rest, Result(u, a))
  BY <1>1, <1>14, <1>15, <1>16, ResultForm DEF Provided
<1> QED
  BY <1>17 DEF u, a

(* A cut of a sequence of bits. *)
LEMMA CutForm ==
  ASSUME NEW s \in Seq(Bits), NEW f \in Nat, NEW r \in Nat, f <= r, r <= Len(s)
  PROVE  /\ SubSeq(s, f + 1, r) \in Seq(Bits) /\ Len(SubSeq(s, f + 1, r)) = r - f
         /\ \A i \in 1 .. r - f : SubSeq(s, f + 1, r)[i] = s[f + i]
<1>1. Len(s) \in Nat
  OBVIOUS
<1>2. CASE f < r
  <2>1. \A i \in f + 1 .. r : s[i] \in Bits
    BY <1>1
  <2>2. SubSeq(s, f + 1, r) = [i \in 1 .. r - f |-> s[f + i]]
    BY <1>1, <1>2
  <2> QED
    BY <1>1, <1>2, <2>1, <2>2
<1>3. CASE f = r
  BY <1>1, <1>3
<1> QED
  BY <1>2, <1>3

LEMMA SameBits ==
  ASSUME NEW s \in Seq(Bits), NEW q \in Seq(Bits), Len(s) = Len(q), \A i \in 1 .. Len(s) : s[i] = q[i]
  PROVE  s = q
OBVIOUS

LEMMA CutTwice ==
  ASSUME NEW s \in Seq(Bits), NEW f \in Nat, NEW m \in Nat, NEW r \in Nat, f + m <= r, r <= Len(s)
  PROVE  /\ SubSeq(s, f + 1, r) = SubSeq(s, f + 1, f + m) \o SubSeq(s, f + m + 1, r)
         /\ SubSeq(s, f + 1, f + m) = SubSeq(SubSeq(s, f + 1, r), 1, m)
<1> DEFINE w == SubSeq(s, f + 1, r)
<1> DEFINE p == SubSeq(s, f + 1, f + m)
<1> DEFINE q == SubSeq(s, f + m + 1, r)
<1> DEFINE x == SubSeq(w, 1, m)
<1>0. Len(s) \in Nat /\ f <= r /\ f + m \in Nat /\ f <= f + m /\ f + m <= Len(s)
  OBVIOUS
<1>1. w \in Seq(Bits) /\ Len(w) = r - f /\ \A i \in 1 .. r - f : w[i] = s[f + i]
  BY <1>0, CutForm
<1>2. p \in Seq(Bits) /\ Len(p) = (f + m) - f /\ \A i \in 1 .. (f + m) - f : p[i] = s[f + i]
  BY <1>0, CutForm
<1>3. q \in Seq(Bits) /\ Len(q) = r - (f + m) /\ \A i \in 1 .. r - (f + m) : q[i] = s[f + m + i]
  BY <1>0, CutForm
<1> HIDE DEF w, p, q
<1>4. x \in Seq(Bits) /\ Len(x) = m /\ \A i \in 1 .. m : x[i] = w[i]
  <2>1. m \in 0 .. Len(w)
    BY <1>1
  <2> QED
    BY <1>1, <2>1, FrontForm
<1> HIDE DEF x
<1>5. p = x
  <2>1. (f + m) - f = m /\ m <= r - f
    BY <1>0
  <2>2. Len(p) = m /\ \A i \in 1 .. m : p[i] = s[f + i]
    BY <1>2, <2>1
  <2>3. \A i \in 1 .. m : i \in 1 .. r - f
    BY <2>1
  <2>4. \A i \in 1 .. m : p[i] = x[i]
    BY <1>1, <1>4, <2>2, <2>3
  <2> QED
    BY <1>2, <1>4, <2>2, <2>4, SameBits
<1>6. w = p \o q
  <2>1. p \o q \in Seq(Bits) /\ Len(p \o q) = Len(p) + Len(q)
    BY <1>2, <1>3
  <2>2. Len(p) = m /\ Len(q) = r - (f + m) /\ Len(p \o q) = Len(w)
    BY <1>1, <1>2, <1>3, <2>1
  <2>3. ASSUME NEW i \in 1 .. Len(w) PROVE w[i] = (p \o q)[i]
    <3>0. i \in Nat /\ i \in 1 .. r - f /\ r - f \in Nat
      BY <1>0, <1>1
    <3>1. CASE i <= m
      <4>1. (p \o q)[i] = p[i]
        BY <1>2, <1>3, <2>2, <3>1
      <4> QED
        BY <1>1, <1>2, <2>2, <3>1, <4>1
    <3>2. CASE i > m
      <4>2. i - m \in 1 .. r - (f + m) /\ f + m + (i - m) = f + i
        BY <1>0, <3>0, <3>2
      <4>1. (p \o q)[i] = q[i - m]
        <5>1. Len(p \o q) = m + (r - (f + m)) /\ i \in 1 .. m + (r - (f + m))
          BY <2>1, <2>2, <3>0
        <5>2. \A k \in 1 .. Len(p) + Len(q) : (p \o q)[k] = IF k <= Len(p) THEN p[k] ELSE q[k - Len(p)]
          BY <1>2, <1>3
        <5> QED
          BY <2>2, <3>2, <5>1, <5>2
      <4> QED
        BY <1>1, <1>3, <4>1, <4>2
    <3> QED
      <4>1. i <= m \/ i > m
        BY <3>0
      <4> QED
        BY <3>1, <3>2, <4>1
  <2> QED
    BY <1>1, <2>1, <2>2, <2>3, SameBits
<1> QED
  BY <1>5, <1>6 DEF w, p, q, x

LEMMA SplittedFiled ==
  ASSUME NEW t, Good(t), Filed(t), NEW n, NEW b, NEW c, NEW matched, Cuttable(t, n, b, c, matched)
  PROVE  Provided(t, Roots(t)[n], Keys(t)[n] \o SubSeq(Edge(t, c), 1, matched), Result(Splitted(t, n, c, matched), t.end))
<1> DEFINE u == Splitted(t, n, c, matched)
<1> DEFINE a == t.end
<1> DEFINE x == t.nodes[c]
<1> DEFINE bits == t.keys[x.cell]
<1> DEFINE bit == bits[x.fore + matched + 1]
<1>1. Linked(t) /\ Typed(t) /\ Good(u) /\ Held(t)
  BY SplittedGood DEF Good, Linked, Filed
<1>2. /\ a \in Nat /\ a >= 2 /\ a \notin DOMAIN t.nodes
  BY <1>1 DEF Good, Typed
<1>3. /\ n \in DOMAIN t.nodes /\ c \in DOMAIN t.nodes /\ b \in {0, 1} /\ matched \in Nat /\ matched > 0
      /\ IF b = 1 THEN c = t.nodes[n].greater ELSE c = t.nodes[n].smaller
      /\ x.parent = n /\ x.fore \in Nat /\ x.rear \in Nat
      /\ x.fore + matched < x.rear /\ x.rear <= Len(bits)
      /\ Head(Edge(t, c)) = b /\ bit \in {0, 1} /\ x.cell \in DOMAIN t.keys
  <2>1. CutEdge(t, n, b, c, matched)
    BY CuttableForm
  <2> QED
    BY <2>1 DEF CutEdge
<1>4. n # a /\ c # a /\ c # 0 /\ n # 0 /\ bits \in Seq(Bits)
  BY <1>1, <1>2, <1>3 DEF Typed
<1>5. /\ DOMAIN u.nodes = DOMAIN t.nodes \cup {a} /\ u.items = t.items /\ u.keys = t.keys /\ u.lastItem = t.lastItem
  BY DEF Splitted
<1>6. /\ u.nodes[a].parent = n /\ u.nodes[a].smaller = (IF bit = 1 THEN 0 ELSE c)
      /\ u.nodes[a].greater = (IF bit = 1 THEN c ELSE 0) /\ u.nodes[a].item = 0
      /\ u.nodes[a].cell = x.cell /\ u.nodes[a].fore = x.fore /\ u.nodes[a].rear = x.fore + matched
  BY <1>3 DEF Splitted
<1>7. ASSUME NEW k \in DOMAIN t.nodes
      PROVE  /\ u.nodes[k].parent = IF k = c THEN a ELSE t.nodes[k].parent
             /\ u.nodes[k].smaller = IF k = n /\ b # 1 THEN a ELSE t.nodes[k].smaller
             /\ u.nodes[k].greater = IF k = n /\ b = 1 THEN a ELSE t.nodes[k].greater
             /\ u.nodes[k].item = t.nodes[k].item /\ u.nodes[k].cell = t.nodes[k].cell
             /\ u.nodes[k].fore = IF k = c THEN x.fore + matched ELSE t.nodes[k].fore
             /\ u.nodes[k].rear = t.nodes[k].rear
  <2>1. u.nodes[k] = [parent |-> IF k = c THEN a ELSE t.nodes[k].parent,
                      smaller |-> IF k = n /\ b # 1 THEN a ELSE t.nodes[k].smaller,
                      greater |-> IF k = n /\ b = 1 THEN a ELSE t.nodes[k].greater,
                      item |-> t.nodes[k].item, earlier |-> t.nodes[k].earlier, cell |-> t.nodes[k].cell,
                      fore |-> IF k = c THEN x.fore + matched ELSE t.nodes[k].fore, rear |-> t.nodes[k].rear]
    BY <1>2, <1>3 DEF Splitted
  <2> HIDE DEF u, a, x, bits, bit
  <2> QED
    BY <2>1
<1> HIDE DEF u, a
<1>8. ASSUME NEW k \in DOMAIN t.nodes, k # c PROVE Edge(u, k) = Edge(t, k)
  BY <1>5, <1>7, <1>8 DEF Edge
<1>9. /\ Edge(t, c) = SubSeq(bits, x.fore + 1, x.rear)
      /\ Edge(u, a) = SubSeq(bits, x.fore + 1, x.fore + matched)
      /\ Edge(u, c) = SubSeq(bits, x.fore + matched + 1, x.rear)
  BY <1>3, <1>5, <1>6, <1>7 DEF Edge
<1>10. /\ Edge(t, c) = Edge(u, a) \o Edge(u, c) /\ Edge(u, a) = SubSeq(Edge(t, c), 1, matched)
       /\ Edge(u, a) \in Seq(Bits) /\ Edge(u, c) \in Seq(Bits)
  <2> DEFINE f == x.fore
  <2> DEFINE r == x.rear
  <2>1. f \in Nat /\ r \in Nat /\ f + matched < r /\ r <= Len(bits) /\ matched \in Nat /\ bits \in Seq(Bits)
    BY <1>3, <1>4
  <2> HIDE DEF f, r, bits
  <2>2. f + matched \in Nat /\ f <= f + matched /\ f + matched <= r /\ f + matched <= Len(bits)
    BY <2>1
  <2>3. /\ SubSeq(bits, f + 1, r) = SubSeq(bits, f + 1, f + matched) \o SubSeq(bits, f + matched + 1, r)
        /\ SubSeq(bits, f + 1, f + matched) = SubSeq(SubSeq(bits, f + 1, r), 1, matched)
    BY <2>1, <2>2, CutTwice
  <2>4. SubSeq(bits, f + 1, f + matched) \in Seq(Bits) /\ SubSeq(bits, f + matched + 1, r) \in Seq(Bits)
    BY <2>1, <2>2, CutForm
  <2> QED
    BY <1>9, <2>3, <2>4 DEF f, r, bits
<1>11. Held(u)
  <2> SUFFICES ASSUME NEW k \in DOMAIN u.nodes, u.nodes[k].parent # 0 PROVE k \in Children(u, u.nodes[k].parent)
    BY DEF Held
  <2> HIDE DEF x, bit
  <2>1. CASE k = a
    BY <1>2, <1>3, <1>6, <1>7, <2>1 DEF Children
  <2>2. CASE k = c
    BY <1>3, <1>4, <1>6, <1>7, <2>2 DEF Children
  <2>3. CASE k # a /\ k # c
    <3>1. k \in DOMAIN t.nodes /\ u.nodes[k].parent = t.nodes[k].parent
      BY <1>5, <1>7, <2>3
    <3>2. t.nodes[k].parent \in DOMAIN t.nodes /\ k \in Children(t, t.nodes[k].parent)
      BY <1>1, <3>1 DEF Held, Linked, NodeLinks
    <3> QED
      BY <1>3, <1>7, <2>3, <3>1, <3>2 DEF Children
  <2> QED
    BY <2>1, <2>2, <2>3
<1> DEFINE key == [k \in DOMAIN u.nodes |-> IF k = a THEN Keys(t)[n] \o Edge(u, a) ELSE Keys(t)[k]]
<1> DEFINE root == [k \in DOMAIN u.nodes |-> IF k = a THEN Roots(t)[n] ELSE Roots(t)[k]]
<1>12. /\ \A k \in DOMAIN t.nodes : key[k] = Keys(t)[k] /\ root[k] = Roots(t)[k]
       /\ key[a] = Keys(t)[n] \o Edge(u, a) /\ root[a] = Roots(t)[n]
  BY <1>2, <1>5
<1>13. Upward(t, Keys(t), Roots(t))
  BY DEF Filed
<1>14. Upward(u, key, root)
  <2>1. Keys(t) \in [DOMAIN t.nodes -> Seq(Bits)] /\ Roots(t) \in [DOMAIN t.nodes -> DOMAIN t.nodes]
    BY <1>13 DEF Upward
  <2>2. Keys(t)[n] \o Edge(u, a) \in Seq(Bits) /\ Keys(t)[n] \in Seq(Bits)
    BY <1>3, <1>10, <2>1, ConcatThree
  <2>3. key \in [DOMAIN u.nodes -> Seq(Bits)] /\ root \in [DOMAIN u.nodes -> DOMAIN u.nodes]
    BY <1>3, <1>5, <2>1, <2>2
  <2> HIDE DEF key, root
  <2>4. ASSUME NEW k \in DOMAIN t.nodes
        PROVE  /\ t.nodes[k].parent = 0 => Keys(t)[k] = <<>> /\ Roots(t)[k] = k /\ Edge(t, k) = <<>>
               /\ t.nodes[k].parent # 0 =>
                    /\ t.nodes[k].parent \in DOMAIN t.nodes
                    /\ Keys(t)[k] = Keys(t)[t.nodes[k].parent] \o Edge(t, k)
                    /\ Roots(t)[k] = Roots(t)[t.nodes[k].parent]
    BY UpwardForm
  <2>5. ASSUME NEW k \in DOMAIN t.nodes, k # c
        PROVE  LET p == u.nodes[k].parent IN
               IF p = 0 THEN key[k] = <<>> /\ root[k] = k /\ Edge(u, k) = <<>>
               ELSE key[k] = key[p] \o Edge(u, k) /\ root[k] = root[p]
    <3>1. u.nodes[k].parent = t.nodes[k].parent /\ Edge(u, k) = Edge(t, k)
      BY <1>7, <1>8, <2>5
    <3>2. CASE t.nodes[k].parent = 0
      BY <1>12, <2>4, <3>1, <3>2
    <3>3. CASE t.nodes[k].parent # 0
      <4> DEFINE p == t.nodes[k].parent
      <4>1. p \in DOMAIN t.nodes /\ Keys(t)[k] = Keys(t)[p] \o Edge(t, k) /\ Roots(t)[k] = Roots(t)[p]
        BY <2>4, <3>3
      <4>2. key[k] = Keys(t)[k] /\ root[k] = Roots(t)[k] /\ key[p] = Keys(t)[p] /\ root[p] = Roots(t)[p]
        BY <1>12, <4>1
      <4>3. key[k] = key[p] \o Edge(u, k) /\ root[k] = root[p]
        BY <3>1, <4>1, <4>2, Zenon
      <4> QED
        BY <3>1, <3>3, <4>3
    <3> QED
      BY <3>2, <3>3
  <2>6. key[a] = key[n] \o Edge(u, a) /\ root[a] = root[n]
    BY <1>3, <1>12
  <2>7. key[c] = key[a] \o Edge(u, c) /\ root[c] = root[a]
    <3>1. Keys(t)[c] = Keys(t)[n] \o Edge(t, c) /\ Roots(t)[c] = Roots(t)[n]
      <4>1. t.nodes[c].parent = n
        BY <1>3
      <4>2. c \in DOMAIN t.nodes /\ n # 0
        BY <1>3, <1>4
      <4> QED
        BY <2>4, <4>1, <4>2, Zenon
    <3>2. Keys(t)[n] \o (Edge(u, a) \o Edge(u, c)) = (Keys(t)[n] \o Edge(u, a)) \o Edge(u, c)
      <4>1. Edge(u, a) \in Seq(Bits) /\ Edge(u, c) \in Seq(Bits) /\ Keys(t)[n] \in Seq(Bits)
        BY <1>10, <2>2
      <4> QED
        BY <4>1, ConcatThree, Zenon
    <3>3. key[c] = Keys(t)[c] /\ root[c] = Roots(t)[c]
      BY <1>3, <1>12
    <3>4. key[a] = Keys(t)[n] \o Edge(u, a) /\ root[a] = Roots(t)[n]
      BY <1>12
    <3>5. Edge(t, c) = Edge(u, a) \o Edge(u, c)
      BY <1>10
    <3> QED
      BY <3>1, <3>2, <3>3, <3>4, <3>5, Zenon
  <2>8. u.nodes[a].parent = n /\ n # 0 /\ u.nodes[c].parent = a /\ a # 0
    <3>1. a # 0
      BY <1>2
    <3>2. u.nodes[c].parent = a
      BY <1>3, <1>7
    <3> QED
      BY <1>4, <1>6, <3>1, <3>2
  <2>9. ASSUME NEW k \in DOMAIN u.nodes
        PROVE  LET p == u.nodes[k].parent IN
               IF p = 0 THEN key[k] = <<>> /\ root[k] = k /\ Edge(u, k) = <<>>
               ELSE key[k] = key[p] \o Edge(u, k) /\ root[k] = root[p]
    <3>1. CASE k = a
      BY <2>6, <2>8, <3>1
    <3>2. CASE k = c
      BY <2>7, <2>8, <3>2
    <3>3. CASE k # a /\ k # c
      BY <1>5, <2>5, <3>3
    <3> QED
      BY <3>1, <3>2, <3>3
  <2> QED
    BY <2>3, <2>9 DEF Upward
<1> HIDE DEF key, root
<1>15. Filed(u) /\ Keeps(t, u) /\ Keys(u)[a] = key[a] /\ Roots(u)[a] = root[a]
  <2>1. /\ DOMAIN u.nodes = DOMAIN t.nodes \cup {a} /\ a \notin DOMAIN t.nodes /\ u.nodes[a].parent # 0
        /\ u.items = t.items /\ u.lastItem = t.lastItem
    BY <1>2, <1>4, <1>5, <1>6
  <2>2. \A k \in DOMAIN t.nodes : (u.nodes[k].parent = 0 <=> t.nodes[k].parent = 0) /\ u.nodes[k].item = t.nodes[k].item
    BY <1>2, <1>3, <1>4, <1>7
  <2>3. Grows(t, u, a, key, root)
    BY <1>12, <1>14, <2>1, <2>2 DEF Grows
  <2> QED
    BY <1>1, <1>11, <2>3, FiledGrown
<1>16. Provided(t, Roots(t)[n], Keys(t)[n] \o Edge(u, a), Result(u, a))
  BY <1>1, <1>5, <1>12, <1>15, ResultForm DEF Provided
<1>17. Provided(t, Roots(t)[n], Keys(t)[n] \o SubSeq(Edge(t, c), 1, matched), Result(u, a))
  BY <1>10, <1>16
<1> QED
  BY <1>17 DEF u, a

(***************************************************************************)
(* The descent tells nodes by their keys.                                   *)
(***************************************************************************)
LEMMA DescentVisits ==
  ASSUME NEW t, Good(t), NEW key \in Seq(Bits), NEW F, F = [v \in Visits(t, key) |-> Falls(t, key, F, v)]
  PROVE  /\ \A v \in Visits(t, key) : F[v] \in Seq(Visits(t, key)) /\ F[v] # <<>>
         /\ \A v \in Visits(t, key) : ~Onward(t, key, v) => Last(F[v]) = v
         /\ \A v \in Visits(t, key) : Onward(t, key, v) => Last(F[v]) = Last(F[After(t, key, v)])
<1> DEFINE Ends(v) == /\ F[v] \in Seq(Visits(t, key)) /\ F[v] # <<>>
                      /\ ~Onward(t, key, v) => Last(F[v]) = v
                      /\ Onward(t, key, v) => Last(F[v]) = Last(F[After(t, key, v)])
<1> DEFINE S == {m \in Nat : \A v \in Visits(t, key) : v[2] >= m => Ends(v)}
<1>2. Len(key) \in Nat
  OBVIOUS
<1>3. ASSUME NEW v \in Visits(t, key), ~Onward(t, key, v) PROVE Ends(v)
  <2>1. F[v] = <<v>>
    BY <1>3, FallsForm
  <2>2. <<v>> \in Seq(Visits(t, key)) /\ <<v>> # <<>> /\ Last(<<v>>) = v
    BY DEF Last
  <2> QED
    BY <1>3, <2>1, <2>2
<1>4. ASSUME NEW v \in Visits(t, key), Onward(t, key, v), Ends(After(t, key, v)) PROVE Ends(v)
  <2> DEFINE w == F[After(t, key, v)]
  <2>1. F[v] = <<v>> \o w
    BY <1>4, FallsForm
  <2>2. w \in Seq(Visits(t, key)) /\ w # <<>>
    BY <1>4
  <2> HIDE DEF w
  <2>3. <<v>> \o w \in Seq(Visits(t, key)) /\ <<v>> \o w # <<>> /\ Last(<<v>> \o w) = Last(w)
    BY <2>2 DEF Last
  <2> QED
    BY <1>4, <2>1, <2>3 DEF w
<1>5. Len(key) \in S
  <2>1. ASSUME NEW v \in Visits(t, key), v[2] >= Len(key) PROVE Ends(v)
    <3>1. v[2] \in 0 .. Len(key)
      BY DEF Visits
    <3>2. ASSUME Onward(t, key, v) PROVE FALSE
      <4>1. After(t, key, v)[2] > v[2] /\ After(t, key, v)[2] \in 0 .. Len(key)
        BY <3>2, OnwardForm DEF Visits
      <4> QED
        BY <1>2, <2>1, <3>1, <4>1
    <3> HIDE DEF Ends
    <3> QED
      BY <1>3, <3>2
  <2> HIDE DEF Ends
  <2> QED
    BY <1>2, <2>1
<1>6. ASSUME NEW m \in 1 .. Len(key), m \in S PROVE m - 1 \in S
  <2>1. m \in Nat /\ m - 1 \in Nat
    OBVIOUS
  <2>2. ASSUME NEW v \in Visits(t, key), v[2] >= m - 1 PROVE Ends(v)
    <3>1. CASE ~Onward(t, key, v)
      <4> HIDE DEF Ends
      <4> QED
        BY <1>3, <3>1
    <3>2. CASE Onward(t, key, v)
      <4>1. After(t, key, v) \in Visits(t, key) /\ After(t, key, v)[2] > v[2]
        BY <3>2, OnwardForm
      <4>2. After(t, key, v)[2] \in Nat /\ v[2] \in Nat
        BY <4>1 DEF Visits
      <4>3. After(t, key, v)[2] >= m
        BY <2>1, <2>2, <4>1, <4>2
      <4> HIDE DEF Ends
      <4>4. Ends(After(t, key, v))
        BY <1>6, <4>1, <4>3
      <4> QED
        BY <1>4, <3>2, <4>4
    <3> QED
      BY <3>1, <3>2
  <2> HIDE DEF Ends
  <2> QED
    BY <2>1, <2>2
<1>7. 0 \in S
  <2> HIDE DEF S
  <2> QED
    BY <1>2, <1>5, <1>6, DownInduction
<1>8. ASSUME NEW v \in Visits(t, key) PROVE Ends(v)
  <2>1. v[2] >= 0
    BY DEF Visits
  <2> HIDE DEF Ends
  <2> QED
    BY <1>7, <2>1
<1> QED
  BY <1>8

(* Bits after those matched, and an edge that is next. *)
LEMMA FrontAndEdge ==
  ASSUME NEW key \in Seq(Bits), NEW k \in 0 .. Len(key), NEW e \in Seq(Bits), IsPrefix(e, Rest(key, k))
  PROVE  /\ k + Len(e) \in 0 .. Len(key)
         /\ SubSeq(key, 1, k) \o e = SubSeq(key, 1, k + Len(e))
<1>1. Len(key) \in Nat /\ k \in Nat /\ k <= Len(key) /\ Len(e) \in Nat
  OBVIOUS
<1>2. Rest(key, k) \in Seq(Bits) /\ Len(Rest(key, k)) = Len(key) - k
  BY RestForm
<1>3. Len(e) <= Len(key) - k /\ \A i \in 1 .. Len(e) : e[i] = Rest(key, k)[i]
  BY <1>2, PrefixForm
<1>4. k + Len(e) <= Len(key) /\ k + Len(e) \in Nat /\ k <= k + Len(e)
  BY <1>1, <1>3
<1>5. /\ SubSeq(key, 1, k + Len(e)) = SubSeq(key, 1, k) \o SubSeq(key, k + 1, k + Len(e))
  <2>1. PICK z \in Nat : z = 0
    OBVIOUS
  <2> DEFINE r == k + Len(e)
  <2>2. r \in Nat /\ z + k <= r /\ r <= Len(key)
    BY <1>1, <1>4, <2>1
  <2> HIDE DEF r
  <2>3. SubSeq(key, z + 1, r) = SubSeq(key, z + 1, z + k) \o SubSeq(key, z + k + 1, r)
    BY <1>1, <2>2, CutTwice
  <2>4. z + 1 = 1 /\ z + k = k
    BY <1>1, <2>1
  <2> QED
    BY <2>3, <2>4 DEF r
<1>6. SubSeq(key, k + 1, k + Len(e)) = e
  <2>1. (k + Len(e)) - k = Len(e)
    BY <1>1
  <2>2. /\ SubSeq(key, k + 1, k + Len(e)) \in Seq(Bits) /\ Len(SubSeq(key, k + 1, k + Len(e))) = Len(e)
        /\ \A i \in 1 .. Len(e) : SubSeq(key, k + 1, k + Len(e))[i] = key[k + i]
    BY <1>1, <1>4, <2>1, CutForm
  <2>3. ASSUME NEW i \in 1 .. Len(e) PROVE Rest(key, k)[i] = key[k + i]
    <3>1. i \in 1 .. Len(key) - k
      BY <1>1, <1>3
    <3>2. \A j \in 1 .. Len(key) - k : SubSeq(key, k + 1, Len(key))[j] = key[k + j]
      BY <1>1, CutForm
    <3> QED
      BY <3>1, <3>2 DEF Rest
  <2> QED
    BY <1>3, <2>2, <2>3, SameBits
<1> QED
  BY <1>4, <1>5, <1>6

(* A node on the way of the descent: it has been told by its key. *)
Named(t, d, key, v) == Keys(t)[v[1]] = SubSeq(key, 1, v[2]) /\ Roots(t)[v[1]] = d

LEMMA NamedAfter ==
  ASSUME NEW t, Good(t), Filed(t), NEW key \in Seq(Bits), NEW d, NEW v \in Visits(t, key),
         Named(t, d, key, v), Onward(t, key, v)
  PROVE  Named(t, d, key, After(t, key, v))
<1> DEFINE c == Ahead(t, key, v)
<1> DEFINE rest == Rest(key, v[2])
<1>1. v[1] \in DOMAIN t.nodes /\ v[2] \in 0 .. Len(key)
  BY DEF Visits
<1>2. rest \in Seq(Bits) /\ rest # <<>> /\ c # 0 /\ c = Child(t, v[1], Head(rest)) /\ IsPrefix(Edge(t, c), rest)
  BY <1>1, RestForm DEF Onward, Ahead
<1>3. Head(rest) \in {0, 1}
  BY <1>2 DEF Bits
<1>4. c \in DOMAIN t.nodes /\ Edge(t, c) \in Seq(Bits)
  BY <1>1, <1>2, <1>3, ChildForm DEF Bits
<1>5. t.nodes[c].parent = v[1] /\ v[1] # 0
  <2>1. NodeGood(t, v[1]) /\ v[1] # 0
    BY <1>1 DEF Good, Linked, Typed
  <2> HIDE DEF c, rest
  <2>2. ChildGood(t, v[1], c, Head(rest))
    BY <1>2, <1>3, <2>1 DEF NodeGood, Child
  <2> QED
    BY <1>2, <2>1, <2>2 DEF ChildGood
<1>d. c = Ahead(t, key, v)
  OBVIOUS
<1> HIDE DEF c
<1>6. Keys(t)[c] = Keys(t)[v[1]] \o Edge(t, c) /\ Roots(t)[c] = Roots(t)[v[1]]
  <2>1. t.nodes[c].parent # 0
    BY <1>5
  <2>2. /\ Keys(t)[c] = Keys(t)[t.nodes[c].parent] \o Edge(t, c)
        /\ Roots(t)[c] = Roots(t)[t.nodes[c].parent]
    BY <1>4, <2>1, UpwardForm
  <2> QED
    BY <1>5, <2>2
<1>7. SubSeq(key, 1, v[2]) \o Edge(t, c) = SubSeq(key, 1, v[2] + Len(Edge(t, c)))
  BY <1>1, <1>2, <1>4, FrontAndEdge
<1>8. After(t, key, v)[1] = c /\ After(t, key, v)[2] = v[2] + Len(Edge(t, c))
  BY <1>d DEF After
<1> QED
  BY <1>6, <1>7, <1>8 DEF Named

LEMMA DescentNames ==
  ASSUME NEW t, Good(t), Filed(t), NEW key \in Seq(Bits), NEW d \in DOMAIN t.nodes, t.nodes[d].parent = 0
  PROVE  Named(t, d, key, Last(Descent(t, d, key)))
<1>1. PICK F : F = [v \in Visits(t, key) |-> Falls(t, key, F, v)] /\ Descent(t, d, key) = F[<<d, 0>>]
  BY DescentForm
<1> DEFINE S == {m \in Nat : \A v \in Visits(t, key) : v[2] >= m /\ Named(t, d, key, v) => Named(t, d, key, Last(F[v]))}
<1>2. Len(key) \in Nat
  OBVIOUS
<1>3. ASSUME NEW v \in Visits(t, key), ~Onward(t, key, v) PROVE Last(F[v]) = v
  BY <1>1, <1>3, DescentVisits
<1>4. ASSUME NEW v \in Visits(t, key), Onward(t, key, v)
      PROVE  /\ Last(F[v]) = Last(F[After(t, key, v)]) /\ After(t, key, v) \in Visits(t, key)
             /\ After(t, key, v)[2] > v[2] /\ After(t, key, v)[2] \in Nat /\ After(t, key, v)[2] <= Len(key)
             /\ Named(t, d, key, v) => Named(t, d, key, After(t, key, v))
  <2>1. Last(F[v]) = Last(F[After(t, key, v)])
    BY <1>1, <1>4, DescentVisits
  <2>2. After(t, key, v) \in Visits(t, key) /\ After(t, key, v)[2] > v[2]
    BY <1>4, OnwardForm
  <2>3. After(t, key, v)[2] \in 0 .. Len(key)
    BY <2>2 DEF Visits
  <2> QED
    BY <1>2, <1>4, <2>1, <2>2, <2>3, NamedAfter
<1>5. Len(key) \in S
  <2> SUFFICES ASSUME NEW v \in Visits(t, key), v[2] >= Len(key), Named(t, d, key, v)
               PROVE  Named(t, d, key, Last(F[v]))
    BY <1>2
  <2>1. v[2] \in 0 .. Len(key)
    BY DEF Visits
  <2>2. ~Onward(t, key, v)
    BY <1>2, <1>4, <2>1
  <2> QED
    BY <1>3, <2>2
<1>6. ASSUME NEW m \in 1 .. Len(key), m \in S PROVE m - 1 \in S
  <2>1. m \in Nat /\ m - 1 \in Nat
    OBVIOUS
  <2> SUFFICES ASSUME NEW v \in Visits(t, key), v[2] >= m - 1, Named(t, d, key, v)
               PROVE  Named(t, d, key, Last(F[v]))
    BY <2>1
  <2>2. CASE ~Onward(t, key, v)
    BY <1>3, <2>2
  <2>3. CASE Onward(t, key, v)
    <3>1. v[2] \in Nat
      BY DEF Visits
    <3>2. After(t, key, v)[2] >= m
      BY <1>4, <2>1, <2>3, <3>1
    <3> QED
      BY <1>4, <1>6, <2>3, <3>2
  <2> QED
    BY <2>2, <2>3
<1>7. 0 \in S
  <2> HIDE DEF S
  <2> QED
    BY <1>2, <1>5, <1>6, DownInduction
<1>8. <<d, 0>> \in Visits(t, key) /\ <<d, 0>>[2] >= 0 /\ <<d, 0>>[1] = d /\ <<d, 0>>[2] = 0
  BY <1>2 DEF Visits
<1>9. Named(t, d, key, <<d, 0>>)
  <2>1. Keys(t)[d] = <<>> /\ Roots(t)[d] = d
    BY UpwardForm
  <2>2. SubSeq(key, 1, 0) = <<>>
    OBVIOUS
  <2> QED
    BY <1>8, <2>1, <2>2 DEF Named
<1> QED
  BY <1>1, <1>7, <1>8, <1>9

(* An edge that completes a front of the key comes next. *)
LEMMA EdgeIsNext ==
  ASSUME NEW key \in Seq(Bits), NEW p \in Seq(Bits), NEW e \in Seq(Bits), IsPrefix(p \o e, key), Len(e) > 0
  PROVE  /\ IsPrefix(p, key) /\ Len(p) \in 0 .. Len(key) /\ Rest(key, Len(p)) # <<>>
         /\ IsPrefix(e, Rest(key, Len(p))) /\ Head(Rest(key, Len(p))) = Head(e)
<1>1. Len(p) \in Nat /\ Len(e) \in Nat /\ Len(key) \in Nat
  OBVIOUS
<1>2. p \o e \in Seq(Bits) /\ Len(p \o e) = Len(p) + Len(e)
  BY ConcatThree
<1>3. Len(p) + Len(e) <= Len(key) /\ \A i \in 1 .. Len(p) + Len(e) : (p \o e)[i] = key[i]
  BY <1>2, PrefixForm
<1>4. \A i \in 1 .. Len(p) + Len(e) : (p \o e)[i] = IF i <= Len(p) THEN p[i] ELSE e[i - Len(p)]
  OBVIOUS
<1>5. Len(p) <= Len(key) /\ Len(p) \in 0 .. Len(key) /\ Len(p) < Len(key)
  BY <1>1, <1>3
<1>6. IsPrefix(p, key)
  <2>1. \A i \in 1 .. Len(p) : i \in 1 .. Len(p) + Len(e) /\ i <= Len(p)
    BY <1>1
  <2>2. \A i \in 1 .. Len(p) : p[i] = key[i]
    BY <1>3, <1>4, <2>1
  <2> QED
    BY <1>5, <2>2, PrefixForm
<1> DEFINE k == Len(p)
<1> DEFINE rest == Rest(key, k)
<1>7. rest \in Seq(Bits) /\ Len(rest) = Len(key) - k
  BY <1>5, RestForm
<1>8. \A i \in 1 .. Len(key) - k : rest[i] = key[k + i]
  <2>1. \A j \in 1 .. Len(key) - k : SubSeq(key, k + 1, Len(key))[j] = key[k + j]
    BY <1>1, <1>5, CutForm
  <2> QED
    BY <2>1 DEF Rest
<1> HIDE DEF rest
<1>9. Len(e) <= Len(key) - k
  BY <1>1, <1>3
<1>10. ASSUME NEW i \in 1 .. Len(e) PROVE e[i] = rest[i]
  <2>1. i \in 1 .. Len(key) - k
    BY <1>1, <1>9
  <2>2. k + i \in 1 .. Len(p) + Len(e) /\ ~(k + i <= Len(p)) /\ (k + i) - Len(p) = i
    BY <1>1
  <2>3. (p \o e)[k + i] = e[(k + i) - Len(p)]
    BY <1>4, <2>2
  <2>4. (p \o e)[k + i] = key[k + i]
    BY <1>3, <2>2
  <2> QED
    BY <1>8, <2>1, <2>2, <2>3, <2>4
<1>11. IsPrefix(e, rest)
  BY <1>7, <1>9, <1>10, PrefixForm
<1>12. rest # <<>>
  BY <1>1, <1>5, <1>7
<1>13. Head(rest) = Head(e)
  <2>1. 1 \in 1 .. Len(e) /\ e # <<>>
    BY <1>1
  <2>2. e[1] = rest[1]
    BY <1>10, <2>1
  <2> QED
    BY <1>7, <1>12, <2>1, <2>2
<1> QED
  BY <1>5, <1>6, <1>11, <1>12, <1>13 DEF rest

(* The descent passes every node whose key is a front of the one sought.    *)
LEMMA DescentReaches ==
  ASSUME NEW t, Good(t), Filed(t), NEW key \in Seq(Bits), NEW F, F = [v \in Visits(t, key) |-> Falls(t, key, F, v)],
         NEW m \in DOMAIN t.nodes, IsPrefix(Keys(t)[m], key)
  PROVE  Last(F[<<Roots(t)[m], 0>>]) = Last(F[<<m, Len(Keys(t)[m])>>])
<1> DEFINE At(n) == <<n, Len(Keys(t)[n])>>
<1> DEFINE S == {l \in Nat : \A n \in DOMAIN t.nodes : IsPrefix(Keys(t)[n], key) /\ Len(Keys(t)[n]) <= l =>
                   Last(F[<<Roots(t)[n], 0>>]) = Last(F[At(n)])}
<1>1. ASSUME NEW n \in DOMAIN t.nodes, t.nodes[n].parent = 0 PROVE <<Roots(t)[n], 0>> = At(n)
  BY <1>1, UpwardForm
<1>2. ASSUME NEW n \in DOMAIN t.nodes, t.nodes[n].parent # 0, IsPrefix(Keys(t)[n], key)
      PROVE  \E p \in DOMAIN t.nodes :
             /\ Roots(t)[n] = Roots(t)[p] /\ IsPrefix(Keys(t)[p], key)
             /\ Len(Keys(t)[p]) \in Nat /\ Len(Keys(t)[n]) \in Nat /\ Len(Keys(t)[p]) < Len(Keys(t)[n])
             /\ Last(F[At(p)]) = Last(F[At(n)])
  <2> DEFINE p == t.nodes[n].parent
  <2> DEFINE e == Edge(t, n)
  <2>1. /\ p \in DOMAIN t.nodes /\ e \in Seq(Bits) /\ Len(e) \in Nat /\ Len(e) > 0 /\ e # <<>>
        /\ Child(t, p, Head(e)) = n
    BY <1>2, EdgeOfChild DEF Filed
  <2>2. Keys(t)[n] = Keys(t)[p] \o e /\ Roots(t)[n] = Roots(t)[p] /\ Keys(t)[p] \in Seq(Bits)
    BY <1>2, <2>1, UpwardForm
  <2> HIDE DEF e, p
  <2>3. Len(Keys(t)[n]) = Len(Keys(t)[p]) + Len(e) /\ Len(Keys(t)[p]) \in Nat
    BY <2>1, <2>2, ConcatThree
  <2>4. /\ IsPrefix(Keys(t)[p], key) /\ Len(Keys(t)[p]) \in 0 .. Len(key) /\ Rest(key, Len(Keys(t)[p])) # <<>>
        /\ IsPrefix(e, Rest(key, Len(Keys(t)[p]))) /\ Head(Rest(key, Len(Keys(t)[p]))) = Head(e)
    BY <1>2, <2>1, <2>2, EdgeIsNext
  <2>5. At(p) \in Visits(t, key) /\ At(p)[1] = p /\ At(p)[2] = Len(Keys(t)[p])
    BY <2>1, <2>4 DEF Visits
  <2> HIDE DEF At
  <2>6. Ahead(t, key, At(p)) = n
    BY <2>1, <2>4, <2>5 DEF Ahead
  <2>7. n # 0
    BY DEF Good, Linked, Typed
  <2>8. Onward(t, key, At(p))
    BY <2>4, <2>5, <2>6, <2>7 DEF Onward, e
  <2>9. After(t, key, At(p)) = At(n)
    BY <2>3, <2>5, <2>6 DEF After, At, e
  <2>10. Last(F[At(p)]) = Last(F[At(n)])
    BY <2>5, <2>8, <2>9, DescentVisits
  <2>11. Len(Keys(t)[n]) \in Nat /\ Len(Keys(t)[p]) < Len(Keys(t)[n])
    BY <2>1, <2>3
  <2> QED
    BY <2>1, <2>2, <2>3, <2>4, <2>10, <2>11
<1> HIDE DEF At
<1>3. ASSUME NEW n \in DOMAIN t.nodes PROVE Len(Keys(t)[n]) \in Nat
  BY UpwardForm
<1>4. 0 \in S
  <2> SUFFICES ASSUME NEW n \in DOMAIN t.nodes, IsPrefix(Keys(t)[n], key), Len(Keys(t)[n]) <= 0
               PROVE  Last(F[<<Roots(t)[n], 0>>]) = Last(F[At(n)])
    OBVIOUS
  <2>1. \A i, j \in Nat : ~(i < j /\ j <= 0)
    OBVIOUS
  <2>2. t.nodes[n].parent = 0
    BY <1>2, <2>1
  <2> QED
    BY <1>1, <2>2
<1>5. ASSUME NEW l \in S PROVE l + 1 \in S
  <2>1. l \in Nat /\ l + 1 \in Nat
    OBVIOUS
  <2> SUFFICES ASSUME NEW n \in DOMAIN t.nodes, IsPrefix(Keys(t)[n], key), Len(Keys(t)[n]) <= l + 1
               PROVE  Last(F[<<Roots(t)[n], 0>>]) = Last(F[At(n)])
    BY <2>1
  <2>2. CASE t.nodes[n].parent = 0
    BY <1>1, <2>2
  <2>3. CASE t.nodes[n].parent # 0
    <3>1. PICK p \in DOMAIN t.nodes :
             /\ Roots(t)[n] = Roots(t)[p] /\ IsPrefix(Keys(t)[p], key)
             /\ Len(Keys(t)[p]) \in Nat /\ Len(Keys(t)[n]) \in Nat /\ Len(Keys(t)[p]) < Len(Keys(t)[n])
             /\ Last(F[At(p)]) = Last(F[At(n)])
      BY <1>2, <2>3
    <3>2. Len(Keys(t)[p]) <= l
      BY <2>1, <3>1
    <3>3. Last(F[<<Roots(t)[p], 0>>]) = Last(F[At(p)])
      BY <3>1, <3>2
    <3> QED
      BY <3>1, <3>3
  <2> QED
    BY <2>2, <2>3
<1>6. S = Nat
  <2>1. S \in SUBSET Nat
    OBVIOUS
  <2> HIDE DEF S
  <2> QED
    BY <1>4, <1>5, <2>1, SetInduction
<1>7. Len(Keys(t)[m]) \in S
  <2> HIDE DEF S
  <2> QED
    BY <1>3, <1>6
<1>8. Last(F[<<Roots(t)[m], 0>>]) = Last(F[At(m)])
  <2>1. Len(Keys(t)[m]) <= Len(Keys(t)[m])
    BY <1>3
  <2> QED
    BY <1>7, <2>1
<1> QED
  BY <1>8 DEF At

(* No two nodes of a dictionary have the same key. *)
LEMMA KeysAreUnique ==
  ASSUME NEW t, Good(t), Filed(t), NEW m \in DOMAIN t.nodes, NEW n \in DOMAIN t.nodes,
         Keys(t)[m] = Keys(t)[n], Roots(t)[m] = Roots(t)[n]
  PROVE  m = n
<1> DEFINE key == Keys(t)[n]
<1>1. key \in Seq(Bits) /\ Len(key) \in Nat /\ Roots(t)[n] \in DOMAIN t.nodes
  BY UpwardForm
<1>k. Keys(t)[m] = key /\ Keys(t)[n] = key
  OBVIOUS
<1> HIDE DEF key
<1>2. PICK F : F = [v \in Visits(t, key) |-> Falls(t, key, F, v)]
  BY <1>1, DownExists
<1>3. IsPrefix(key, key)
  BY <1>1, PrefixForm
<1>4. ASSUME NEW x \in DOMAIN t.nodes PROVE <<x, Len(key)>> \in Visits(t, key) /\ ~Onward(t, key, <<x, Len(key)>>)
  <2> DEFINE v == <<x, Len(key)>>
  <2>1. v \in Visits(t, key) /\ v[2] = Len(key)
    BY <1>1 DEF Visits
  <2> HIDE DEF v
  <2>2. ~Onward(t, key, v)
    <3> SUFFICES ASSUME Onward(t, key, v) PROVE FALSE
      OBVIOUS
    <3>1. After(t, key, v)[2] > v[2] /\ After(t, key, v)[2] \in 0 .. Len(key)
      BY <1>1, <2>1, OnwardForm DEF Visits
    <3> QED
      BY <1>1, <2>1, <3>1
  <2> QED
    BY <2>1, <2>2 DEF v
<1>5. ASSUME NEW x \in DOMAIN t.nodes PROVE Last(F[<<x, Len(key)>>]) = <<x, Len(key)>>
  BY <1>1, <1>2, <1>4, DescentVisits
<1>6. Last(F[<<Roots(t)[m], 0>>]) = Last(F[<<m, Len(key)>>]) /\ Last(F[<<Roots(t)[n], 0>>]) = Last(F[<<n, Len(key)>>])
  BY <1>1, <1>2, <1>3, <1>k, DescentReaches
<1>7. <<m, Len(key)>> = <<n, Len(key)>>
  BY <1>5, <1>6
<1> QED
  BY <1>7

(***************************************************************************)
(* Where a definition puts its node.                                        *)
(***************************************************************************)
LEMMA FiledRoot ==
  ASSUME NEW t, Good(t), Filed(t), NEW d \in Dictionaries(t)
  PROVE  d \in Nat /\ d # 0 /\ d \in DOMAIN t.nodes /\ t.nodes[d].parent = 0
<1>1. d \in Nat
  BY DEF Dictionaries, Root, Good, Linked, Typed
<1>2. d \in DOMAIN t.nodes /\ t.nodes[d].parent = 0
  BY <1>1 DEF Filed
<1> QED
  BY <1>1, <1>2 DEF Good, Linked, Typed

LEMMA KeepsItself ==
  ASSUME NEW t
  PROVE  Keeps(t, t)
BY DEF Keeps

LEMMA KeepsKeeps ==
  ASSUME NEW t, NEW u, NEW w, Keeps(t, u), Keeps(u, w)
  PROVE  Keeps(t, w)
BY DEF Keeps

LEMMA NewLeafProvides ==
  ASSUME NEW t, Good(t), Filed(t), NEW n \in DOMAIN t.nodes, NEW rest \in Seq(Bits), rest # <<>>,
         Child(t, n, Head(rest)) = 0
  PROVE  Provided(t, Roots(t)[n], Keys(t)[n] \o rest, NewLeaf(t, n, rest))
<1>1. CASE t.end + 2 > program.memory
  <2>1. NewLeaf(t, n, rest).tree = t /\ NewLeaf(t, n, rest).at = 0
    BY <1>1, NewLeafForm, ResultForm
  <2> QED
    BY <2>1, KeepsItself DEF Provided
<1>2. CASE ~(t.end + 2 > program.memory)
  <2>1. NewLeaf(t, n, rest) = Result(Leafed(t, n, rest), t.end)
    BY <1>2, NewLeafForm
  <2> QED
    BY <2>1, LeafedFiled
<1> QED
  BY <1>1, <1>2

LEMMA SplitEdgeProvides ==
  ASSUME NEW t, Good(t), Filed(t), NEW n, NEW b, NEW c, NEW matched, Cuttable(t, n, b, c, matched)
  PROVE  Provided(t, Roots(t)[n], Keys(t)[n] \o SubSeq(Edge(t, c), 1, matched), SplitEdge(t, n, c, matched))
<1>0. n \in DOMAIN t.nodes /\ c \in DOMAIN t.nodes /\ matched \in Nat /\ matched < t.nodes[c].rear - t.nodes[c].fore
  <2>1. CutEdge(t, n, b, c, matched)
    BY CuttableForm
  <2>2. t.nodes[c].fore \in Nat /\ t.nodes[c].rear \in Nat /\ t.nodes[c].fore + matched < t.nodes[c].rear /\ matched \in Nat
    BY <2>1 DEF CutEdge
  <2>3. matched < t.nodes[c].rear - t.nodes[c].fore
    BY <2>2
  <2> QED
    BY <2>1, <2>3 DEF CutEdge
<1> DEFINE split == SplitEdge(t, n, c, matched)
<1>1. split = IF t.end + 1 > program.memory THEN Result(t, 0) ELSE Result(Splitted(t, n, c, matched), t.end)
  BY <1>0, SplitEdgeForm
<1> HIDE DEF split
<1>2. CASE t.end + 1 > program.memory
  <2>1. split.tree = t /\ split.at = 0
    BY <1>1, <1>2, ResultForm
  <2> QED
    BY <2>1, KeepsItself DEF Provided, split
<1>3. CASE ~(t.end + 1 > program.memory)
  <2>1. split = Result(Splitted(t, n, c, matched), t.end)
    BY <1>1, <1>3
  <2> QED
    BY <2>1, SplittedFiled DEF split
<1> QED
  BY <1>2, <1>3

LEMMA FrontAndRest ==
  ASSUME NEW key \in Seq(Bits), NEW k \in 0 .. Len(key)
  PROVE  SubSeq(key, 1, k) \in Seq(Bits) /\ Rest(key, k) \in Seq(Bits) /\ SubSeq(key, 1, k) \o Rest(key, k) = key
<1> DEFINE e == Rest(key, k)
<1>1. e \in Seq(Bits) /\ Len(e) = Len(key) - k
  BY RestForm
<1> HIDE DEF e
<1>2. IsPrefix(e, e)
  BY <1>1, PrefixForm
<1>3. SubSeq(key, 1, k) \o e = SubSeq(key, 1, k + Len(e))
  BY <1>1, <1>2, FrontAndEdge DEF e
<1>4. k + Len(e) = Len(key)
  BY <1>1
<1>5. SubSeq(key, 1, Len(key)) = key
  OBVIOUS
<1>6. SubSeq(key, 1, k) \in Seq(Bits)
  BY FrontForm
<1> QED
  BY <1>1, <1>3, <1>4, <1>5, <1>6 DEF e

LEMMA AppendBesideProvides ==
  ASSUME NEW t, Good(t), Filed(t), NEW n, NEW rest \in Seq(Bits), rest # <<>>,
         NEW c, NEW matched, Cuttable(t, n, Head(rest), c, matched),
         matched <= Len(rest), matched < Len(rest) => rest[matched + 1] # Edge(t, c)[matched + 1],
         SubSeq(Edge(t, c), 1, matched) = SubSeq(rest, 1, matched)
  PROVE  Provided(t, Roots(t)[n], Keys(t)[n] \o rest, AppendBeside(t, n, c, matched, rest))
<1> DEFINE split == SplitEdge(t, n, c, matched)
<1> DEFINE s == split.tree
<1> DEFINE front == SubSeq(rest, 1, matched)
<1> DEFINE back == Rest(rest, matched)
<1>0. n \in DOMAIN t.nodes /\ matched \in Nat /\ Len(rest) \in Nat /\ matched \in 0 .. Len(rest)
  BY DEF Cuttable
<1>1. AppendBeside(t, n, c, matched, rest) =
        IF split.at = 0 \/ matched = Len(rest) THEN split ELSE NewLeaf(s, split.at, back)
  BY DEF AppendBeside, AppendSplit
<1>2. Provided(t, Roots(t)[n], Keys(t)[n] \o front, split)
  BY SplitEdgeProvides
<1>3. front \in Seq(Bits) /\ back \in Seq(Bits) /\ front \o back = rest /\ Keys(t)[n] \in Seq(Bits)
  BY <1>0, FrontAndRest, UpwardForm
<1>4. ASSUME split.at # 0 PROVE \A bit \in Bits : bit # Edge(t, c)[matched + 1] => Child(s, split.at, bit) = 0
  <2> SUFFICES ASSUME NEW bit \in Bits, bit # Edge(t, c)[matched + 1] PROVE Child(s, split.at, bit) = 0
    OBVIOUS
  <2>1. n \in DOMAIN t.nodes /\ c \in DOMAIN t.nodes /\ matched \in Nat /\ matched < t.nodes[c].rear - t.nodes[c].fore
    <3>1. CutEdge(t, n, Head(rest), c, matched)
      BY CuttableForm
    <3>2. t.nodes[c].fore \in Nat /\ t.nodes[c].rear \in Nat /\ t.nodes[c].fore + matched < t.nodes[c].rear /\ matched \in Nat
      BY <3>1 DEF CutEdge
    <3>3. matched < t.nodes[c].rear - t.nodes[c].fore
      BY <3>2
    <3> QED
      BY <3>1, <3>3 DEF CutEdge
  <2>2. split = IF t.end + 1 > program.memory THEN Result(t, 0) ELSE Result(Splitted(t, n, c, matched), t.end)
    BY <2>1, SplitEdgeForm
  <2>3. s = Splitted(t, n, c, matched) /\ split.at = t.end
    BY <1>4, <2>2, ResultForm
  <2> QED
    BY <2>3, SplittedChild
<1> HIDE DEF split, front, back
<1>5. CASE split.at = 0
  BY <1>1, <1>2, <1>5 DEF Provided
<1>6. CASE split.at # 0 /\ matched = Len(rest)
  <2>1. front = rest
    BY <1>6 DEF front
  <2> QED
    BY <1>1, <1>2, <1>6, <2>1
<1>7. CASE split.at # 0 /\ matched # Len(rest)
  <2>1. matched < Len(rest)
    BY <1>0, <1>7
  <2>2. back \in Seq(Bits) /\ back # <<>> /\ Head(back) = rest[matched + 1] /\ Head(back) \in Bits
    BY <1>0, <2>1, RestHead DEF back
  <2>3. Child(s, split.at, Head(back)) = 0
    BY <1>4, <1>7, <2>1, <2>2
  <2>4. /\ Good(s) /\ Filed(s) /\ split.at \in DOMAIN s.nodes /\ Keeps(t, s) /\ s.items = t.items /\ s.lastItem = t.lastItem
        /\ Keys(s)[split.at] = Keys(t)[n] \o front /\ Roots(s)[split.at] = Roots(t)[n]
    BY <1>2, <1>7 DEF Provided
  <2> DEFINE w == NewLeaf(s, split.at, back)
  <2>5. Provided(s, Roots(s)[split.at], Keys(s)[split.at] \o back, w)
    <3> HIDE DEF s
    <3> QED
      BY <2>2, <2>3, <2>4, NewLeafProvides
  <2> HIDE DEF w, s
  <2>a. (Keys(t)[n] \o front) \o back = Keys(t)[n] \o (front \o back)
    <3>1. \A p, q, r \in Seq(Bits) : (p \o q) \o r = p \o (q \o r)
      BY ConcatThree
    <3>2. Keys(t)[n] \in Seq(Bits) /\ front \in Seq(Bits) /\ back \in Seq(Bits)
      BY <1>3
    <3> QED
      BY <3>1, <3>2
  <2>6. Keys(s)[split.at] \o back = Keys(t)[n] \o rest
    BY <1>3, <2>4, <2>a
  <2>7. Provided(t, Roots(t)[n], Keys(t)[n] \o rest, w)
    BY <2>4, <2>5, <2>6, KeepsKeeps DEF Provided
  <2> QED
    BY <1>1, <1>7, <2>7 DEF w, s
<1> QED
  BY <1>5, <1>6, <1>7

LEMMA AppendKeyProvides ==
  ASSUME NEW t, Good(t), Filed(t), NEW d \in Dictionaries(t), NEW key \in Seq(Bits)
  PROVE  Provided(t, d, key, AppendKey(t, d, key))
<1> DEFINE v == Last(Descent(t, d, key))
<1> DEFINE n == v[1]
<1> DEFINE rest == Rest(key, v[2])
<1>0. d \in DOMAIN t.nodes /\ t.nodes[d].parent = 0
  BY FiledRoot
<1>1. v \in Visits(t, key) /\ ~Onward(t, key, v) /\ Named(t, d, key, v)
  BY <1>0, DescentEnds, DescentNames
<1>2. AppendKey(t, d, key) = AppendRest(t, n, rest)
  BY DEF AppendKey, AppendFrom
<1> HIDE DEF v
<1>3. n \in DOMAIN t.nodes /\ rest \in Seq(Bits)
  <2>1. v[1] \in DOMAIN t.nodes /\ v[2] \in 0 .. Len(key)
    BY <1>1 DEF Visits
  <2> QED
    BY <2>1, RestForm
<1>n. Keys(t)[n] \o rest = key /\ Roots(t)[n] = d /\ Keys(t)[n] \in Seq(Bits)
  <2>1. v[2] \in 0 .. Len(key)
    BY <1>1 DEF Visits
  <2> QED
    BY <1>1, <2>1, FrontAndRest DEF Named
<1>4. rest # <<>> => (Child(t, n, Head(rest)) = 0 \/ ~IsPrefix(Edge(t, Child(t, n, Head(rest))), rest))
  BY <1>1 DEF Onward, Ahead
<1> HIDE DEF n, rest
<1>5. CASE rest = <<>>
  <2>1. AppendRest(t, n, rest) = Result(t, n)
    BY <1>5 DEF AppendRest
  <2>2. Keys(t)[n] = key
    BY <1>5, <1>n
  <2> QED
    BY <1>2, <1>3, <1>n, <2>1, <2>2, ResultForm, KeepsItself DEF Provided
<1>6. CASE rest # <<>> /\ Child(t, n, Head(rest)) = 0
  <2>1. AppendRest(t, n, rest) = NewLeaf(t, n, rest)
    BY <1>6 DEF AppendRest, AppendTo
  <2>2. Provided(t, Roots(t)[n], Keys(t)[n] \o rest, NewLeaf(t, n, rest))
    BY <1>3, <1>6, NewLeafProvides
  <2> QED
    BY <1>2, <1>n, <2>1, <2>2
<1>7. CASE rest # <<>> /\ Child(t, n, Head(rest)) # 0
  <2> DEFINE c == Child(t, n, Head(rest))
  <2> DEFINE e == Edge(t, c)
  <2> DEFINE matched == Len(LongestCommonPrefix({rest, e}))
  <2>1. AppendRest(t, n, rest) = AppendBeside(t, n, c, matched, rest)
    BY <1>7 DEF AppendRest, AppendTo
  <2>2. Head(rest) \in Bits
    BY <1>3, <1>7
  <2>3. e \in Seq(Bits) /\ Len(e) > 0 /\ Head(e) = Head(rest)
    BY <1>3, <1>7, <2>2, ChildForm
  <2>4. e # <<>> /\ ~IsPrefix(e, rest)
    BY <1>4, <1>7, <2>3
  <2> HIDE DEF e
  <2>5. /\ matched \in Nat /\ matched > 0 /\ matched < Len(e) /\ matched <= Len(rest)
        /\ matched < Len(rest) => rest[matched + 1] # e[matched + 1]
        /\ \A i \in 1 .. matched : e[i] = rest[i]
    BY <1>3, <1>7, <2>3, <2>4, SharedBits
  <2> HIDE DEF matched
  <2>6. Cuttable(t, n, Head(rest), c, matched)
    BY <1>3, <1>7, <2>2, <2>5 DEF Cuttable, e
  <2>7. SubSeq(e, 1, matched) = SubSeq(rest, 1, matched)
    <3>1. Len(e) \in Nat /\ Len(rest) \in Nat /\ matched \in 0 .. Len(e) /\ matched \in 0 .. Len(rest)
      BY <1>3, <2>3, <2>5
    <3>2. /\ SubSeq(e, 1, matched) \in Seq(Bits) /\ Len(SubSeq(e, 1, matched)) = matched
          /\ \A i \in 1 .. matched : SubSeq(e, 1, matched)[i] = e[i]
      BY <2>3, <3>1, FrontForm
    <3>3. /\ SubSeq(rest, 1, matched) \in Seq(Bits) /\ Len(SubSeq(rest, 1, matched)) = matched
          /\ \A i \in 1 .. matched : SubSeq(rest, 1, matched)[i] = rest[i]
      BY <1>3, <3>1, FrontForm
    <3> QED
      BY <2>5, <3>2, <3>3, SameBits
  <2> HIDE DEF c
  <2>8. Provided(t, Roots(t)[n], Keys(t)[n] \o rest, AppendBeside(t, n, c, matched, rest))
    BY <1>3, <1>7, <2>5, <2>6, <2>7, AppendBesideProvides DEF e
  <2> QED
    BY <1>2, <1>n, <2>1, <2>8
<1> QED
  BY <1>5, <1>6, <1>7

(***************************************************************************)
(* The list of phrases.                                                     *)
(***************************************************************************)
LEMMA SameSeq ==
  ASSUME NEW X, NEW s \in Seq(X), NEW q \in Seq(X), Len(s) = Len(q), \A i \in 1 .. Len(s) : s[i] = q[i]
  PROVE  s = q
OBVIOUS

LEMMA AppendedIs ==
  ASSUME NEW X, NEW s \in Seq(X), NEW x \in X, NEW r \in Seq(X), Len(r) = Len(s) + 1,
         r[Len(s) + 1] = x, \A p \in 1 .. Len(s) : r[p] = s[p]
  PROVE  r = Append(s, x)
<1>1. /\ Append(s, x) \in Seq(X) /\ Len(Append(s, x)) = Len(s) + 1 /\ Len(s) \in Nat
      /\ Append(s, x)[Len(s) + 1] = x /\ \A p \in 1 .. Len(s) : Append(s, x)[p] = s[p]
  OBVIOUS
<1> DEFINE q == Append(s, x)
<1> HIDE DEF q
<1>2. ASSUME NEW p \in 1 .. Len(s) + 1 PROVE r[p] = q[p]
  <2>1. p = Len(s) + 1 \/ p \in 1 .. Len(s)
    BY <1>1
  <2> QED
    BY <1>1, <2>1 DEF q
<1>3. r = q
  BY <1>1, <1>2, SameSeq DEF q
<1> QED
  BY <1>3 DEF q

LEMMA FrontIs ==
  ASSUME NEW X, NEW s \in Seq(X), NEW m \in 0 .. Len(s), NEW r \in Seq(X), Len(r) = m,
         \A p \in 1 .. m : r[p] = s[p]
  PROVE  r = SubSeq(s, 1, m)
<1>1. SubSeq(s, 1, m) \in Seq(X) /\ Len(SubSeq(s, 1, m)) = m /\ \A p \in 1 .. m : SubSeq(s, 1, m)[p] = s[p]
  OBVIOUS
<1> QED
  BY <1>1, SameSeq

LEMMA ReverseLonger ==
  ASSUME NEW X, NEW s \in Seq(X), NEW x \in X
  PROVE  Reverse(<<x>> \o s) = Append(Reverse(s), x) /\ Reverse(s) \in Seq(X) /\ Len(Reverse(s)) = Len(s)
<1>1. Len(s) \in Nat /\ <<x>> \o s \in Seq(X) /\ Len(<<x>> \o s) = Len(s) + 1
  OBVIOUS
<1>2. Reverse(s) \in Seq(X) /\ Len(Reverse(s)) = Len(s) /\ \A p \in 1 .. Len(s) : Reverse(s)[p] = s[(Len(s) - p) + 1]
  BY <1>1 DEF Reverse
<1> DEFINE w == <<x>> \o s
<1> DEFINE l == Len(s)
<1>3. \A k \in 1 .. l + 1 : w[k] = IF k = 1 THEN x ELSE s[k - 1]
  BY <1>1
<1>w. w \in Seq(X) /\ Len(w) = l + 1 /\ l \in Nat
  BY <1>1
<1> HIDE DEF w, l
<1>4. Reverse(w) = [p \in 1 .. l + 1 |-> w[((l + 1) - p) + 1]]
  BY <1>w DEF Reverse
<1>5. Reverse(w)[l + 1] = x
  <2>1. ((l + 1) - (l + 1)) + 1 = 1 /\ l + 1 \in 1 .. l + 1 /\ 1 \in 1 .. l + 1
    BY <1>w
  <2> QED
    BY <1>3, <1>4, <2>1
<1>6. ASSUME NEW p \in 1 .. l PROVE Reverse(w)[p] = Reverse(s)[p]
  <2>1. /\ p \in 1 .. l + 1 /\ ((l + 1) - p) + 1 \in 1 .. l + 1 /\ ((l + 1) - p) + 1 # 1
        /\ (((l + 1) - p) + 1) - 1 = (l - p) + 1
    BY <1>w
  <2>2. Reverse(w)[p] = s[(l - p) + 1]
    BY <1>3, <1>4, <2>1
  <2> QED
    BY <1>2, <2>2 DEF l
<1>7. Reverse(w) \in Seq(X) /\ Len(Reverse(w)) = l + 1
  BY <1>w DEF Reverse
<1>8. Reverse(w) = Append(Reverse(s), x)
  <2> DEFINE r == Reverse(w)
  <2> DEFINE q == Reverse(s)
  <2>1. /\ q \in Seq(X) /\ Len(q) = l /\ r \in Seq(X) /\ Len(r) = Len(q) + 1 /\ r[Len(q) + 1] = x
        /\ \A p \in 1 .. Len(q) : r[p] = q[p]
    BY <1>2, <1>5, <1>6, <1>7 DEF l
  <2> HIDE DEF r, q
  <2>2. r = Append(q, x)
    BY <2>1, AppendedIs
  <2> QED
    BY <2>2 DEF r, q
<1> QED
  BY <1>2, <1>8 DEF w

LEMMA ItemsDown ==
  ASSUME NEW t, Good(t)
  PROVE  /\ DOMAIN t.items \subseteq Nat \ {0} /\ t.end \in Nat /\ \A a \in DOMAIN t.items : a < t.end /\ a <= t.end
         /\ \A a \in DOMAIN t.items : t.items[a].earlier \in DOMAIN t.items \cup {0} /\ t.items[a].earlier < a
         /\ t.lastItem \in DOMAIN t.items \cup {0}
<1>1. DOMAIN t.items \subseteq Nat \ {0} /\ t.end \in Nat /\ t.lastItem \in DOMAIN t.items \cup {0}
  BY DEF Good, Linked, Typed
<1>2. \A a \in DOMAIN t.items : t.items[a].earlier \in DOMAIN t.items \cup {0} /\ t.items[a].earlier < a
  BY DEF Good, Linked, ItemLinks, ItemGood
<1>3. \A a \in DOMAIN t.items : a < t.end
  BY DEF Good
<1>4. \A a \in DOMAIN t.items : a <= t.end
  BY <1>1, <1>3
<1> QED
  BY <1>1, <1>2, <1>3, <1>4

LEMMA ChainSeq ==
  ASSUME NEW r, DOMAIN r \subseteq Nat \ {0}, NEW e \in Nat, \A a \in DOMAIN r : a <= e,
         \A a \in DOMAIN r : r[a].earlier \in DOMAIN r \cup {0} /\ r[a].earlier < a
  PROVE  \A a \in DOMAIN r \cup {0} : Chain(r, a) \in Seq(DOMAIN r)
<1> DEFINE S == {m \in Nat : \A a \in DOMAIN r \cup {0} : a <= m => Chain(r, a) \in Seq(DOMAIN r)}
<1>1. Chain(r, 0) \in Seq(DOMAIN r)
  <2>1. Chain(r, 0) = <<>>
    BY ChainForm
  <2>2. <<>> \in Seq(DOMAIN r)
    OBVIOUS
  <2> QED
    BY <2>1, <2>2
<1>2. 0 \in S
  <2>1. \A a \in DOMAIN r \cup {0} : a <= 0 => a = 0
    OBVIOUS
  <2> QED
    BY <1>1, <2>1
<1>3. ASSUME NEW m \in S PROVE m + 1 \in S
  <2> SUFFICES ASSUME NEW a \in DOMAIN r, a <= m + 1 PROVE Chain(r, a) \in Seq(DOMAIN r)
    BY <1>1
  <2>1. r[a].earlier \in DOMAIN r \cup {0} /\ r[a].earlier <= m
    OBVIOUS
  <2>2. Chain(r, r[a].earlier) \in Seq(DOMAIN r)
    BY <2>1
  <2>3. Chain(r, a) = <<a>> \o Chain(r, r[a].earlier)
    BY ChainForm
  <2> QED
    BY <2>2, <2>3
<1>4. S = Nat
  <2>1. S \in SUBSET Nat
    OBVIOUS
  <2> HIDE DEF S
  <2> QED
    BY <1>2, <1>3, <2>1, SetInduction
<1> QED
  BY <1>4

LEMMA PositionBelow ==
  ASSUME NEW t, NEW u, NEW m \in Nat, DOMAIN t.items \subseteq DOMAIN u.items, DOMAIN u.items \subseteq Nat,
         \A a \in DOMAIN u.items \ DOMAIN t.items : a >= m, NEW p \in Nat, p < m
  PROVE  Position(u, p) = Position(t, p)
<1>1. {j \in DOMAIN u.items : j <= p} = {j \in DOMAIN t.items : j <= p}
  OBVIOUS
<1> QED
  BY <1>1 DEF Position

(* Links that do not change leave the list as it is. *)
LEMMA OrderSame ==
  ASSUME NEW t, Good(t), Listed(t), NEW u, Good(u), DOMAIN u.items = DOMAIN t.items, u.lastItem = t.lastItem,
         \A i \in DOMAIN t.items : u.items[i].earlier = t.items[i].earlier
  PROVE  Order(u) = Order(t) /\ Listed(u) /\ \A i : Position(u, i) = Position(t, i)
<1>1. Chain(u.items, t.lastItem) = Chain(t.items, t.lastItem)
  BY ItemsDown, ChainAgrees
<1>2. Order(u) = Order(t)
  BY <1>1 DEF Order
<1>3. \A i : Position(u, i) = Position(t, i)
  BY DEF Position
<1> QED
  BY <1>2, <1>3 DEF Listed

(* An item on top of the others is the last of the list. *)
LEMMA OrderLonger ==
  ASSUME NEW t, Good(t), Listed(t), NEW u, Good(u), NEW a, a >= t.end, a \in Nat, DOMAIN u.items = DOMAIN t.items \cup {a},
         u.lastItem = a, u.items[a].earlier = t.lastItem,
         \A i \in DOMAIN t.items : u.items[i].earlier = t.items[i].earlier
  PROVE  Order(u) = Append(Order(t), a) /\ Listed(u)
<1> DEFINE s == Chain(t.items, t.lastItem)
<1> DEFINE X == DOMAIN u.items
<1>1. /\ DOMAIN t.items \subseteq Nat \ {0} /\ t.end \in Nat /\ \A i \in DOMAIN t.items : i < t.end /\ i <= t.end
      /\ t.lastItem \in DOMAIN t.items \cup {0} /\ u.end \in Nat /\ \A i \in DOMAIN u.items : i <= u.end
      /\ \A i \in DOMAIN t.items : t.items[i].earlier \in DOMAIN t.items \cup {0} /\ t.items[i].earlier < i
      /\ DOMAIN u.items \subseteq Nat \ {0}
      /\ \A i \in DOMAIN u.items : u.items[i].earlier \in DOMAIN u.items \cup {0} /\ u.items[i].earlier < i
  BY ItemsDown
<1>2. Chain(u.items, t.lastItem) = s
  BY <1>1, ChainAgrees
<1>3. Chain(u.items, a) = <<a>> \o s
  <2>1. a \in DOMAIN u.items
    OBVIOUS
  <2>2. Chain(u.items, a) = <<a>> \o Chain(u.items, u.items[a].earlier)
    BY <1>1, <2>1, ChainForm
  <2> QED
    BY <1>2, <2>2
<1>4. s \in Seq(X) /\ a \in X
  <2>1. s \in Seq(DOMAIN t.items)
    BY <1>1, ChainSeq
  <2> HIDE DEF s
  <2>2. DOMAIN t.items \subseteq X
    OBVIOUS
  <2> QED
    BY <2>1, <2>2
<1>5. Order(u) = Append(Order(t), a) /\ Order(t) \in Seq(X)
  <2> HIDE DEF s, X
  <2>1. Reverse(<<a>> \o s) = Append(Reverse(s), a) /\ Reverse(s) \in Seq(X)
    BY <1>4, ReverseLonger
  <2> QED
    BY <1>3, <2>1 DEF Order, s
<1> DEFINE o == Order(t)
<1> DEFINE c == Cardinality(DOMAIN t.items)
<1>6. /\ IsFiniteSet(DOMAIN t.items) /\ o \in Seq(DOMAIN t.items) /\ Len(o) = c /\ c \in Nat
      /\ \A p \in DOMAIN o : Position(t, o[p]) = p
      /\ \A i \in DOMAIN t.items : Position(t, i) \in DOMAIN o /\ o[Position(t, i)] = i
  BY FS_CardinalityType DEF Listed
<1>7. a \notin DOMAIN t.items
  BY <1>1
<1>8. IsFiniteSet(DOMAIN u.items) /\ Cardinality(DOMAIN u.items) = c + 1
  BY <1>6, <1>7, FS_AddElement
<1>9. Position(u, a) = c + 1
  <2>1. {j \in DOMAIN u.items : j <= a} = DOMAIN u.items
    BY <1>1
  <2> QED
    BY <1>8, <2>1 DEF Position
<1>10. ASSUME NEW i \in DOMAIN t.items PROVE Position(u, i) = Position(t, i)
  <2>1. i \in Nat /\ i < t.end
    BY <1>1
  <2>2. \A b \in DOMAIN u.items \ DOMAIN t.items : b >= t.end
    OBVIOUS
  <2> QED
    BY <1>1, <2>1, <2>2, PositionBelow
<1> HIDE DEF o, c, X
<1>11. /\ Order(u) \in Seq(DOMAIN u.items) /\ Len(Order(u)) = c + 1 /\ DOMAIN Order(u) = 1 .. c + 1
       /\ Order(u)[c + 1] = a /\ \A p \in 1 .. c : Order(u)[p] = o[p]
  <2>1. o \in Seq(X) /\ a \in X /\ Order(u) = Append(o, a) /\ Len(o) = c
    BY <1>4, <1>5, <1>6 DEF o
  <2>2. /\ Append(o, a) \in Seq(X) /\ Len(Append(o, a)) = c + 1 /\ DOMAIN Append(o, a) = 1 .. c + 1
        /\ Append(o, a)[c + 1] = a /\ \A p \in 1 .. c : Append(o, a)[p] = o[p]
    BY <1>6, <2>1
  <2> QED
    BY <2>1, <2>2 DEF X
<1>12. DOMAIN o = 1 .. c /\ \A p \in 1 .. c : o[p] \in DOMAIN t.items
  BY <1>6
<1>13. ASSUME NEW p \in DOMAIN Order(u) PROVE Position(u, Order(u)[p]) = p
  <2>1. CASE p = c + 1
    BY <1>9, <1>11, <2>1
  <2>2. CASE p \in 1 .. c
    BY <1>6, <1>10, <1>11, <1>12, <2>2
  <2>3. p = c + 1 \/ p \in 1 .. c
    BY <1>6, <1>11
  <2> QED
    BY <2>1, <2>2, <2>3
<1>14. ASSUME NEW i \in DOMAIN u.items PROVE Position(u, i) \in DOMAIN Order(u) /\ Order(u)[Position(u, i)] = i
  <2>1. CASE i = a
    <3>1. c + 1 \in 1 .. c + 1
      BY <1>6
    <3> QED
      BY <1>9, <1>11, <2>1, <3>1
  <2>2. CASE i \in DOMAIN t.items
    <3>1. Position(t, i) \in 1 .. c /\ o[Position(t, i)] = i /\ Position(u, i) = Position(t, i)
      BY <1>6, <1>10, <1>12, <2>2
    <3>2. Position(t, i) \in 1 .. c + 1
      BY <1>6, <3>1
    <3> QED
      BY <1>11, <3>1, <3>2
  <2> QED
    BY <2>1, <2>2
<1> QED
  BY <1>5, <1>8, <1>11, <1>13, <1>14 DEF Listed, o

(* The same nodes under the same names, and no items but newer ones besides *)
(* those there were.                                                        *)
Onto(t, u) ==
  /\ Keeps(t, u)
  /\ DOMAIN t.items \subseteq DOMAIN u.items /\ \A a \in DOMAIN u.items \ DOMAIN t.items : a >= t.end
  /\ \A i \in DOMAIN t.items :
       /\ u.items[i].node = t.items[i].node
       /\ u.items[i].owner = t.items[i].owner /\ u.items[i].permanent = t.items[i].permanent

LEMMA DictionaryOnto ==
  ASSUME NEW t, Good(t), NEW u, Good(u), Onto(t, u), NEW d \in DOMAIN t.nodes
  PROVE  DictionaryOf(u, d) = DictionaryOf(t, d)
<1>1. d \in Nat /\ d # 0 /\ d < t.end /\ t.end \in Nat
  BY DEF Good, Linked, Typed
<1>2. CASE d = Root
  BY <1>2 DEF DictionaryOf
<1>3. CASE d # Root
  <2>1. d - 1 \in Nat /\ d - 1 < t.end
    BY <1>1
  <2>2. DOMAIN u.items \subseteq Nat
    BY ItemsDown
  <2>3. Position(u, d - 1) = Position(t, d - 1)
    BY <1>1, <2>1, <2>2, PositionBelow DEF Onto
  <2> QED
    BY <1>3, <2>3 DEF DictionaryOf
<1> QED
  BY <1>2, <1>3

(* What is told of an item in the terms of the invariant. *)
Told(t, i) ==
  [dict |-> DictionaryOf(t, Roots(t)[t.items[i].node]), key |-> Keys(t)[t.items[i].node],
   owner |-> t.items[i].owner, permanent |-> t.items[i].permanent, payload |-> t.items[i].bytes - 1]

LEMMA ToldForm ==
  ASSUME NEW t, Good(t), NEW i \in DOMAIN t.items
  PROVE  PhraseOf(t, t.items[i]) = Told(t, i) /\ t.items[i].node \in DOMAIN t.nodes
<1>1. t.items[i].node \in DOMAIN t.nodes
  BY DEF Good, Linked, ItemLinks
<1>2. Keys(t)[t.items[i].node] = KeyOf(t, t.items[i].node) /\ Roots(t)[t.items[i].node] = TreeRoot(t, t.items[i].node)
  BY <1>1 DEF Keys, Roots
<1> QED
  BY <1>1, <1>2 DEF PhraseOf, Told

LEMMA ToldOnto ==
  ASSUME NEW t, Good(t), Filed(t), NEW u, Good(u), Onto(t, u), NEW i \in DOMAIN t.items
  PROVE  Told(u, i) = [dict |-> Told(t, i).dict, key |-> Told(t, i).key,
                       owner |-> Told(t, i).owner, permanent |-> Told(t, i).permanent,
                       payload |-> u.items[i].bytes - 1]
<1> DEFINE n == t.items[i].node
<1>1. n \in DOMAIN t.nodes
  BY ToldForm
<1>2. Roots(t)[n] \in DOMAIN t.nodes
  BY <1>1, UpwardForm
<1>3. Keys(u)[n] = Keys(t)[n] /\ Roots(u)[n] = Roots(t)[n]
  BY <1>1 DEF Onto, Keeps
<1>4. DictionaryOf(u, Roots(u)[n]) = DictionaryOf(t, Roots(t)[n])
  BY <1>2, <1>3, DictionaryOnto
<1> QED
  BY <1>3, <1>4 DEF Told, Onto

PhrasesSet(t) == {Told(t, i) : i \in DOMAIN t.items}

LEMMA PhrasesForm ==
  ASSUME NEW t, Good(t), Filed(t)
  PROVE  /\ PhrasesOf(t) \in Seq(PhrasesSet(t)) /\ Len(PhrasesOf(t)) = Len(Order(t)) /\ Len(Order(t)) \in Nat
         /\ DOMAIN PhrasesOf(t) = 1 .. Len(Order(t)) /\ DOMAIN Order(t) = 1 .. Len(Order(t))
         /\ \A p \in 1 .. Len(Order(t)) : Order(t)[p] \in DOMAIN t.items /\ PhrasesOf(t)[p] = Told(t, Order(t)[p])
         /\ Len(Order(t)) = Cardinality(DOMAIN t.items)
<1> DEFINE o == Order(t)
<1> DEFINE l == Len(o)
<1>1. o \in Seq(DOMAIN t.items) /\ l = Cardinality(DOMAIN t.items)
  BY DEF Filed, Listed
<1>2. PhrasesOf(t) = [p \in DOMAIN o |-> PhraseOf(t, t.items[o[p]])]
  BY DEF PhrasesOf, PhrasesIn, Order
<1> HIDE DEF o
<1>3. l \in Nat /\ DOMAIN o = 1 .. l /\ \A p \in 1 .. l : o[p] \in DOMAIN t.items
  BY <1>1
<1>4. ASSUME NEW p \in 1 .. l PROVE PhraseOf(t, t.items[o[p]]) = Told(t, o[p])
  BY <1>3, ToldForm
<1>5. PhrasesOf(t) = [p \in 1 .. l |-> Told(t, o[p])]
  BY <1>2, <1>3, <1>4
<1>6. \A p \in 1 .. l : Told(t, o[p]) \in PhrasesSet(t)
  BY <1>3 DEF PhrasesSet
<1> HIDE DEF l
<1>7. PhrasesOf(t) \in Seq(PhrasesSet(t)) /\ Len(PhrasesOf(t)) = l /\ DOMAIN PhrasesOf(t) = 1 .. l
  BY <1>3, <1>5, <1>6
<1> QED
  BY <1>1, <1>3, <1>5, <1>7 DEF o, l

LEMMA PhrasesSame ==
  ASSUME NEW t, Good(t), Filed(t), NEW u, Good(u), Filed(u), Keeps(t, u), u.items = t.items, u.lastItem = t.lastItem
  PROVE  PhrasesOf(u) = PhrasesOf(t)
<1>1. Order(u) = Order(t)
  BY DEF Order
<1>2. Onto(t, u)
  BY DEF Onto
<1>3. ASSUME NEW i \in DOMAIN t.items PROVE Told(u, i) = Told(t, i)
  <2>1. Told(u, i) = [dict |-> Told(t, i).dict, key |-> Told(t, i).key,
                      owner |-> Told(t, i).owner, permanent |-> Told(t, i).permanent,
                      payload |-> u.items[i].bytes - 1]
    BY <1>2, ToldOnto
  <2> QED
    BY <2>1 DEF Told
<1> DEFINE X == PhrasesSet(t) \cup PhrasesSet(u)
<1> DEFINE l == Len(Order(t))
<1>4. /\ PhrasesOf(t) \in Seq(X) /\ PhrasesOf(u) \in Seq(X) /\ Len(PhrasesOf(t)) = l /\ Len(PhrasesOf(u)) = l
      /\ \A p \in 1 .. l : Order(t)[p] \in DOMAIN t.items /\ PhrasesOf(t)[p] = Told(t, Order(t)[p])
      /\ \A p \in 1 .. l : PhrasesOf(u)[p] = Told(u, Order(t)[p])
  BY <1>1, PhrasesForm
<1> HIDE DEF X, l
<1>5. \A p \in 1 .. l : PhrasesOf(u)[p] = PhrasesOf(t)[p]
  BY <1>3, <1>4
<1> QED
  BY <1>4, <1>5, SameSeq

LEMMA PhrasesLonger ==
  ASSUME NEW t, Good(t), Filed(t), NEW u, Good(u), Filed(u), Onto(t, u), NEW a \in DOMAIN u.items,
         Order(u) = Append(Order(t), a), \A i \in DOMAIN t.items : u.items[i].bytes = t.items[i].bytes
  PROVE  PhrasesOf(u) = Append(PhrasesOf(t), Told(u, a))
<1>1. ASSUME NEW i \in DOMAIN t.items PROVE Told(u, i) = Told(t, i)
  <2>1. Told(u, i) = [dict |-> Told(t, i).dict, key |-> Told(t, i).key,
                      owner |-> Told(t, i).owner, permanent |-> Told(t, i).permanent,
                      payload |-> u.items[i].bytes - 1]
    BY ToldOnto
  <2> QED
    BY <2>1 DEF Told
<1> DEFINE X == PhrasesSet(t) \cup PhrasesSet(u)
<1> DEFINE l == Len(Order(t))
<1>2. /\ PhrasesOf(t) \in Seq(X) /\ Len(PhrasesOf(t)) = l /\ l \in Nat
      /\ \A p \in 1 .. l : Order(t)[p] \in DOMAIN t.items /\ PhrasesOf(t)[p] = Told(t, Order(t)[p])
  BY PhrasesForm
<1>3. Order(t) \in Seq(DOMAIN t.items) /\ a \in DOMAIN u.items
  BY DEF Filed, Listed
<1>4. Len(Order(u)) = l + 1 /\ Order(u)[l + 1] = a /\ \A p \in 1 .. l : Order(u)[p] = Order(t)[p]
  <2> DEFINE o == Order(t)
  <2>1. o \in Seq(DOMAIN t.items) /\ Order(u) = Append(o, a) /\ l = Len(o)
    BY <1>3
  <2> HIDE DEF o, l
  <2> QED
    BY <2>1 DEF o
<1>5. /\ PhrasesOf(u) \in Seq(X) /\ Len(PhrasesOf(u)) = l + 1
      /\ \A p \in 1 .. l + 1 : PhrasesOf(u)[p] = Told(u, Order(u)[p])
  BY <1>4, PhrasesForm
<1>6. Told(u, a) \in X
  BY DEF PhrasesSet
<1> HIDE DEF X, l
<1>7. PhrasesOf(u)[l + 1] = Told(u, a)
  BY <1>2, <1>4, <1>5
<1>8. ASSUME NEW p \in 1 .. l PROVE PhrasesOf(u)[p] = PhrasesOf(t)[p]
  <2>1. p \in 1 .. l + 1
    BY <1>2
  <2> QED
    BY <1>1, <1>2, <1>4, <1>5, <2>1
<1> QED
  BY <1>2, <1>5, <1>6, <1>7, <1>8, AppendedIs

(* The newest phrase takes payload. *)
LEMMA PhrasesFuller ==
  ASSUME NEW t, Good(t), Filed(t), NEW u, Good(u), Filed(u), Onto(t, u), DOMAIN u.items = DOMAIN t.items,
         Order(u) = Order(t), t.lastItem # 0,
         u.items[t.lastItem].bytes = t.items[t.lastItem].bytes + 1,
         \A i \in DOMAIN t.items : i # t.lastItem => u.items[i].bytes = t.items[i].bytes
  PROVE  /\ PhrasesOf(t) # <<>>
         /\ PhrasesOf(u) = [PhrasesOf(t) EXCEPT ![Len(PhrasesOf(t))].payload = @ + 1]
         /\ \A p \in DOMAIN PhrasesOf(t) : p # Len(PhrasesOf(t)) => PhrasesOf(u)[p] = PhrasesOf(t)[p]
<1> DEFINE l == Len(Order(t))
<1> DEFINE last == t.lastItem
<1>1. last \in DOMAIN t.items
  BY ItemsDown
<1>2. /\ PhrasesOf(t) \in Seq(PhrasesSet(t)) /\ Len(PhrasesOf(t)) = l /\ l \in Nat /\ DOMAIN PhrasesOf(t) = 1 .. l
      /\ \A p \in 1 .. l : Order(t)[p] \in DOMAIN t.items /\ PhrasesOf(t)[p] = Told(t, Order(t)[p])
      /\ PhrasesOf(u) \in Seq(PhrasesSet(u)) /\ Len(PhrasesOf(u)) = l /\ DOMAIN PhrasesOf(u) = 1 .. l
      /\ \A p \in 1 .. l : PhrasesOf(u)[p] = Told(u, Order(t)[p])
  BY PhrasesForm
<1>3. Order(t)[l] = last /\ l # 0
  <2> DEFINE s == Chain(t.items, t.items[last].earlier)
  <2> DEFINE X == DOMAIN t.items
  <2>1. Chain(t.items, last) = <<last>> \o s
    BY <1>1, ItemsDown, ChainForm
  <2>2. t.items[last].earlier \in DOMAIN t.items \cup {0}
    BY <1>1, ItemsDown
  <2>3. s \in Seq(X) /\ last \in X
    BY <1>1, <2>2, ItemsDown, ChainSeq
  <2> HIDE DEF s, X
  <2>4. Reverse(<<last>> \o s) = Append(Reverse(s), last) /\ Reverse(s) \in Seq(X) /\ Len(Reverse(s)) = Len(s)
    BY <2>3, ReverseLonger
  <2>5. Order(t) = Append(Reverse(s), last)
    BY <2>1, <2>4 DEF Order
  <2>6. Len(Order(t)) = Len(s) + 1 /\ Order(t)[Len(s) + 1] = last /\ Len(s) \in Nat
    BY <2>3, <2>4, <2>5
  <2> QED
    BY <2>6
<1>4. ASSUME NEW p \in 1 .. l, p # l PROVE Order(t)[p] # last
  <2>1. \A q \in 1 .. l : Position(t, Order(t)[q]) = q
    BY <1>2, PhrasesForm DEF Filed, Listed
  <2>2. l \in 1 .. l
    BY <1>2, <1>3
  <2> QED
    BY <1>3, <1>4, <2>1, <2>2
<1>5. ASSUME NEW i \in DOMAIN t.items
      PROVE  Told(u, i) = [dict |-> Told(t, i).dict, key |-> Told(t, i).key,
                           owner |-> Told(t, i).owner, permanent |-> Told(t, i).permanent,
                           payload |-> u.items[i].bytes - 1]
  BY ToldOnto
<1>6. ASSUME NEW i \in DOMAIN t.items, i # last PROVE Told(u, i) = Told(t, i)
  BY <1>5, <1>6 DEF Told
<1>7. Told(u, last) = [Told(t, last) EXCEPT !.payload = @ + 1]
  <2>1. t.items[last].bytes \in Nat
    <3>1. t.items[last] \in Item
      BY <1>1 DEF Good, Linked, Typed
    <3> QED
      BY <3>1 DEF Item
  <2>2. (t.items[last].bytes + 1) - 1 = (t.items[last].bytes - 1) + 1
    BY <2>1
  <2>3. u.items[last].bytes - 1 = Told(t, last).payload + 1
    BY <2>2 DEF Told
  <2> QED
    BY <1>1, <1>5, <2>3 DEF Told
<1> HIDE DEF l, last
<1>8. ASSUME NEW p \in 1 .. l, p # l PROVE PhrasesOf(u)[p] = PhrasesOf(t)[p]
  BY <1>2, <1>4, <1>6, <1>8
<1>9. l \in 1 .. l /\ PhrasesOf(u)[l] = [PhrasesOf(t)[l] EXCEPT !.payload = @ + 1]
  <2>1. l \in 1 .. l
    BY <1>2, <1>3
  <2> QED
    BY <1>2, <1>3, <1>7, <2>1
<1>10. PhrasesOf(u) = [PhrasesOf(t) EXCEPT ![l].payload = @ + 1]
  <2> DEFINE f == PhrasesOf(t)
  <2> DEFINE g == PhrasesOf(u)
  <2> DEFINE x == [f[l] EXCEPT !.payload = @ + 1]
  <2>1. f = [p \in 1 .. l |-> f[p]] /\ g = [p \in 1 .. l |-> g[p]]
    BY <1>2
  <2>2. g[l] = x /\ \A p \in 1 .. l : p # l => g[p] = f[p]
    BY <1>8, <1>9
  <2>3. [f EXCEPT ![l].payload = @ + 1] = [f EXCEPT ![l] = x]
    OBVIOUS
  <2> HIDE DEF x
  <2>4. [f EXCEPT ![l].payload = @ + 1] = [f EXCEPT ![l] = x]
    BY <2>3
  <2> HIDE DEF f, g
  <2>5. g = [f EXCEPT ![l] = x]
    BY <1>9, <2>1, <2>2
  <2>6. g = [f EXCEPT ![l].payload = @ + 1]
    BY <2>4, <2>5
  <2> QED
    BY <2>6 DEF f, g
<1>11. PhrasesOf(t) # <<>>
  BY <1>2, <1>3
<1>12. Len(PhrasesOf(t)) = l /\ DOMAIN PhrasesOf(t) = 1 .. l
  BY <1>2
<1> QED
  BY <1>8, <1>10, <1>11, <1>12

LEMMA RetoldFiled ==
  ASSUME NEW t, Good(t), Filed(t), NEW i \in DOMAIN t.items, NEW u, Retold(t, u, i), Good(u),
         \A n \in Nat : n \in Dictionaries(u) <=> n \in Dictionaries(t) \cup (DOMAIN u.nodes \ DOMAIN t.nodes)
  PROVE  Filed(u) /\ Keeps(t, u) /\ Order(u) = Order(t)
<1> DEFINE new == DOMAIN u.nodes \ DOMAIN t.nodes
<1>1. /\ DOMAIN t.nodes \subseteq DOMAIN u.nodes /\ \A k \in DOMAIN t.nodes : u.nodes[k] = t.nodes[k]
      /\ \A k \in new : u.nodes[k] = Embedded
      /\ DOMAIN u.items = DOMAIN t.items /\ u.keys = t.keys /\ u.lastItem = t.lastItem
      /\ \A j \in DOMAIN t.items : u.items[j].node = t.items[j].node /\ u.items[j].earlier = t.items[j].earlier
  BY DEF Retold
<1>2. Held(t) /\ Listed(t) /\ Upward(t, Keys(t), Roots(t)) /\ Linked(t) /\ Typed(t) /\ 0 \in DOMAIN t.keys
  BY DEF Filed, Good, Linked
<1> HIDE DEF new
<1>3. ASSUME NEW k \in new PROVE u.nodes[k].parent = 0 /\ Edge(u, k) = <<>>
  <2>1. /\ u.nodes[k].parent = 0 /\ u.nodes[k].cell = 0 /\ u.nodes[k].fore = 0 /\ u.nodes[k].rear = 0
    BY <1>1 DEF Embedded
  <2>2. t.keys[0] \in Seq(Bits)
    BY <1>2 DEF Typed
  <2>3. Edge(u, k) = SubSeq(t.keys[0], 1, 0)
    BY <1>1, <2>1 DEF Edge
  <2>4. SubSeq(t.keys[0], 1, 0) = <<>>
    BY <2>2
  <2> QED
    BY <2>1, <2>3, <2>4
<1>4. ASSUME NEW k \in DOMAIN t.nodes
      PROVE  Edge(u, k) = Edge(t, k) /\ Children(u, k) = Children(t, k) /\ t.nodes[k].parent \in DOMAIN t.nodes \cup {0}
  BY <1>1, <1>2 DEF Edge, Children, Linked, NodeLinks
<1>5. Held(u)
  <2> SUFFICES ASSUME NEW k \in DOMAIN u.nodes, u.nodes[k].parent # 0 PROVE k \in Children(u, u.nodes[k].parent)
    BY DEF Held
  <2>1. k \in DOMAIN t.nodes
    BY <1>3 DEF new
  <2>2. u.nodes[k].parent = t.nodes[k].parent /\ t.nodes[k].parent \in DOMAIN t.nodes
    BY <1>1, <1>4, <2>1
  <2> QED
    BY <1>2, <1>4, <2>1, <2>2 DEF Held
<1> DEFINE key == [k \in DOMAIN u.nodes |-> IF k \in new THEN <<>> ELSE Keys(t)[k]]
<1> DEFINE root == [k \in DOMAIN u.nodes |-> IF k \in new THEN k ELSE Roots(t)[k]]
<1>6. /\ \A k \in DOMAIN t.nodes : key[k] = Keys(t)[k] /\ root[k] = Roots(t)[k]
      /\ \A k \in new : key[k] = <<>> /\ root[k] = k
  BY <1>1 DEF new
<1>7. Upward(u, key, root)
  <2>1. Keys(t) \in [DOMAIN t.nodes -> Seq(Bits)] /\ Roots(t) \in [DOMAIN t.nodes -> DOMAIN t.nodes]
    BY <1>2 DEF Upward
  <2>2. key \in [DOMAIN u.nodes -> Seq(Bits)] /\ root \in [DOMAIN u.nodes -> DOMAIN u.nodes]
    BY <1>1, <2>1 DEF new
  <2> HIDE DEF key, root
  <2>3. ASSUME NEW k \in DOMAIN t.nodes
        PROVE  LET p == u.nodes[k].parent IN
               IF p = 0 THEN key[k] = <<>> /\ root[k] = k /\ Edge(u, k) = <<>>
               ELSE key[k] = key[p] \o Edge(u, k) /\ root[k] = root[p]
    <3>1. /\ t.nodes[k].parent = 0 => Keys(t)[k] = <<>> /\ Roots(t)[k] = k /\ Edge(t, k) = <<>>
          /\ t.nodes[k].parent # 0 =>
               /\ t.nodes[k].parent \in DOMAIN t.nodes
               /\ Keys(t)[k] = Keys(t)[t.nodes[k].parent] \o Edge(t, k)
               /\ Roots(t)[k] = Roots(t)[t.nodes[k].parent]
      BY UpwardForm
    <3>2. u.nodes[k].parent = t.nodes[k].parent /\ Edge(u, k) = Edge(t, k)
      BY <1>1, <1>4
    <3>3. CASE t.nodes[k].parent = 0
      BY <1>6, <3>1, <3>2, <3>3
    <3>4. CASE t.nodes[k].parent # 0
      BY <1>6, <3>1, <3>2, <3>4
    <3> QED
      BY <3>3, <3>4
  <2>4. ASSUME NEW k \in new
        PROVE  LET p == u.nodes[k].parent IN
               IF p = 0 THEN key[k] = <<>> /\ root[k] = k /\ Edge(u, k) = <<>>
               ELSE key[k] = key[p] \o Edge(u, k) /\ root[k] = root[p]
    BY <1>3, <1>6
  <2> QED
    BY <2>2, <2>3, <2>4 DEF Upward, new
<1> HIDE DEF key, root
<1>8. Keys(u) = key /\ Roots(u) = root
  BY <1>5, <1>7, UpwardIs
<1>9. Keeps(t, u) /\ Upward(u, Keys(u), Roots(u))
  BY <1>1, <1>6, <1>7, <1>8 DEF Keeps
<1>10. Order(u) = Order(t) /\ Listed(u)
  BY <1>1, <1>2, OrderSame
<1>11. ASSUME NEW n \in Nat PROVE n \in Dictionaries(u) <=> n \in DOMAIN u.nodes /\ u.nodes[n].parent = 0
  <2>1. n \in Dictionaries(t) <=> n \in DOMAIN t.nodes /\ t.nodes[n].parent = 0
    BY DEF Filed
  <2>2. n \in Dictionaries(u) <=> n \in Dictionaries(t) \/ n \in new
    BY DEF new
  <2>3. n \in DOMAIN u.nodes <=> n \in DOMAIN t.nodes \/ n \in new
    BY <1>1 DEF new
  <2> QED
    BY <1>1, <1>3, <2>1, <2>2, <2>3
<1>12. ASSUME NEW j \in DOMAIN u.items PROVE j <= u.nodes[u.items[j].node].item
  <2>1. t.items[j].node \in DOMAIN t.nodes /\ j <= t.nodes[t.items[j].node].item
    BY <1>1, <1>2 DEF Filed, Linked, ItemLinks
  <2> QED
    BY <1>1, <2>1
<1> QED
  BY <1>5, <1>9, <1>10, <1>11, <1>12 DEF Filed

LEMMA PushedFiled ==
  ASSUME NEW t, Good(t), Filed(t), NEW n \in DOMAIN t.nodes
  PROVE  Filed(Pushed(t, n)) /\ Keeps(t, Pushed(t, n)) /\ Order(Pushed(t, n)) = Append(Order(t), t.end)
<1> DEFINE u == Pushed(t, n)
<1> DEFINE a == t.end
<1>1. Linked(t) /\ Typed(t) /\ Good(u) /\ Held(t) /\ Listed(t) /\ Upward(t, Keys(t), Roots(t))
  BY PushedGood DEF Good, Linked, Filed
<1>2. a \in Nat /\ a \notin DOMAIN t.items /\ \A j \in DOMAIN t.items : j \in Nat /\ j < a
  BY <1>1 DEF Good, Typed
<1>3. /\ DOMAIN u.nodes = DOMAIN t.nodes /\ DOMAIN u.items = DOMAIN t.items \cup {a}
      /\ u.keys = t.keys /\ u.lastItem = a
      /\ u.items[a].node = n /\ u.items[a].earlier = t.lastItem /\ u.items[a].owner = FALSE
  <2>1. u.items[a] = [node |-> n, prev |-> t.nodes[n].item, next |-> 0, earlier |-> t.lastItem,
                      bytes |-> 0, owner |-> FALSE, permanent |-> FALSE]
    BY PushedFields
  <2> QED
    BY <2>1, PushedFields
<1>4. ASSUME NEW k \in DOMAIN t.nodes
      PROVE  /\ u.nodes[k].parent = t.nodes[k].parent /\ Children(u, k) = Children(t, k)
             /\ u.nodes[k].item = (IF k = n THEN a ELSE t.nodes[k].item) /\ Edge(u, k) = Edge(t, k)
             /\ t.nodes[k].parent \in DOMAIN t.nodes \cup {0}
  <2>1. /\ u.nodes[k].parent = t.nodes[k].parent /\ u.nodes[k].smaller = t.nodes[k].smaller
        /\ u.nodes[k].greater = t.nodes[k].greater /\ u.nodes[k].item = (IF k = n THEN a ELSE t.nodes[k].item)
        /\ u.nodes[k].cell = t.nodes[k].cell /\ u.nodes[k].fore = t.nodes[k].fore /\ u.nodes[k].rear = t.nodes[k].rear
    BY DEF Pushed
  <2>2. t.nodes[k].parent \in DOMAIN t.nodes \cup {0}
    BY <1>1 DEF Linked, NodeLinks
  <2> HIDE DEF u
  <2> QED
    BY <1>3, <2>1, <2>2 DEF Edge, Children
<1>5. ASSUME NEW j \in DOMAIN t.items
      PROVE  u.items[j].node = t.items[j].node /\ u.items[j].earlier = t.items[j].earlier /\ u.items[j].owner = t.items[j].owner
  BY <1>2 DEF Pushed
<1> HIDE DEF u, a
<1>6. Held(u)
  <2> SUFFICES ASSUME NEW k \in DOMAIN t.nodes, u.nodes[k].parent # 0 PROVE k \in Children(u, u.nodes[k].parent)
    BY <1>3 DEF Held
  <2>1. u.nodes[k].parent = t.nodes[k].parent /\ t.nodes[k].parent \in DOMAIN t.nodes
    BY <1>4
  <2> QED
    BY <1>1, <1>4, <2>1 DEF Held
<1>7. Upward(u, Keys(t), Roots(t))
  <2>1. Keys(t) \in [DOMAIN u.nodes -> Seq(Bits)] /\ Roots(t) \in [DOMAIN u.nodes -> DOMAIN u.nodes]
    BY <1>1, <1>3 DEF Upward
  <2>2. ASSUME NEW k \in DOMAIN t.nodes
        PROVE  LET p == u.nodes[k].parent IN
               IF p = 0 THEN Keys(t)[k] = <<>> /\ Roots(t)[k] = k /\ Edge(u, k) = <<>>
               ELSE Keys(t)[k] = Keys(t)[p] \o Edge(u, k) /\ Roots(t)[k] = Roots(t)[p]
    <3>1. LET p == t.nodes[k].parent IN
          IF p = 0 THEN Keys(t)[k] = <<>> /\ Roots(t)[k] = k /\ Edge(t, k) = <<>>
          ELSE Keys(t)[k] = Keys(t)[p] \o Edge(t, k) /\ Roots(t)[k] = Roots(t)[p]
      BY <1>1 DEF Upward
    <3> QED
      BY <1>4, <3>1
  <2> QED
    BY <1>3, <2>1, <2>2 DEF Upward
<1>8. Keys(u) = Keys(t) /\ Roots(u) = Roots(t)
  BY <1>1, <1>6, <1>7, UpwardIs
<1>9. Keeps(t, u) /\ Upward(u, Keys(u), Roots(u))
  BY <1>3, <1>7, <1>8 DEF Keeps
<1>10. Order(u) = Append(Order(t), a) /\ Listed(u)
  <2>1. a >= t.end
    BY <1>2 DEF a
  <2> QED
    BY <1>1, <1>2, <1>3, <1>5, <2>1, OrderLonger
<1>11. {j \in DOMAIN u.items : u.items[j].owner} = {j \in DOMAIN t.items : t.items[j].owner}
  BY <1>2, <1>3, <1>5
<1>12. Dictionaries(u) = Dictionaries(t)
  BY <1>11 DEF Dictionaries
<1>13. ASSUME NEW k \in Nat PROVE k \in Dictionaries(u) <=> k \in DOMAIN u.nodes /\ u.nodes[k].parent = 0
  BY <1>3, <1>4, <1>12 DEF Filed
<1>14. ASSUME NEW j \in DOMAIN u.items PROVE j <= u.nodes[u.items[j].node].item
  <2>1. CASE j = a
    BY <1>2, <1>3, <1>4, <2>1
  <2>2. CASE j \in DOMAIN t.items
    <3>1. t.items[j].node \in DOMAIN t.nodes /\ j <= t.nodes[t.items[j].node].item /\ j <= a
      BY <1>1, <1>2, <2>2 DEF Filed, Linked, ItemLinks
    <3> QED
      BY <1>4, <1>5, <2>2, <3>1
  <2> QED
    BY <1>3, <2>1, <2>2
<1> QED
  BY <1>6, <1>9, <1>10, <1>13, <1>14 DEF Filed, u, a

LEMMA ExtendedFiled ==
  ASSUME NEW t, Good(t), Packed(t), Filed(t), NEW i \in DOMAIN t.items, t.lastItem = i
  PROVE  Filed(Extended(t, i)) /\ Keeps(t, Extended(t, i)) /\ Order(Extended(t, i)) = Order(t)
<1> DEFINE u == Extended(t, i)
<1>1. Retold(t, u, i) /\ Good(u) /\ u.items[i].owner = t.items[i].owner
  BY ExtendedGood
<1>2. u.nodes = t.nodes
  BY DEF Extended
<1> HIDE DEF u
<1>3. DOMAIN u.items = DOMAIN t.items /\ \A j \in DOMAIN t.items : u.items[j].owner = t.items[j].owner
  BY <1>1 DEF Retold
<1>4. {j \in DOMAIN u.items : u.items[j].owner} = {j \in DOMAIN t.items : t.items[j].owner}
  BY <1>3
<1>5. Dictionaries(u) = Dictionaries(t)
  BY <1>4 DEF Dictionaries
<1> QED
  BY <1>1, <1>2, <1>5, RetoldFiled DEF u

LEMMA DescribedFiled ==
  ASSUME NEW t, Good(t), Packed(t), Filed(t), NEW i \in DOMAIN t.items, t.items[i].bytes >= 1, t.items[i].owner = FALSE,
         NEW kind \in [owner : BOOLEAN, permanent : BOOLEAN]
  PROVE  LET u == Described(t, i, kind) IN
         /\ Filed(u) /\ Keeps(t, u) /\ Order(u) = Order(t)
         /\ u.items[i].owner = kind.owner /\ u.items[i].permanent = kind.permanent /\ u.items[i].bytes = t.items[i].bytes
<1> DEFINE u == Described(t, i, kind)
<1>1. Retold(t, u, i) /\ Good(u)
  BY DescribedGood
<1>2. i \in Nat /\ t.items[i].bytes \in Nat
  <2>1. t.items[i] \in Item
    BY DEF Good, Linked, Typed
  <2> QED
    BY <2>1 DEF Item, Good, Linked, Typed
<1>3. i + 1 \notin DOMAIN t.nodes
  <2>1. ItemGood(t, i)
    BY DEF Good
  <2>2. i < i + 1 /\ i + 1 <= i + t.items[i].bytes /\ i + 1 \in Nat
    BY <1>2
  <2> QED
    BY <2>1, <2>2 DEF ItemGood
<1>4. /\ DOMAIN u.nodes = IF kind.owner THEN DOMAIN t.nodes \cup {i + 1} ELSE DOMAIN t.nodes
      /\ u.items[i].owner = kind.owner /\ u.items[i].permanent = kind.permanent /\ u.items[i].bytes = t.items[i].bytes
  BY DEF Described, Put
<1> HIDE DEF u
<1>5. DOMAIN u.items = DOMAIN t.items /\ \A j \in DOMAIN t.items : j # i => u.items[j].owner = t.items[j].owner
  BY <1>1 DEF Retold
<1>6. DOMAIN u.nodes \ DOMAIN t.nodes = IF kind.owner THEN {i + 1} ELSE {}
  BY <1>3, <1>4
<1>7. {j \in DOMAIN u.items : u.items[j].owner} = {j \in DOMAIN t.items : t.items[j].owner} \cup (IF kind.owner THEN {i} ELSE {})
  <2>1. CASE kind.owner
    BY <1>4, <1>5, <2>1
  <2>2. CASE ~kind.owner
    BY <1>4, <1>5, <2>2
  <2> QED
    BY <2>1, <2>2
<1>8. \A x : x \in Dictionaries(u) <=> x \in Dictionaries(t) \/ x \in DOMAIN u.nodes \ DOMAIN t.nodes
  <2>1. CASE kind.owner
    BY <1>6, <1>7, <2>1 DEF Dictionaries
  <2>2. CASE ~kind.owner
    BY <1>6, <1>7, <2>2 DEF Dictionaries
  <2> QED
    BY <2>1, <2>2
<1>9. Filed(u) /\ Keeps(t, u) /\ Order(u) = Order(t)
  BY <1>1, <1>8, RetoldFiled
<1> QED
  BY <1>4, <1>9 DEF u

(* What saving a phrase on a node amounts to when memory suffices.          *)
LEMMA SavePhraseForm ==
  ASSUME NEW t, Good(t), NEW n \in DOMAIN t.nodes, NEW kind \in [owner : BOOLEAN, permanent : BOOLEAN],
         SavePhrase(t, n, kind).at # 0
  PROVE  LET p == Pushed(t, n)
             s == Extended(p, t.end) IN
         /\ SavePhrase(t, n, kind) = Result(Described(s, t.end, kind), t.end)
         /\ Good(p) /\ Packed(p) /\ p.lastItem = t.end /\ t.end \in DOMAIN p.items /\ p.items[t.end].bytes = 0
         /\ p.items[t.end].owner = FALSE /\ p.items[t.end].node = n
         /\ Retold(p, s, t.end) /\ Good(s) /\ Packed(s) /\ s.items[t.end].bytes = 1 /\ s.items[t.end].owner = FALSE
         /\ t.end \in DOMAIN s.items /\ Retold(s, Described(s, t.end, kind), t.end) /\ Good(Described(s, t.end, kind))
<1> DEFINE a == t.end
<1> DEFINE p == Pushed(t, n)
<1> DEFINE s == Extended(p, a)
<1> DEFINE pushed == PushItem(t, n)
<1> DEFINE saved == AllocateContent(pushed.tree, pushed.at)
<1>1. SavePhrase(t, n, kind) = SaveMetadata(pushed, saved, kind)
  BY DEF SavePhrase, SaveItem
<1>2. pushed.at # 0 /\ saved.at # 0
  <2> SUFFICES ASSUME pushed.at = 0 \/ saved.at = 0 PROVE FALSE
    OBVIOUS
  <2>1. SaveMetadata(pushed, saved, kind) = Result(pushed.tree, 0)
    BY DEF SaveMetadata
  <2> HIDE DEF pushed, saved
  <2> QED
    BY <1>1, <2>1, ResultForm
<1>3. pushed.at = a /\ pushed.tree = p
  BY <1>2, PushItemForm, ResultForm
<1>4. Good(p) /\ Packed(p) /\ Typed(p)
  BY PushedGood DEF Good, Linked
<1>5. /\ p.lastItem = a /\ a \in DOMAIN p.items
      /\ p.items[a] = [node |-> n, prev |-> t.nodes[n].item, next |-> 0, earlier |-> t.lastItem,
                       bytes |-> 0, owner |-> FALSE, permanent |-> FALSE]
  BY PushedFields
<1> HIDE DEF p, pushed
<1>6. p.items[a].bytes = 0 /\ p.items[a].owner = FALSE /\ p.items[a].node = n
  BY <1>5
<1>7. saved = Result(Extended(p, a), p.end)
  <2>1. saved = IF p.lastItem # a \/ p.end + 1 > program.memory THEN Result(p, 0) ELSE Result(Extended(p, a), p.end)
    BY <1>3, <1>4, AllocateContentForm
  <2> HIDE DEF saved
  <2> QED
    BY <1>2, <2>1, ResultForm
<1>8. /\ Retold(p, s, a) /\ Good(s) /\ Packed(s)
      /\ s.items[a].bytes = p.items[a].bytes + 1 /\ s.items[a].owner = p.items[a].owner
  BY <1>4, <1>5, ExtendedGood
<1>9. saved.tree = s /\ s.items[a].bytes = 1 /\ s.items[a].owner = FALSE /\ Typed(s) /\ a \in DOMAIN s.items
  <2>1. saved.tree = s
    BY <1>7, ResultForm
  <2>2. Typed(s)
    BY <1>8 DEF Good, Linked
  <2>3. a \in DOMAIN s.items
    BY <1>5 DEF Extended
  <2> HIDE DEF s
  <2> QED
    BY <1>6, <1>8, <2>1, <2>2, <2>3
<1> HIDE DEF s, saved
<1>10. SaveMetadata(pushed, saved, kind) = Result(Described(s, a, kind), a)
  BY <1>2, <1>3, <1>9, SaveMetadataForm
<1>11. Retold(s, Described(s, a, kind), a) /\ Good(Described(s, a, kind))
  <2>1. s.items[a].bytes >= 1
    BY <1>9
  <2> QED
    BY <1>8, <1>9, <2>1, DescribedGood
<1> QED
  BY <1>1, <1>4, <1>5, <1>6, <1>8, <1>9, <1>10, <1>11 DEF p, s


(* A phrase saved on a node is the newest one, told by the name of the      *)
(* node, and no other changes.                                              *)
LEMMA SavePhraseTells ==
  ASSUME NEW t, Good(t), Filed(t), NEW n \in DOMAIN t.nodes, NEW kind \in [owner : BOOLEAN, permanent : BOOLEAN],
         SavePhrase(t, n, kind).at # 0
  PROVE  LET w == SavePhrase(t, n, kind).tree IN
         /\ Good(w) /\ Filed(w) /\ DOMAIN w.items = DOMAIN t.items \cup {t.end}
         /\ PhrasesOf(w) = Append(PhrasesOf(t), [dict |-> DictionaryOf(t, Roots(t)[n]), key |-> Keys(t)[n],
                                                 owner |-> kind.owner, permanent |-> kind.permanent, payload |-> 0])
<1> DEFINE a == t.end
<1> DEFINE p == Pushed(t, n)
<1> DEFINE s == Extended(p, a)
<1> DEFINE w == Described(s, a, kind)
<1>1. /\ SavePhrase(t, n, kind) = Result(w, a)
      /\ Good(p) /\ Packed(p) /\ p.lastItem = a /\ a \in DOMAIN p.items /\ p.items[a].node = n
      /\ Retold(p, s, a) /\ Good(s) /\ Packed(s) /\ s.items[a].bytes = 1 /\ s.items[a].owner = FALSE
      /\ a \in DOMAIN s.items /\ Retold(s, w, a) /\ Good(w)
  BY SavePhraseForm
<1>2. SavePhrase(t, n, kind).tree = w
  BY <1>1, ResultForm
<1>3. Filed(p) /\ Keeps(t, p) /\ Order(p) = Append(Order(t), a)
  BY PushedFiled
<1>4. DOMAIN p.items = DOMAIN t.items \cup {a} /\ a \notin DOMAIN t.items
  <2>1. DOMAIN p.items = DOMAIN t.items \cup {a}
    BY PushedFields
  <2>2. a \notin DOMAIN t.items
    BY ItemsDown
  <2> QED
    BY <2>1, <2>2
<1>5. ASSUME NEW j \in DOMAIN t.items
      PROVE  /\ p.items[j].node = t.items[j].node /\ p.items[j].bytes = t.items[j].bytes
             /\ p.items[j].owner = t.items[j].owner /\ p.items[j].permanent = t.items[j].permanent
  BY <1>4 DEF Pushed
<1>6. ASSUME NEW j \in DOMAIN t.items
      PROVE  /\ s.items[j] = p.items[j] /\ w.items[j] = s.items[j]
  <2>1. j # a /\ j \in DOMAIN p.items
    BY <1>4
  <2>2. s.items = [p.items EXCEPT ![a].bytes = @ + 1]
    BY DEF Extended
  <2>3. s.items[j] = p.items[j] /\ DOMAIN s.items = DOMAIN p.items
    <3> HIDE DEF s, p, a
    <3> QED
      BY <2>1, <2>2
  <2>4. w.items[j] = s.items[j]
    <3> HIDE DEF s, p, a
    <3> QED
      BY <2>1, <2>3 DEF Described
  <2> QED
    BY <2>3, <2>4
<1> HIDE DEF p
<1>7. Filed(s) /\ Keeps(p, s) /\ Order(s) = Order(p)
  BY <1>1, <1>3, ExtendedFiled
<1> HIDE DEF s
<1>8. /\ Filed(w) /\ Keeps(s, w) /\ Order(w) = Order(s)
      /\ w.items[a].owner = kind.owner /\ w.items[a].permanent = kind.permanent /\ w.items[a].bytes = s.items[a].bytes
  <2>1. s.items[a].bytes >= 1
    BY <1>1
  <2> QED
    BY <1>1, <1>7, <2>1, DescribedFiled
<1> HIDE DEF w
<1>9. DOMAIN w.items = DOMAIN t.items \cup {a} /\ w.items[a].node = n
  BY <1>1, <1>4 DEF Retold
<1>10. Onto(t, w)
  <2>1. Keeps(t, w)
    BY <1>3, <1>7, <1>8, KeepsKeeps
  <2>2. a \in Nat /\ a >= t.end
    BY DEF Good, Linked, Typed
  <2> QED
    BY <1>5, <1>6, <1>9, <2>1, <2>2 DEF Onto
<1>11. PhrasesOf(w) = Append(PhrasesOf(t), Told(w, a))
  <2>1. \A j \in DOMAIN t.items : w.items[j].bytes = t.items[j].bytes
    BY <1>5, <1>6
  <2>2. Order(w) = Append(Order(t), a) /\ a \in DOMAIN w.items
    BY <1>3, <1>7, <1>8, <1>9
  <2> HIDE DEF a
  <2> QED
    BY <1>1, <1>8, <1>10, <2>1, <2>2, PhrasesLonger
<1>12. Told(w, a) = [dict |-> DictionaryOf(t, Roots(t)[n]), key |-> Keys(t)[n],
                     owner |-> kind.owner, permanent |-> kind.permanent, payload |-> 0]
  <2>1. Keys(w)[n] = Keys(t)[n] /\ Roots(w)[n] = Roots(t)[n]
    BY <1>10 DEF Onto, Keeps
  <2>2. DictionaryOf(w, Roots(t)[n]) = DictionaryOf(t, Roots(t)[n])
    BY <1>1, <1>10, UpwardForm, DictionaryOnto
  <2>3. w.items[a].bytes - 1 = 0
    BY <1>1, <1>8
  <2> QED
    BY <1>8, <1>9, <2>1, <2>2, <2>3 DEF Told
<1> QED
  BY <1>1, <1>2, <1>8, <1>9, <1>11, <1>12

(* The topmost node above a node is the root of a dictionary.               *)
LEMMA RootsAreDictionaries ==
  ASSUME NEW t, Good(t), Filed(t), NEW m \in DOMAIN t.nodes
  PROVE  Roots(t)[m] \in Dictionaries(t)
<1> DEFINE S == {l \in Nat : \A n \in DOMAIN t.nodes : Len(Keys(t)[n]) <= l => Roots(t)[n] \in Dictionaries(t)}
<1>1. ASSUME NEW n \in DOMAIN t.nodes, t.nodes[n].parent = 0 PROVE Roots(t)[n] \in Dictionaries(t)
  <2>1. Roots(t)[n] = n /\ n \in Nat
    BY <1>1, UpwardForm DEF Good, Linked, Typed
  <2> QED
    BY <1>1, <2>1 DEF Filed
<1>2. ASSUME NEW n \in DOMAIN t.nodes, t.nodes[n].parent # 0
      PROVE  \E p \in DOMAIN t.nodes :
             /\ Roots(t)[n] = Roots(t)[p]
             /\ Len(Keys(t)[p]) \in Nat /\ Len(Keys(t)[n]) \in Nat /\ Len(Keys(t)[p]) < Len(Keys(t)[n])
  <2> DEFINE p == t.nodes[n].parent
  <2> DEFINE e == Edge(t, n)
  <2>1. p \in DOMAIN t.nodes /\ e \in Seq(Bits) /\ Len(e) \in Nat /\ Len(e) > 0
    BY <1>2, EdgeOfChild DEF Filed
  <2>2. Keys(t)[n] = Keys(t)[p] \o e /\ Roots(t)[n] = Roots(t)[p] /\ Keys(t)[p] \in Seq(Bits)
    BY <1>2, <2>1, UpwardForm
  <2> HIDE DEF e, p
  <2>3. Len(Keys(t)[n]) = Len(Keys(t)[p]) + Len(e) /\ Len(Keys(t)[p]) \in Nat
    BY <2>1, <2>2, ConcatThree
  <2>4. Len(Keys(t)[n]) \in Nat /\ Len(Keys(t)[p]) < Len(Keys(t)[n])
    BY <2>1, <2>3
  <2> QED
    BY <2>1, <2>2, <2>3, <2>4
<1>3. ASSUME NEW n \in DOMAIN t.nodes PROVE Len(Keys(t)[n]) \in Nat
  BY UpwardForm
<1>4. 0 \in S
  <2> SUFFICES ASSUME NEW n \in DOMAIN t.nodes, Len(Keys(t)[n]) <= 0 PROVE Roots(t)[n] \in Dictionaries(t)
    OBVIOUS
  <2>1. \A i, j \in Nat : ~(i < j /\ j <= 0)
    OBVIOUS
  <2>2. t.nodes[n].parent = 0
    BY <1>2, <2>1
  <2> QED
    BY <1>1, <2>2
<1>5. ASSUME NEW l \in S PROVE l + 1 \in S
  <2>1. l \in Nat /\ l + 1 \in Nat
    OBVIOUS
  <2> SUFFICES ASSUME NEW n \in DOMAIN t.nodes, Len(Keys(t)[n]) <= l + 1 PROVE Roots(t)[n] \in Dictionaries(t)
    BY <2>1
  <2>2. CASE t.nodes[n].parent = 0
    BY <1>1, <2>2
  <2>3. CASE t.nodes[n].parent # 0
    <3>1. PICK p \in DOMAIN t.nodes :
             /\ Roots(t)[n] = Roots(t)[p]
             /\ Len(Keys(t)[p]) \in Nat /\ Len(Keys(t)[n]) \in Nat /\ Len(Keys(t)[p]) < Len(Keys(t)[n])
      BY <1>2, <2>3
    <3>2. Len(Keys(t)[p]) <= l
      BY <2>1, <3>1
    <3> QED
      BY <3>1, <3>2
  <2> QED
    BY <2>2, <2>3
<1>6. S = Nat
  <2>1. S \in SUBSET Nat
    OBVIOUS
  <2> HIDE DEF S
  <2> QED
    BY <1>4, <1>5, <2>1, SetInduction
<1>7. Len(Keys(t)[m]) \in S
  <2> HIDE DEF S
  <2> QED
    BY <1>3, <1>6
<1>8. Len(Keys(t)[m]) <= Len(Keys(t)[m])
  BY <1>3
<1> QED
  BY <1>7, <1>8

(* A dictionary is told by the place of the phrase that owns it.            *)
LEMMA DictionaryForm ==
  ASSUME NEW t, Good(t), Filed(t), NEW d \in Dictionaries(t)
  PROVE  /\ d = Root => DictionaryOf(t, d) = 0
         /\ d # Root => /\ d - 1 \in DOMAIN t.items /\ t.items[d - 1].owner
                        /\ DictionaryOf(t, d) = Position(t, d - 1)
                        /\ DictionaryOf(t, d) \in DOMAIN Order(t) /\ Order(t)[DictionaryOf(t, d)] = d - 1
                        /\ DictionaryOf(t, d) # 0
<1>1. d = Root => DictionaryOf(t, d) = 0
  BY DEF DictionaryOf
<1>2. ASSUME d # Root
      PROVE  /\ d - 1 \in DOMAIN t.items /\ t.items[d - 1].owner
             /\ DictionaryOf(t, d) = Position(t, d - 1)
             /\ DictionaryOf(t, d) \in DOMAIN Order(t) /\ Order(t)[DictionaryOf(t, d)] = d - 1
             /\ DictionaryOf(t, d) # 0
  <2>1. PICK j \in DOMAIN t.items : t.items[j].owner /\ d = j + 1
    BY <1>2 DEF Dictionaries
  <2>2. j \in Nat
    BY ItemsDown
  <2>3. d - 1 = j
    BY <2>1, <2>2
  <2>4. DictionaryOf(t, d) = Position(t, d - 1)
    BY <1>2 DEF DictionaryOf
  <2>5. Position(t, j) \in DOMAIN Order(t) /\ Order(t)[Position(t, j)] = j
    BY DEF Filed, Listed
  <2>6. DOMAIN Order(t) = 1 .. Len(Order(t)) /\ Len(Order(t)) \in Nat
    BY PhrasesForm
  <2>7. Position(t, j) # 0
    BY <2>5, <2>6
  <2> QED
    BY <2>1, <2>3, <2>4, <2>5, <2>7
<1> QED
  BY <1>1, <1>2

LEMMA DictionaryIs ==
  ASSUME NEW t, Good(t), Filed(t), NEW d \in Dictionaries(t), NEW e \in Dictionaries(t),
         DictionaryOf(t, d) = DictionaryOf(t, e)
  PROVE  d = e
<1>1. d \in Nat /\ e \in Nat
  BY FiledRoot
<1>2. CASE d = Root \/ e = Root
  BY <1>2, DictionaryForm
<1>3. CASE d # Root /\ e # Root
  <2>1. d - 1 = e - 1
    BY <1>3, DictionaryForm
  <2> QED
    BY <1>1, <2>1
<1> QED
  BY <1>2, <1>3

LEMMA DictionaryTold ==
  ASSUME NEW t, Good(t), Filed(t), NEW d \in Dictionaries(t)
  PROVE  /\ DictionaryOf(t, d) \in Nat
         /\ DictionaryOf(t, d) # 0 => DictionaryOf(t, d) \in DOMAIN PhrasesOf(t) /\ PhrasesOf(t)[DictionaryOf(t, d)].owner
<1>1. CASE d = Root
  BY <1>1, DictionaryForm
<1>2. CASE d # Root
  <2> DEFINE p == DictionaryOf(t, d)
  <2>1. p \in DOMAIN Order(t) /\ Order(t)[p] = d - 1 /\ t.items[d - 1].owner
    BY <1>2, DictionaryForm
  <2> HIDE DEF p
  <2>2. p \in 1 .. Len(Order(t)) /\ Len(Order(t)) \in Nat /\ DOMAIN PhrasesOf(t) = 1 .. Len(Order(t))
    BY <2>1, PhrasesForm
  <2>3. PhrasesOf(t)[p] = Told(t, d - 1)
    BY <2>1, <2>2, PhrasesForm
  <2>4. PhrasesOf(t)[p].owner
    BY <2>1, <2>3 DEF Told
  <2> QED
    BY <2>2, <2>4 DEF p
<1> QED
  BY <1>1, <1>2

(* The newest item of a node is told by the last phrase of its name, so     *)
(* what may not be shadowed in the tree may not be in the list either.      *)
LEMMA NewestIsTold ==
  ASSUME NEW t, Good(t), Filed(t), NEW n \in DOMAIN t.nodes, MayDefine(t, n),
         NEW i \in DOMAIN PhrasesOf(t),
         PhrasesOf(t)[i].dict = DictionaryOf(t, Roots(t)[n]), PhrasesOf(t)[i].key = Keys(t)[n],
         \A j \in DOMAIN PhrasesOf(t) :
           PhrasesOf(t)[j].dict = DictionaryOf(t, Roots(t)[n]) /\ PhrasesOf(t)[j].key = Keys(t)[n] => j <= i
  PROVE  ~PhrasesOf(t)[i].permanent
<1> DEFINE x == Order(t)[i]
<1> DEFINE y == t.nodes[n].item
<1>1. /\ i \in Nat /\ x \in DOMAIN t.items /\ PhrasesOf(t)[i] = Told(t, x) /\ i \in DOMAIN Order(t)
      /\ DOMAIN PhrasesOf(t) = DOMAIN Order(t)
  BY PhrasesForm
<1>2. Position(t, x) = i
  BY <1>1 DEF Filed, Listed
<1> HIDE DEF x
<1>3. x \in Nat /\ x # 0 /\ t.items[x].node \in DOMAIN t.nodes
  BY <1>1, ItemsDown, ToldForm
<1>4. t.items[x].node = n
  <2>1. DictionaryOf(t, Roots(t)[t.items[x].node]) = DictionaryOf(t, Roots(t)[n]) /\ Keys(t)[t.items[x].node] = Keys(t)[n]
    BY <1>1 DEF Told
  <2>2. Roots(t)[t.items[x].node] = Roots(t)[n]
    BY <1>3, <2>1, RootsAreDictionaries, DictionaryIs
  <2> QED
    BY <1>3, <2>1, <2>2, KeysAreUnique
<1>5. x <= y /\ y \in Nat /\ y # 0 /\ y \in DOMAIN t.items /\ t.items[y].node = n
  <2>1. x <= y
    BY <1>1, <1>4 DEF Filed
  <2>2. y \in DOMAIN t.items \cup {0} /\ DOMAIN t.items \subseteq Nat
    BY ItemsDown DEF Good, Linked, NodeLinks
  <2>3. y \in Nat
    BY <2>2
  <2>4. y # 0
    <3> HIDE DEF y
    <3> QED
      BY <1>3, <2>1, <2>3
  <2>5. t.items[y].node = n
    BY <2>4 DEF Good, NodeGood
  <2> QED
    BY <2>1, <2>2, <2>3, <2>4, <2>5
<1>6. ~t.items[y].permanent
  BY <1>5 DEF MayDefine
<1> HIDE DEF y
<1>7. /\ Position(t, y) \in DOMAIN Order(t) /\ Order(t)[Position(t, y)] = y
      /\ Position(t, x) \in DOMAIN Order(t) /\ Order(t)[Position(t, x)] = x
  BY <1>1, <1>5 DEF Filed, Listed
<1>8. PhrasesOf(t)[Position(t, y)] = Told(t, y)
  BY <1>7, PhrasesForm
<1>9. Position(t, y) <= i
  <2>1. Told(t, y).dict = DictionaryOf(t, Roots(t)[n]) /\ Told(t, y).key = Keys(t)[n]
    BY <1>5 DEF Told
  <2> QED
    BY <1>1, <1>7, <1>8, <2>1
<1>10. Position(t, x) <= Position(t, y)
  <2> DEFINE U == {j \in DOMAIN t.items : j <= x}
  <2> DEFINE V == {j \in DOMAIN t.items : j <= y}
  <2>1. U \subseteq V
    BY <1>3, <1>5, ItemsDown
  <2>2. IsFiniteSet(DOMAIN t.items) /\ V \subseteq DOMAIN t.items
    BY DEF Filed, Listed
  <2> HIDE DEF U, V
  <2>3. Cardinality(U) <= Cardinality(V)
    BY <2>1, <2>2, FS_Subset
  <2> QED
    BY <2>3 DEF Position, U, V
<1>11. x = y
  <2>1. Position(t, y) \in Nat
    BY <1>7, PhrasesForm
  <2>2. Position(t, x) = Position(t, y)
    BY <1>1, <1>2, <1>9, <1>10, <2>1
  <2> QED
    BY <1>7, <2>2
<1> QED
  BY <1>1, <1>6, <1>11 DEF Told

Defined(t, d, k, kind) ==
  [dict |-> DictionaryOf(t, d), key |-> k, owner |-> kind.owner, permanent |-> kind.permanent, payload |-> 0]

(* A definition that succeeds is one more phrase of the list, of the key    *)
(* and in the dictionary asked for, and shadows no permanent phrase.        *)
LEMMA AttemptTells ==
  ASSUME program.memory \in Nat, NEW t, Good(t), Filed(t), NEW d \in Dictionaries(t), NEW k \in Seq(Bits),
         NEW kind \in [owner : BOOLEAN, permanent : BOOLEAN], Attempt(t, d, k, kind).at # 0
  PROVE  LET w == Attempt(t, d, k, kind).tree IN
         /\ Good(w) /\ Filed(w)
         /\ \E a \in Nat : a >= t.end /\ DOMAIN w.items = DOMAIN t.items \cup {a}
         /\ PhrasesOf(w) = Append(PhrasesOf(t), Defined(t, d, k, kind))
         /\ \A i \in DOMAIN PhrasesOf(t) :
              /\ PhrasesOf(t)[i].dict = DictionaryOf(t, d) /\ PhrasesOf(t)[i].key = k
              /\ \A j \in DOMAIN PhrasesOf(t) :
                   PhrasesOf(t)[j].dict = DictionaryOf(t, d) /\ PhrasesOf(t)[j].key = k => j <= i
              => ~PhrasesOf(t)[i].permanent
<1> DEFINE node == AppendKey(t, d, k)
<1> DEFINE u == node.tree
<1> DEFINE n == node.at
<1> DEFINE made == Attempt(t, d, k, kind)
<1> DEFINE w == made.tree
<1>1. made = IF n = 0 \/ ~MayDefine(u, n) THEN Result(u, 0) ELSE SavePhrase(u, n, kind)
  BY DEF Attempt, AttemptAt
<1>2. Provided(t, d, k, node)
  BY AppendKeyProvides
<1> HIDE DEF node, made
<1>3. n # 0 /\ MayDefine(u, n) /\ made = SavePhrase(u, n, kind) /\ made.at # 0
  <2>1. made.at # 0
    BY DEF made
  <2> HIDE DEF n, u
  <2> QED
    BY <1>1, <2>1, ResultForm
<1>4. /\ Good(u) /\ Filed(u) /\ Keeps(t, u) /\ u.items = t.items /\ u.lastItem = t.lastItem
      /\ n \in DOMAIN u.nodes /\ Keys(u)[n] = k /\ Roots(u)[n] = d
  BY <1>2, <1>3 DEF Provided
<1>5. PhrasesOf(u) = PhrasesOf(t)
  BY <1>4, PhrasesSame
<1>6. DictionaryOf(u, d) = DictionaryOf(t, d)
  BY <1>4 DEF DictionaryOf, Position
<1>7. t.end \in Nat /\ u.end \in Nat /\ u.end >= t.end
  <2>1. Over(t, node.tree)
    BY FiledRoot, AppendKeyOver DEF node
  <2>2. t.end \in Nat /\ u.end \in Nat
    BY <1>4 DEF Good, Linked, Typed
  <2> QED
    BY <2>1, <2>2 DEF Over
<1>8. /\ Good(w) /\ Filed(w) /\ DOMAIN w.items = DOMAIN t.items \cup {u.end}
      /\ PhrasesOf(w) = Append(PhrasesOf(u), [dict |-> DictionaryOf(u, Roots(u)[n]), key |-> Keys(u)[n],
                                              owner |-> kind.owner, permanent |-> kind.permanent, payload |-> 0])
  <2>1. SavePhrase(u, n, kind).at # 0
    BY <1>3
  <2> HIDE DEF u, n
  <2> QED
    BY <1>3, <1>4, <2>1, SavePhraseTells
<1>9. ASSUME NEW i \in DOMAIN PhrasesOf(t), PhrasesOf(t)[i].dict = DictionaryOf(t, d), PhrasesOf(t)[i].key = k,
             \A j \in DOMAIN PhrasesOf(t) :
                PhrasesOf(t)[j].dict = DictionaryOf(t, d) /\ PhrasesOf(t)[j].key = k => j <= i
      PROVE  ~PhrasesOf(t)[i].permanent
  <2> HIDE DEF u, n
  <2> QED
    BY <1>3, <1>4, <1>5, <1>6, <1>9, NewestIsTold
<1>10. PhrasesOf(w) = Append(PhrasesOf(t), Defined(t, d, k, kind))
  BY <1>4, <1>5, <1>6, <1>8 DEF Defined
<1> HIDE DEF u, n, w
<1> QED
  BY <1>7, <1>8, <1>9, <1>10 DEF w, made

(***************************************************************************)
(* What a rollback would leave is the front of the list.                    *)
(***************************************************************************)
Under(t, m) == {a \in DOMAIN t.items : a < m}

Sees(t, m) ==
  /\ Filed(Restore(t, m)) /\ DOMAIN Restore(t, m).items = Under(t, m)
  /\ PhrasesOf(Restore(t, m)) = SubSeq(PhrasesOf(t), 1, Cardinality(Under(t, m)))

FInv ==
  /\ Filed(tree)
  /\ \A i \in DOMAIN marks : Sees(tree, marks[i])

LEMMA UnderForm ==
  ASSUME NEW t, Good(t), Filed(t), NEW m \in Nat
  PROVE  /\ Cardinality(Under(t, m)) \in 0 .. Len(PhrasesOf(t)) /\ Len(PhrasesOf(t)) \in Nat
         /\ \A l \in Nat : l <= m => Cardinality(Under(t, l)) <= Cardinality(Under(t, m)) /\ Cardinality(Under(t, l)) \in Nat
         /\ m >= t.end => Cardinality(Under(t, m)) = Len(PhrasesOf(t))
         /\ t.lastItem # 0 /\ m <= t.lastItem => Cardinality(Under(t, m)) < Len(PhrasesOf(t))
<1>1. IsFiniteSet(DOMAIN t.items) /\ Len(PhrasesOf(t)) = Cardinality(DOMAIN t.items) /\ Len(PhrasesOf(t)) \in Nat
  BY PhrasesForm DEF Filed, Listed
<1>2. /\ DOMAIN t.items \subseteq Nat \ {0} /\ t.end \in Nat /\ \A a \in DOMAIN t.items : a < t.end
      /\ t.lastItem \in DOMAIN t.items \cup {0}
  BY ItemsDown
<1>3. ASSUME NEW l \in Nat PROVE Under(t, l) \subseteq DOMAIN t.items /\ IsFiniteSet(Under(t, l))
  <2>1. Under(t, l) \subseteq DOMAIN t.items
    BY DEF Under
  <2> QED
    BY <1>1, <2>1, FS_Subset
<1>4. ASSUME NEW l \in Nat PROVE Cardinality(Under(t, l)) \in Nat /\ Cardinality(Under(t, l)) <= Cardinality(DOMAIN t.items)
  BY <1>1, <1>3, FS_Subset, FS_CardinalityType
<1>5. ASSUME NEW l \in Nat, l <= m PROVE Cardinality(Under(t, l)) <= Cardinality(Under(t, m))
  <2>1. Under(t, l) \subseteq Under(t, m)
    BY <1>2, <1>5 DEF Under
  <2> QED
    BY <1>3, <2>1, FS_Subset
<1>6. ASSUME m >= t.end PROVE Cardinality(Under(t, m)) = Len(PhrasesOf(t))
  <2>1. Under(t, m) = DOMAIN t.items
    BY <1>2, <1>6 DEF Under
  <2> QED
    BY <1>1, <2>1
<1>7. ASSUME t.lastItem # 0, m <= t.lastItem PROVE Cardinality(Under(t, m)) < Len(PhrasesOf(t))
  <2>1. t.lastItem \in DOMAIN t.items /\ t.lastItem \notin Under(t, m)
    BY <1>2, <1>7 DEF Under
  <2>2. Under(t, m) # DOMAIN t.items
    BY <2>1
  <2>3. Cardinality(Under(t, m)) # Cardinality(DOMAIN t.items)
    BY <1>1, <1>3, <2>2, FS_Subset
  <2> QED
    BY <1>1, <1>4, <2>3
<1>8. Cardinality(Under(t, m)) \in 0 .. Len(PhrasesOf(t))
  BY <1>1, <1>4
<1>9. \A l \in Nat : l <= m => Cardinality(Under(t, l)) <= Cardinality(Under(t, m)) /\ Cardinality(Under(t, l)) \in Nat
  BY <1>4, <1>5
<1> QED
  BY <1>1, <1>6, <1>7, <1>8, <1>9

LEMMA AppendFront ==
  ASSUME NEW X, NEW s \in Seq(X), NEW x, NEW m \in 0 .. Len(s)
  PROVE  SubSeq(Append(s, x), 1, m) = SubSeq(s, 1, m)
<1> DEFINE Y == X \cup {x}
<1> DEFINE r == SubSeq(Append(s, x), 1, m)
<1>1. s \in Seq(Y) /\ x \in Y
  OBVIOUS
<1> HIDE DEF Y
<1>2. /\ Append(s, x) \in Seq(Y) /\ Len(Append(s, x)) = Len(s) + 1 /\ m \in 0 .. Len(s) + 1 /\ Len(s) \in Nat
      /\ \A p \in 1 .. Len(s) : Append(s, x)[p] = s[p]
  BY <1>1
<1>3. r \in Seq(Y) /\ Len(r) = m /\ \A p \in 1 .. m : r[p] = Append(s, x)[p]
  BY <1>2
<1>4. \A p \in 1 .. m : r[p] = s[p]
  BY <1>2, <1>3
<1> HIDE DEF r
<1>5. r = SubSeq(s, 1, m)
  BY <1>1, <1>3, <1>4, FrontIs
<1> QED
  BY <1>5 DEF r

LEMMA FrontOfFront ==
  ASSUME NEW X, NEW s \in Seq(X), NEW l \in 0 .. Len(s), NEW m \in 0 .. l
  PROVE  SubSeq(SubSeq(s, 1, l), 1, m) = SubSeq(s, 1, m)
<1> DEFINE q == SubSeq(s, 1, l)
<1> DEFINE r == SubSeq(q, 1, m)
<1>1. q \in Seq(X) /\ Len(q) = l /\ \A p \in 1 .. l : q[p] = s[p]
  OBVIOUS
<1> HIDE DEF q
<1>2. r \in Seq(X) /\ Len(r) = m /\ \A p \in 1 .. m : r[p] = q[p]
  BY <1>1
<1>3. \A p \in 1 .. m : r[p] = s[p]
  BY <1>1, <1>2
<1> HIDE DEF r
<1>4. r = SubSeq(s, 1, m)
  <2>1. m \in 0 .. Len(s)
    OBVIOUS
  <2> QED
    BY <1>2, <1>3, <2>1, FrontIs
<1> QED
  BY <1>4 DEF r, q

(* Two lists that agree as far as a rollback would go. *)
LEMMA SeesStill ==
  ASSUME NEW t, NEW u, NEW m, Sees(t, m), Restore(u, m) = Restore(t, m), Under(u, m) = Under(t, m),
         SubSeq(PhrasesOf(u), 1, Cardinality(Under(t, m))) = SubSeq(PhrasesOf(t), 1, Cardinality(Under(t, m)))
  PROVE  Sees(u, m)
BY DEF Sees

(* A phrase added above m. *)
LEMMA SeesLonger ==
  ASSUME NEW t, Good(t), Filed(t), NEW u, NEW m \in 1 .. t.end, Sees(t, m), Restore(u, m) = Restore(t, m),
         NEW a \in Nat, a >= t.end, DOMAIN u.items = DOMAIN t.items \cup {a},
         NEW x, PhrasesOf(u) = Append(PhrasesOf(t), x)
  PROVE  Under(u, m) = Under(t, m) /\ Sees(u, m)
<1>1. t.end \in Nat
  BY ItemsDown
<1>2. Under(u, m) = Under(t, m)
  BY <1>1 DEF Under
<1>3. PhrasesOf(t) \in Seq(PhrasesSet(t)) /\ Cardinality(Under(t, m)) \in 0 .. Len(PhrasesOf(t))
  BY <1>1, PhrasesForm, UnderForm
<1>4. SubSeq(PhrasesOf(u), 1, Cardinality(Under(t, m))) = SubSeq(PhrasesOf(t), 1, Cardinality(Under(t, m)))
  BY <1>3, AppendFront
<1> QED
  BY <1>2, <1>4, SeesStill

(***************************************************************************)
(* A definition, as the list of phrases sees it.                            *)
(***************************************************************************)
LEMMA NewestForm ==
  ASSUME NEW n \in Nat, NEW s, DOMAIN s = 1 .. n, NEW d, NEW k, Log!NewestIn(s, d, k) # 0
  PROVE  /\ Log!NewestIn(s, d, k) \in DOMAIN s
         /\ s[Log!NewestIn(s, d, k)].dict = d /\ s[Log!NewestIn(s, d, k)].key = k
         /\ \A j \in DOMAIN s : s[j].dict = d /\ s[j].key = k => j <= Log!NewestIn(s, d, k)
<1> DEFINE found == {i \in DOMAIN s : s[i].dict = d /\ s[i].key = k}
<1>1. Log!NewestIn(s, d, k) = IF found = {} THEN 0 ELSE CHOOSE i \in found : \A j \in found : j <= i
  BY DEF Log!NewestIn
<1>2. found # {} /\ found \in SUBSET (0 .. n)
  BY <1>1
<1> HIDE DEF found
<1>3. PICK i \in found : \A j \in found : j <= i
  BY <1>2, GreatestNatural
<1>4. Log!NewestIn(s, d, k) \in found /\ \A j \in found : j <= Log!NewestIn(s, d, k)
  BY <1>1, <1>2, <1>3
<1> QED
  BY <1>4 DEF found

LEMMA KindForm ==
  ASSUME program \in Programs, NEW kind, kind \in program.kinds \/ kind = Plain
  PROVE  /\ kind \in [owner : BOOLEAN, permanent : BOOLEAN]
         /\ [owner |-> kind.owner, permanent |-> kind.permanent] \in (UNION {p.kinds : p \in Programs}) \cup {Plain}
<1>1. kind \in [owner : BOOLEAN, permanent : BOOLEAN]
  <2>1. CASE kind \in program.kinds
    BY <2>1, ProgramForm
  <2>2. CASE kind = Plain
    BY <2>2 DEF Plain
  <2> QED
    BY <2>1, <2>2
<1>2. [owner |-> kind.owner, permanent |-> kind.permanent] = kind
  BY <1>1
<1>3. kind \in (UNION {p.kinds : p \in Programs}) \cup {Plain}
  OBVIOUS
<1> QED
  BY <1>1, <1>2, <1>3

LEMMA DefinitionTold ==
  ASSUME IInv, FInv, NEW d \in Dictionaries(tree), NEW k \in program.keys, NEW kind,
         kind \in program.kinds \/ kind = Plain,
         Attempt(tree, d, k, kind).at # 0, tree' = Attempt(tree, d, k, kind).tree
  PROVE  /\ Log!Define /\ Filed(tree')
         /\ PhrasesOf(tree') = Append(PhrasesOf(tree), Defined(tree, d, k, kind))
         /\ \A m \in 1 .. tree.end : Restore(tree', m) = Restore(tree, m)
         /\ \A m \in 1 .. tree.end : Sees(tree, m) => Under(tree', m) = Under(tree, m) /\ Sees(tree', m)
         /\ Under(tree', tree.end) = DOMAIN tree.items
<1> DEFINE x == Defined(tree, d, k, kind)
<1> DEFINE s == PhrasesOf(tree)
<1>1. /\ program.memory \in Nat /\ k \in Seq(Bits) /\ kind \in [owner : BOOLEAN, permanent : BOOLEAN]
      /\ [owner |-> kind.owner, permanent |-> kind.permanent] \in (UNION {p.kinds : p \in Programs}) \cup {Plain}
      /\ k \in UNION {p.keys : p \in Programs} /\ Good(tree) /\ Filed(tree)
  <2>1. program \in Programs /\ Good(tree) /\ Filed(tree)
    BY DEF IInv, Sound, FInv
  <2>2. k \in UNION {p.keys : p \in Programs}
    BY <2>1
  <2> QED
    BY <2>1, <2>2, ProgramForm, KindForm
<1>2. /\ Filed(tree')
      /\ \E a \in Nat : a >= tree.end /\ DOMAIN tree'.items = DOMAIN tree.items \cup {a}
      /\ PhrasesOf(tree') = Append(s, x)
      /\ \A i \in DOMAIN s :
           /\ s[i].dict = DictionaryOf(tree, d) /\ s[i].key = k
           /\ \A j \in DOMAIN s : s[j].dict = DictionaryOf(tree, d) /\ s[j].key = k => j <= i
           => ~s[i].permanent
  BY <1>1, AttemptTells
<1>3. \A m \in 1 .. tree.end : Restore(tree', m) = Restore(tree, m)
  BY <1>1, AttemptOver DEF Over
<1>4. ASSUME NEW m \in 1 .. tree.end, Sees(tree, m) PROVE Under(tree', m) = Under(tree, m) /\ Sees(tree', m)
  <2> HIDE DEF x, s
  <2> QED
    BY <1>1, <1>2, <1>3, <1>4, SeesLonger DEF s
<1>5. Under(tree', tree.end) = DOMAIN tree.items
  <2>1. DOMAIN tree.items \subseteq Nat /\ tree.end \in Nat /\ \A a \in DOMAIN tree.items : a < tree.end
    BY <1>1, ItemsDown
  <2> QED
    BY <1>2, <2>1 DEF Under
<1>6. s \in Seq(PhrasesSet(tree)) /\ Len(s) \in Nat /\ DOMAIN s = 1 .. Len(s)
  BY <1>1, PhrasesForm
<1>7. /\ x.dict = DictionaryOf(tree, d) /\ x.key = k /\ x.owner = kind.owner /\ x.permanent = kind.permanent /\ x.payload = 0
      /\ x = [dict |-> DictionaryOf(tree, d), key |-> k, owner |-> kind.owner, permanent |-> kind.permanent, payload |-> 0]
  BY DEF Defined
<1>8. DictionaryOf(tree, d) \in Nat /\ (DictionaryOf(tree, d) # 0 => DictionaryOf(tree, d) \in DOMAIN s /\ s[DictionaryOf(tree, d)].owner)
  BY <1>1, DictionaryTold
<1> HIDE DEF x, s
<1>9. Len(PhrasesOf(tree')) = Len(s) + 1 /\ Last(PhrasesOf(tree')) = x
  BY <1>2, <1>6 DEF Last
<1>10. x \in Log!Phrases
  BY <1>1, <1>7, <1>8 DEF Log!Phrases
<1>11. x.dict \in Log!Dictionaries
  BY <1>7, <1>8 DEF Log!Dictionaries, s
<1>12. Log!MayDefine(x.dict, x.key)
  <2> DEFINE i == Log!NewestIn(s, DictionaryOf(tree, d), k)
  <2> SUFFICES ASSUME i # 0 PROVE ~s[i].permanent
    BY <1>7 DEF Log!MayDefine, s
  <2>1. /\ i \in DOMAIN s /\ s[i].dict = DictionaryOf(tree, d) /\ s[i].key = k
        /\ \A j \in DOMAIN s : s[j].dict = DictionaryOf(tree, d) /\ s[j].key = k => j <= i
    BY <1>6, NewestForm
  <2> HIDE DEF i
  <2> QED
    BY <1>2, <2>1
<1>13. Log!Define
  BY <1>1, <1>2, <1>7, <1>9, <1>10, <1>11, <1>12 DEF Log!Define, Log!Last, Last, s
<1> QED
  BY <1>2, <1>3, <1>4, <1>5, <1>13 DEF x, s

LEMMA MarksAre ==
  /\ MarksOf = [i \in DOMAIN marks |-> Cardinality(Under(tree, marks[i]))]
  /\ MarksOf' = [i \in DOMAIN marks' |-> Cardinality(Under(tree', marks'[i]))]
BY DEF MarksOf, Under

LEMMA DefinePhraseTold ==
  ASSUME IInv, FInv, NEW d \in Dictionaries(tree), NEW k \in program.keys, NEW kind \in program.kinds, DefinePhrase(d, k, kind)
  PROVE  FInv' /\ (Log!Next \/ UNCHANGED Log!vars)
<1> DEFINE made == Attempt(tree, d, k, kind)
<1>1. /\ tree' = IF made.at # 0 THEN made.tree ELSE Restore(made.tree, tree.end)
      /\ program' = program /\ marks' = marks
  BY DEF DefinePhrase
<1>2. Good(tree) /\ Filed(tree) /\ program.memory \in Nat /\ k \in Seq(Bits) /\ kind \in [owner : BOOLEAN, permanent : BOOLEAN]
  BY ProgramForm DEF IInv, Sound, FInv
<1>3. \A i \in DOMAIN marks : marks[i] \in 1 .. tree.end
  BY MarksForm
<1>4. CASE made.at = 0
  <2>1. tree' = tree
    <3>1. Over(tree, made.tree)
      BY <1>2, AttemptOver
    <3>2. tree.end \in 1 .. tree.end
      BY <1>2 DEF Good, Linked, Typed
    <3>3. Restore(made.tree, tree.end) = tree
      BY <1>2, <3>1, <3>2, RestoreWhole DEF Over
    <3> QED
      BY <1>1, <1>4, <3>3
  <2>2. FInv'
    BY <1>1, <2>1 DEF FInv
  <2>3. UNCHANGED Log!vars
    BY <1>1, <2>1, MarksAre DEF Log!vars
  <2> QED
    BY <2>2, <2>3
<1>5. CASE made.at # 0
  <2>1. tree' = made.tree
    BY <1>1, <1>5
  <2>2. /\ Log!Define /\ Filed(tree')
        /\ \A m \in 1 .. tree.end : Sees(tree, m) => Under(tree', m) = Under(tree, m) /\ Sees(tree', m)
    BY <1>5, <2>1, DefinitionTold
  <2>3. FInv'
    BY <1>1, <1>3, <2>2 DEF FInv
  <2>4. MarksOf' = MarksOf
    BY <1>1, <1>3, <2>2, MarksAre DEF FInv
  <2> QED
    BY <2>2, <2>3, <2>4 DEF Log!Next, Log!DefinePhrase
<1> QED
  BY <1>4, <1>5

LEMMA SameFront ==
  ASSUME NEW X, NEW s \in Seq(X), NEW Y, NEW r \in Seq(Y), Len(r) = Len(s), NEW m \in 0 .. Len(s),
         \A p \in 1 .. m : r[p] = s[p]
  PROVE  SubSeq(r, 1, m) = SubSeq(s, 1, m)
<1> DEFINE Z == X \cup Y
<1> DEFINE q == SubSeq(r, 1, m)
<1>1. s \in Seq(Z) /\ r \in Seq(Z)
  OBVIOUS
<1> HIDE DEF Z
<1>2. q \in Seq(Z) /\ Len(q) = m /\ \A p \in 1 .. m : q[p] = r[p]
  BY <1>1
<1>3. \A p \in 1 .. m : q[p] = s[p]
  BY <1>2
<1> HIDE DEF q
<1>4. q = SubSeq(s, 1, m)
  BY <1>1, <1>2, <1>3, FrontIs
<1> QED
  BY <1>4 DEF q

LEMMA ExtendPhraseTold ==
  ASSUME IInv, FInv, ExtendPhrase
  PROVE  FInv' /\ (Log!Extend \/ UNCHANGED Log!vars)
<1> DEFINE last == tree.lastItem
<1>1. Good(tree) /\ Packed(tree) /\ Filed(tree) /\ Typed(tree)
  BY DEF IInv, Sound, FInv, Good, Linked
<1>2. last # 0 /\ tree' = AllocateContent(tree, last).tree /\ program' = program /\ marks' = marks
  BY DEF ExtendPhrase
<1>3. last \in DOMAIN tree.items /\ last \in Nat
  BY <1>1, <1>2 DEF Good, Linked, Typed
<1>4. \A i \in DOMAIN marks : Restore(tree', marks[i]) = Restore(tree, marks[i])
  BY ExtendPhraseSound
<1>5. CASE tree.end + 1 > program.memory
  <2>1. tree' = tree
    BY <1>1, <1>2, <1>5, AllocateContentForm, ResultForm
  <2>2. FInv'
    BY <1>2, <2>1 DEF FInv
  <2>3. UNCHANGED Log!vars
    BY <1>2, <2>1, MarksAre DEF Log!vars
  <2> QED
    BY <2>2, <2>3
<1>6. CASE ~(tree.end + 1 > program.memory)
  <2> DEFINE u == Extended(tree, last)
  <2>1. tree' = u
    BY <1>1, <1>2, <1>6, AllocateContentForm, ResultForm
  <2>2. Retold(tree, u, last) /\ Good(u)
    BY <1>1, <1>3, ExtendedGood
  <2>3. Filed(u) /\ Keeps(tree, u) /\ Order(u) = Order(tree)
    BY <1>1, <1>3, ExtendedFiled
  <2>4. /\ DOMAIN u.items = DOMAIN tree.items
        /\ u.items = [tree.items EXCEPT ![last].bytes = @ + 1]
    BY DEF Extended
  <2> HIDE DEF u, last
  <2>5. ASSUME NEW j \in DOMAIN tree.items
        PROVE  /\ u.items[j].node = tree.items[j].node
               /\ u.items[j].owner = tree.items[j].owner /\ u.items[j].permanent = tree.items[j].permanent
               /\ u.items[j].bytes = IF j = last THEN tree.items[j].bytes + 1 ELSE tree.items[j].bytes
    <3>1. tree.items[j] \in Item
      BY <1>1 DEF Typed
    <3> QED
      BY <1>3, <2>4, <3>1 DEF Item
  <2>6. Onto(tree, u)
    BY <2>3, <2>4, <2>5 DEF Onto
  <2>7. /\ PhrasesOf(tree) # <<>>
        /\ PhrasesOf(u) = [PhrasesOf(tree) EXCEPT ![Len(PhrasesOf(tree))].payload = @ + 1]
        /\ \A p \in DOMAIN PhrasesOf(tree) : p # Len(PhrasesOf(tree)) => PhrasesOf(u)[p] = PhrasesOf(tree)[p]
    <3>1. u.items[tree.lastItem].bytes = tree.items[tree.lastItem].bytes + 1
      BY <1>3, <2>5 DEF last
    <3>2. \A i \in DOMAIN tree.items : i # tree.lastItem => u.items[i].bytes = tree.items[i].bytes
      BY <2>5 DEF last
    <3>3. tree.lastItem # 0
      BY <1>2 DEF last
    <3> QED
      <4>1. Good(u) /\ Filed(u) /\ DOMAIN u.items = DOMAIN tree.items /\ Order(u) = Order(tree)
        BY <2>2, <2>3, <2>4
      <4> QED
        BY ONLY <1>1, <2>6, <3>1, <3>2, <3>3, <4>1, PhrasesFuller, Zenon
  <2>8. /\ PhrasesOf(tree) \in Seq(PhrasesSet(tree)) /\ PhrasesOf(u) \in Seq(PhrasesSet(u))
        /\ Len(PhrasesOf(u)) = Len(PhrasesOf(tree)) /\ Len(PhrasesOf(tree)) \in Nat
        /\ DOMAIN PhrasesOf(tree) = 1 .. Len(PhrasesOf(tree))
    BY <1>1, <2>2, <2>3, PhrasesForm
  <2>9. ASSUME NEW i \in DOMAIN marks PROVE Under(u, marks[i]) = Under(tree, marks[i]) /\ Sees(u, marks[i])
    <3> DEFINE c == Cardinality(Under(tree, marks[i]))
    <3>1. Under(u, marks[i]) = Under(tree, marks[i])
      BY <2>4 DEF Under
    <3>2. marks # <<>>
      OBVIOUS
    <3>3. /\ marks[i] \in Nat /\ marks[i] <= marks[Len(marks)] /\ marks[Len(marks)] \in Nat
          /\ marks[Len(marks)] <= tree.lastItem
      BY <3>2, LastMark DEF IInv
    <3>4. marks[i] <= tree.lastItem /\ tree.lastItem # 0
      BY <1>2, <1>3, <3>3 DEF last
    <3>5. c \in 0 .. Len(PhrasesOf(tree)) /\ c < Len(PhrasesOf(tree))
      BY <1>1, <3>3, <3>4, UnderForm
    <3> HIDE DEF c
    <3>6. \A p \in 1 .. c : PhrasesOf(u)[p] = PhrasesOf(tree)[p]
      BY <2>7, <2>8, <3>5
    <3>7. SubSeq(PhrasesOf(u), 1, c) = SubSeq(PhrasesOf(tree), 1, c)
      BY <2>8, <3>5, <3>6, SameFront
    <3>8. Sees(tree, marks[i])
      BY DEF FInv
    <3> QED
      BY <1>4, <2>1, <3>1, <3>7, <3>8, SeesStill DEF c
  <2>10. FInv'
    BY <1>2, <2>1, <2>3, <2>9 DEF FInv
  <2>11. MarksOf' = MarksOf
    BY <1>2, <2>1, <2>9, MarksAre
  <2>12. Log!Extend
    BY <2>1, <2>7, <2>11 DEF Log!Extend
  <2> QED
    BY <2>10, <2>12
<1> QED
  BY <1>5, <1>6

LEMMA CountsForm ==
  ASSUME NEW n \in Nat, NEW f, f = [i \in 1 .. n |-> f[i]], \A i \in 1 .. n : f[i] \in Nat
  PROVE  f \in Seq(Nat) /\ Len(f) = n
<1>1. f \in [1 .. n -> Nat]
  OBVIOUS
<1> QED
  BY <1>1

LEMMA MarksOfForm ==
  ASSUME IInv, FInv
  PROVE  /\ MarksOf \in Seq(Nat) /\ Len(MarksOf) = Len(marks) /\ DOMAIN MarksOf = DOMAIN marks
         /\ \A i \in DOMAIN marks : MarksOf[i] = Cardinality(Under(tree, marks[i])) /\ MarksOf[i] \in Nat
<1>1. Good(tree) /\ Filed(tree) /\ Len(marks) \in Nat /\ DOMAIN marks = 1 .. Len(marks) /\ \A i \in DOMAIN marks : marks[i] \in Nat
  BY MarksForm DEF FInv
<1>2. ASSUME NEW i \in DOMAIN marks PROVE MarksOf[i] = Cardinality(Under(tree, marks[i])) /\ MarksOf[i] \in Nat
  BY <1>1, MarksAre, UnderForm
<1>3. MarksOf = [i \in 1 .. Len(marks) |-> MarksOf[i]]
  BY <1>1, <1>2, MarksAre
<1> QED
  BY <1>1, <1>2, <1>3, CountsForm

LEMMA OpenScopeTold ==
  ASSUME IInv, FInv, NEW d \in Dictionaries(tree), NEW k \in program.keys, OpenScope(d, k)
  PROVE  FInv' /\ Log!Next
<1> DEFINE made == Attempt(tree, d, k, Plain)
<1> DEFINE l == Len(marks)
<1>1. made.at # 0 /\ tree' = made.tree /\ marks' = Append(marks, tree.end) /\ program' = program
  BY DEF OpenScope
<1>2. /\ Log!Define /\ Filed(tree')
      /\ PhrasesOf(tree') = Append(PhrasesOf(tree), Defined(tree, d, k, Plain))
      /\ \A m \in 1 .. tree.end : Restore(tree', m) = Restore(tree, m)
      /\ \A m \in 1 .. tree.end : Sees(tree, m) => Under(tree', m) = Under(tree, m) /\ Sees(tree', m)
      /\ Under(tree', tree.end) = DOMAIN tree.items
  BY <1>1, DefinitionTold
<1> HIDE DEF made
<1>3. /\ marks \in Seq(Nat) /\ l \in Nat /\ DOMAIN marks = 1 .. l /\ tree.end \in Nat
      /\ \A i \in DOMAIN marks : marks[i] \in Nat /\ marks[i] \in 1 .. tree.end
      /\ Good(tree) /\ Filed(tree)
  BY MarksForm DEF FInv
<1>4. tree.end \in 1 .. tree.end
  BY <1>3 DEF Good
<1>5. DOMAIN marks' = 1 .. l + 1 /\ marks'[l + 1] = tree.end /\ \A i \in 1 .. l : marks'[i] = marks[i]
  BY <1>1, <1>3
<1>6. PhrasesOf(tree) \in Seq(PhrasesSet(tree)) /\ Len(PhrasesOf(tree)) = Cardinality(DOMAIN tree.items) /\ Len(PhrasesOf(tree)) \in Nat
  BY <1>3, PhrasesForm
<1>7. Sees(tree', tree.end)
  <2>1. Restore(tree', tree.end) = tree
    BY <1>2, <1>3, <1>4, RestoreWhole
  <2>2. PhrasesOf(tree) = SubSeq(PhrasesOf(tree), 1, Len(PhrasesOf(tree)))
    BY <1>6
  <2>3. Len(PhrasesOf(tree)) \in 0 .. Len(PhrasesOf(tree))
    BY <1>6
  <2>4. SubSeq(PhrasesOf(tree'), 1, Len(PhrasesOf(tree))) = PhrasesOf(tree)
    BY <1>2, <1>6, <2>2, <2>3, AppendFront
  <2> QED
    BY <1>2, <1>3, <1>6, <2>1, <2>4 DEF Sees
<1>8. ASSUME NEW i \in 1 .. l PROVE Under(tree', marks'[i]) = Under(tree, marks[i]) /\ Sees(tree', marks'[i])
  <2>1. i \in DOMAIN marks /\ marks'[i] = marks[i] /\ Sees(tree, marks[i]) /\ marks[i] \in 1 .. tree.end
    BY <1>3, <1>5 DEF FInv
  <2> QED
    BY <1>2, <2>1
<1> HIDE DEF l
<1>9. \A i \in 1 .. l + 1 : i \in 1 .. l \/ i = l + 1
  BY <1>3
<1>10. FInv'
  BY <1>2, <1>5, <1>7, <1>8, <1>9 DEF FInv
<1>11. MarksOf' = Append(MarksOf, Len(PhrasesOf(tree)))
  <2> DEFINE r == [i \in 1 .. l + 1 |-> IF i = l + 1 THEN Len(PhrasesOf(tree)) ELSE MarksOf[i]]
  <2>1. MarksOf \in Seq(Nat) /\ Len(MarksOf) = l /\ \A i \in 1 .. l : MarksOf[i] = Cardinality(Under(tree, marks[i])) /\ MarksOf[i] \in Nat
    BY <1>3, MarksOfForm DEF l
  <2>2. MarksOf' = [i \in 1 .. l + 1 |-> Cardinality(Under(tree', marks'[i]))]
    BY <1>5, MarksAre
  <2>3. MarksOf' = r
    <3>1. ASSUME NEW i \in 1 .. l + 1 PROVE Cardinality(Under(tree', marks'[i])) = r[i]
      <4>1. CASE i = l + 1
        BY <1>2, <1>5, <1>6, <4>1
      <4>2. CASE i \in 1 .. l
        <5>1. i # l + 1
          BY <1>3, <4>2
        <5> QED
          BY <1>8, <2>1, <4>2, <5>1
      <4> QED
        BY <1>9, <4>1, <4>2
    <3> QED
      BY <2>2, <3>1
  <2>4. l + 1 \in Nat /\ \A i \in 1 .. l + 1 : r[i] \in Nat
    BY <1>3, <1>6, <1>9, <2>1
  <2>5. r \in Seq(Nat) /\ Len(r) = l + 1
    BY <2>4, CountsForm
  <2>6. r[l + 1] = Len(PhrasesOf(tree)) /\ \A i \in 1 .. l : r[i] = MarksOf[i]
    BY <1>3
  <2> HIDE DEF r
  <2>7. r = Append(MarksOf, Len(PhrasesOf(tree)))
    BY <1>6, <2>1, <2>5, <2>6, AppendedIs
  <2> QED
    BY <2>3, <2>7
<1>12. Log!Last(PhrasesOf(tree')).owner = FALSE /\ Log!Last(PhrasesOf(tree')).permanent = FALSE
  <2>1. Len(PhrasesOf(tree')) = Len(PhrasesOf(tree)) + 1 /\ PhrasesOf(tree')[Len(PhrasesOf(tree)) + 1] = Defined(tree, d, k, Plain)
    BY <1>2, <1>6
  <2>2. Defined(tree, d, k, Plain).owner = FALSE /\ Defined(tree, d, k, Plain).permanent = FALSE
    BY DEF Defined, Plain
  <2> QED
    BY <2>1, <2>2 DEF Log!Last
<1>13. Log!Open
  BY <1>2, <1>11, <1>12 DEF Log!Open
<1> QED
  BY <1>10, <1>13 DEF Log!Next

(* The counts of the scopes that stay open. *)
LEMMA OuterCounts ==
  ASSUME IInv, FInv, NEW i \in DOMAIN marks, marks' = SubSeq(marks, 1, i - 1),
         \A j \in DOMAIN marks' : Under(tree', marks'[j]) = Under(tree, marks[j])
  PROVE  MarksOf' = SubSeq(MarksOf, 1, i - 1)
<1> DEFINE m == i - 1
<1>1. /\ DOMAIN marks' = 1 .. m
      /\ \A j \in DOMAIN marks' : j \in DOMAIN marks
  BY OuterMarks
<1>2. /\ MarksOf \in Seq(Nat) /\ Len(MarksOf) = Len(marks) /\ DOMAIN MarksOf = DOMAIN marks
      /\ \A j \in DOMAIN marks : MarksOf[j] = Cardinality(Under(tree, marks[j])) /\ MarksOf[j] \in Nat
  BY MarksOfForm
<1>3. m \in 0 .. Len(MarksOf) /\ m \in Nat
  BY <1>2, MarksForm
<1> HIDE DEF m
<1>4. MarksOf' = [j \in 1 .. m |-> MarksOf[j]]
  BY <1>1, <1>2, MarksAre
<1>5. \A j \in 1 .. m : MarksOf[j] \in Nat
  BY <1>1, <1>2
<1>6. MarksOf' \in Seq(Nat) /\ Len(MarksOf') = m /\ \A j \in 1 .. m : MarksOf'[j] = MarksOf[j]
  BY <1>3, <1>4, <1>5, CountsForm
<1>7. MarksOf' = SubSeq(MarksOf, 1, m)
  BY <1>2, <1>3, <1>6, FrontIs
<1> QED
  BY <1>7 DEF m

LEMMA CommitScopeTold ==
  ASSUME IInv, FInv, NEW i \in DOMAIN marks, CommitScope(i)
  PROVE  FInv' /\ Log!Next
<1>1. marks' = SubSeq(marks, 1, i - 1) /\ tree' = tree /\ program' = program
  BY DEF CommitScope
<1>2. /\ DOMAIN marks' = 1 .. i - 1
      /\ \A j \in DOMAIN marks' : j \in DOMAIN marks /\ j < i /\ marks'[j] = marks[j]
  BY <1>1, OuterMarks
<1>3. FInv'
  BY <1>1, <1>2 DEF FInv
<1>4. MarksOf' = SubSeq(MarksOf, 1, i - 1)
  BY <1>1, <1>2, OuterCounts
<1> QED
  BY <1>1, <1>3, <1>4, MarksOfForm DEF Log!Next, Log!Commit

LEMMA RollbackScopeTold ==
  ASSUME IInv, FInv, NEW i \in DOMAIN marks, RollbackScope(i)
  PROVE  FInv' /\ i \in DOMAIN MarksOf /\ Log!Rollback(i)
<1> DEFINE c == Cardinality(Under(tree, marks[i]))
<1>1. marks' = SubSeq(marks, 1, i - 1) /\ tree' = Restore(tree, marks[i]) /\ program' = program
  BY DEF RollbackScope
<1>2. /\ DOMAIN marks' = 1 .. i - 1
      /\ \A j \in DOMAIN marks' : j \in DOMAIN marks /\ j < i /\ marks'[j] = marks[j]
  BY <1>1, OuterMarks
<1>3. /\ Filed(tree') /\ DOMAIN tree'.items = Under(tree, marks[i])
      /\ PhrasesOf(tree') = SubSeq(PhrasesOf(tree), 1, c)
  BY <1>1 DEF FInv, Sees
<1>4. \A j \in DOMAIN marks' : Restore(tree', marks[j]) = Restore(tree, marks[j])
  BY <1>2, RollbackScopeSound
<1>5. /\ Good(tree) /\ Filed(tree) /\ \A j \in DOMAIN marks : marks[j] \in Nat
      /\ DOMAIN tree.items \subseteq Nat
  BY MarksForm, ItemsDown DEF FInv
<1>6. PhrasesOf(tree) \in Seq(PhrasesSet(tree)) /\ c \in 0 .. Len(PhrasesOf(tree))
  BY <1>5, PhrasesForm, UnderForm
<1>7. ASSUME NEW j \in DOMAIN marks' PROVE Under(tree', marks[j]) = Under(tree, marks[j]) /\ Sees(tree', marks[j])
  <2> DEFINE b == Cardinality(Under(tree, marks[j]))
  <2>1. j \in DOMAIN marks /\ marks[j] \in Nat /\ marks[i] \in Nat /\ marks[j] <= marks[i] /\ Sees(tree, marks[j])
    BY <1>2, <1>5 DEF IInv, FInv
  <2>2. Under(tree', marks[j]) = Under(tree, marks[j])
    BY <1>3, <1>5, <2>1 DEF Under
  <2>3. b \in 0 .. c
    BY <1>5, <1>6, <2>1, UnderForm
  <2> HIDE DEF b, c
  <2>4. SubSeq(PhrasesOf(tree'), 1, b) = SubSeq(PhrasesOf(tree), 1, b)
    BY <1>3, <1>6, <2>3, FrontOfFront
  <2> QED
    BY <1>4, <2>1, <2>2, <2>4, SeesStill DEF b
<1>8. FInv'
  BY <1>2, <1>3, <1>7 DEF FInv
<1>9. MarksOf' = SubSeq(MarksOf, 1, i - 1)
  BY <1>1, <1>2, <1>7, OuterCounts
<1>10. i \in DOMAIN MarksOf /\ MarksOf[i] = c
  BY MarksOfForm
<1>11. Log!Rollback(i)
  BY <1>3, <1>9, <1>10 DEF Log!Rollback
<1> QED
  BY <1>8, <1>10, <1>11

LEMMA InitTold ==
  ASSUME Init
  PROVE  FInv /\ Log!Init
<1>1. Good(tree) /\ marks = <<>>
  BY InitSound DEF Init, IInv, Sound
<1>2. /\ tree.nodes = [n \in {1} |-> [parent |-> 0, smaller |-> 0, greater |-> 0, item |-> 0,
                                      earlier |-> 0, cell |-> 0, fore |-> 0, rear |-> 0]]
      /\ tree.items = <<>> /\ tree.keys = [c \in {0} |-> <<>>] /\ tree.lastItem = 0
  BY DEF Init, Root, Embedded
<1>3. DOMAIN tree.nodes = {1} /\ DOMAIN tree.items = {} /\ tree.keys[0] = <<>>
  BY <1>2
<1>4. tree.nodes[1].parent = 0 /\ tree.nodes[1].cell = 0 /\ tree.nodes[1].fore = 0 /\ tree.nodes[1].rear = 0
  BY <1>2
<1>5. Held(tree)
  BY <1>3, <1>4 DEF Held
<1>6. Dictionaries(tree) = {1}
  BY <1>3 DEF Dictionaries, Root
<1>7. Edge(tree, 1) = <<>>
  <2>1. Edge(tree, 1) = SubSeq(<<>>, 1, 0)
    BY <1>3, <1>4 DEF Edge
  <2> QED
    BY <2>1
<1> DEFINE key == [n \in {1} |-> <<>>]
<1> DEFINE root == [n \in {1} |-> 1]
<1>8. Upward(tree, key, root)
  <2>1. key \in [{1} -> Seq(Bits)] /\ root \in [{1} -> {1}]
    <3>1. <<>> \in Seq(Bits)
      OBVIOUS
    <3> QED
      BY <3>1
  <2> QED
    BY <1>3, <1>4, <1>7, <2>1 DEF Upward
<1>9. Upward(tree, Keys(tree), Roots(tree))
  BY <1>1, <1>5, <1>8, UpwardIs
<1>10. Order(tree) = <<>>
  <2>1. Chain(tree.items, 0) = <<>>
    <3> DEFINE r == tree.items
    <3>1. DOMAIN r = {}
      BY <1>3
    <3> HIDE DEF r
    <3>2. Chain(r, 0) = <<>>
      BY <3>1, ChainForm
    <3> QED
      BY <3>2 DEF r
  <2> QED
    BY <1>2, <2>1 DEF Order, Reverse
<1>11. Listed(tree)
  BY <1>3, <1>10, FS_EmptySet DEF Listed
<1>12. Filed(tree)
  BY <1>3, <1>4, <1>5, <1>6, <1>9, <1>11 DEF Filed
<1>13. PhrasesOf(tree) = <<>>
  <2>1. PhrasesOf(tree) \in Seq(PhrasesSet(tree)) /\ Len(PhrasesOf(tree)) = 0
    BY <1>1, <1>10, <1>12, PhrasesForm
  <2> QED
    BY <2>1
<1>14. MarksOf = <<>>
  BY <1>1, MarksAre
<1> QED
  BY <1>1, <1>12, <1>13, <1>14 DEF FInv, Log!Init

LEMMA StepTold ==
  ASSUME IInv, FInv, [Next]_vars
  PROVE  FInv' /\ [Log!Next]_(Log!vars)
<1>1. CASE UNCHANGED vars
  <2>1. tree' = tree /\ marks' = marks
    BY <1>1 DEF vars
  <2> QED
    BY <2>1, MarksAre DEF FInv, Log!vars
<1>2. ASSUME NEW d \in Dictionaries(tree), NEW k \in program.keys, NEW kind \in program.kinds, DefinePhrase(d, k, kind)
      PROVE  FInv' /\ [Log!Next]_(Log!vars)
  BY <1>2, DefinePhraseTold
<1>3. CASE ExtendPhrase
  BY <1>3, ExtendPhraseTold DEF Log!Next
<1>4. ASSUME NEW d \in Dictionaries(tree), NEW k \in program.keys, OpenScope(d, k)
      PROVE  FInv' /\ [Log!Next]_(Log!vars)
  BY <1>4, OpenScopeTold
<1>5. ASSUME NEW i \in DOMAIN marks, RollbackScope(i) \/ CommitScope(i)
      PROVE  FInv' /\ [Log!Next]_(Log!vars)
  BY <1>5, RollbackScopeTold, CommitScopeTold DEF Log!Next
<1> QED
  BY <1>1, <1>2, <1>3, <1>4, <1>5 DEF Next

(* Whatever edges are split, shared and joined again: a definition adds one *)
(* phrase to the list the language sees, in the dictionary and under the    *)
(* key it was asked for, one that fails adds none, and a rollback leaves    *)
(* exactly the phrases that preceded the scope (src/source/radix,           *)
(* src/source/lexicon, LexiconTransaction.hpp).                             *)
THEOREM ImplementsLog == Spec => LogRefinement
<1>1. Init => FInv /\ Log!Init
  BY InitTold
<1>2. IInv /\ FInv /\ [Next]_vars => FInv' /\ [Log!Next]_(Log!vars)
  BY StepTold
<1> QED
  BY <1>1, <1>2, TreeStaysSound, PTL DEF Spec, LogRefinement, Log!LogSpec
=============================================================================
