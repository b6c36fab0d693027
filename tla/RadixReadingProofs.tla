------------------------ MODULE RadixReadingProofs ------------------------
(***************************************************************************)
(* Proofs about what RadixTree answers to those who read it: the matches by *)
(* a key and the traversals, for any keys and any operations before.        *)
(***************************************************************************)
EXTENDS RadixTreeProofs

(* What holds from each step to the next holds over many. *)
LEMMA StepsRelated ==
  ASSUME NEW X, NEW R, \A a, b, c \in X : <<a, b>> \in R /\ <<b, c>> \in R => <<a, c>> \in R,
         NEW s \in Seq(X), \A i \in 1 .. Len(s) - 1 : <<s[i], s[i + 1]>> \in R
  PROVE  \A i, j \in 1 .. Len(s) : i < j => <<s[i], s[j]>> \in R
<1> DEFINE S == {n \in Nat : \A i \in 1 .. Len(s) : i + n + 1 <= Len(s) => <<s[i], s[i + n + 1]>> \in R}
<1>1. Len(s) \in Nat /\ \A i \in 1 .. Len(s) : s[i] \in X
  OBVIOUS
<1>2. 0 \in S
  <2> SUFFICES ASSUME NEW i \in 1 .. Len(s), i + 1 <= Len(s) PROVE <<s[i], s[i + 1]>> \in R
    BY <1>1
  <2>1. i \in 1 .. Len(s) - 1
    BY <1>1
  <2> QED
    BY <2>1
<1>3. ASSUME NEW n \in S PROVE n + 1 \in S
  <2>1. n \in Nat /\ n + 1 \in Nat
    OBVIOUS
  <2> SUFFICES ASSUME NEW i \in 1 .. Len(s), i + (n + 1) + 1 <= Len(s) PROVE <<s[i], s[i + (n + 1) + 1]>> \in R
    BY <2>1
  <2> DEFINE k == i + n + 1
  <2>2. k \in 1 .. Len(s) - 1 /\ k \in 1 .. Len(s) /\ k + 1 \in 1 .. Len(s) /\ i + (n + 1) + 1 = k + 1 /\ k <= Len(s)
    BY <1>1, <2>1
  <2>3. <<s[i], s[k]>> \in R
    BY <2>2
  <2> HIDE DEF k
  <2>4. <<s[k], s[k + 1]>> \in R
    BY <2>2
  <2> QED
    BY <1>1, <2>2, <2>3, <2>4
<1>4. S = Nat
  <2>1. S \in SUBSET Nat
    OBVIOUS
  <2> HIDE DEF S
  <2> QED
    BY <1>2, <1>3, <2>1, SetInduction
<1>5. ASSUME NEW i \in 1 .. Len(s), NEW j \in 1 .. Len(s), i < j PROVE <<s[i], s[j]>> \in R
  <2> DEFINE n == (j - i) - 1
  <2>1. n \in Nat /\ i + n + 1 = j /\ j <= Len(s)
    BY <1>1, <1>5
  <2> HIDE DEF n
  <2>2. n \in S
    BY <1>4, <2>1
  <2> QED
    BY <2>1, <2>2
<1> QED
  BY <1>5

(***************************************************************************)
(* The descent as a path.                                                   *)
(***************************************************************************)
Path(t, key, v, w) ==
  /\ w \in Seq(Visits(t, key)) /\ Len(w) \in Nat /\ Len(w) > 0 /\ w[1] = v
  /\ \A i \in 1 .. Len(w) - 1 : Onward(t, key, w[i]) /\ w[i + 1] = After(t, key, w[i])
  /\ ~Onward(t, key, w[Len(w)])

(* A visit that goes on to the start of a path begins a longer path. *)
LEMMA PathLonger ==
  ASSUME NEW t, NEW key, NEW v \in Visits(t, key), Onward(t, key, v), NEW w, Path(t, key, After(t, key, v), w)
  PROVE  Path(t, key, v, <<v>> \o w)
<1> DEFINE x == <<v>> \o w
<1>1. w \in Seq(Visits(t, key)) /\ Len(w) \in Nat /\ Len(w) > 0
  BY DEF Path
<1>2. /\ x \in Seq(Visits(t, key)) /\ Len(x) = Len(w) + 1 /\ x[1] = v
      /\ \A i \in 2 .. Len(w) + 1 : x[i] = w[i - 1]
  BY <1>1
<1> HIDE DEF x
<1>3. ASSUME NEW i \in 1 .. Len(x) - 1 PROVE Onward(t, key, x[i]) /\ x[i + 1] = After(t, key, x[i])
  <2>1. i + 1 \in 2 .. Len(w) + 1 /\ (i + 1) - 1 = i
    BY <1>1, <1>2
  <2>2. x[i + 1] = w[i]
    BY <1>2, <2>1
  <2>3. CASE i = 1
    BY <1>2, <2>2, <2>3 DEF Path
  <2>4. CASE i # 1
    <3>1. i \in 2 .. Len(w) + 1 /\ i - 1 \in 1 .. Len(w) - 1 /\ (i - 1) + 1 = i
      BY <1>1, <1>2, <2>4
    <3>2. x[i] = w[i - 1]
      BY <1>2, <3>1
    <3> QED
      BY <2>2, <3>1, <3>2 DEF Path
  <2> QED
    BY <2>3, <2>4
<1>4. ~Onward(t, key, x[Len(x)])
  <2>1. Len(x) \in 2 .. Len(w) + 1 /\ Len(x) - 1 = Len(w)
    BY <1>1, <1>2
  <2> QED
    BY <1>2, <2>1 DEF Path
<1>5. Len(x) \in Nat /\ Len(x) > 0
  BY <1>1, <1>2
<1> QED
  BY <1>2, <1>3, <1>4, <1>5 DEF Path, x

(* A descent is a path from where it starts. *)
LEMMA DescentIsPath ==
  ASSUME NEW t, Good(t), NEW key \in Seq(Bits), NEW d \in DOMAIN t.nodes
  PROVE  Path(t, key, <<d, 0>>, Descent(t, d, key))
<1>1. PICK F : /\ F = [v \in Visits(t, key) |-> Falls(t, key, F, v)]
               /\ Descent(t, d, key) = F[<<d, 0>>]
  BY DescentForm
<1> DEFINE S == {m \in Nat : \A v \in Visits(t, key) : v[2] >= m => Path(t, key, v, F[v])}
<1>2. Len(key) \in Nat
  OBVIOUS
<1>3. ASSUME NEW v \in Visits(t, key), ~Onward(t, key, v) PROVE Path(t, key, v, F[v])
  <2>1. F[v] = <<v>>
    BY <1>1, <1>3, FallsForm
  <2> DEFINE w == <<v>>
  <2>2. w \in Seq(Visits(t, key)) /\ Len(w) = 1 /\ w[1] = v
    OBVIOUS
  <2> HIDE DEF w
  <2>3. Path(t, key, v, w)
    BY <1>3, <2>2 DEF Path
  <2> QED
    BY <2>1, <2>3 DEF w
<1>4. ASSUME NEW v \in Visits(t, key), Onward(t, key, v)
      PROVE  /\ After(t, key, v) \in Visits(t, key) /\ After(t, key, v)[2] > v[2]
             /\ v[2] \in Nat /\ After(t, key, v)[2] \in Nat /\ After(t, key, v)[2] <= Len(key)
             /\ Path(t, key, After(t, key, v), F[After(t, key, v)]) => Path(t, key, v, F[v])
  <2>1. F[v] = <<v>> \o F[After(t, key, v)]
    BY <1>1, <1>4, FallsForm
  <2>2. After(t, key, v) \in Visits(t, key) /\ After(t, key, v)[2] > v[2]
    BY <1>4, OnwardForm
  <2>3. v[2] \in Nat /\ After(t, key, v)[2] \in Nat /\ After(t, key, v)[2] <= Len(key)
    BY <1>2, <2>2 DEF Visits
  <2> QED
    BY <1>4, <2>1, <2>2, <2>3, PathLonger
<1>5. Len(key) \in S
  <2> SUFFICES ASSUME NEW v \in Visits(t, key), v[2] >= Len(key) PROVE Path(t, key, v, F[v])
    BY <1>2
  <2>1. ~Onward(t, key, v)
    BY <1>2, <1>4
  <2> QED
    BY <1>3, <2>1
<1>6. ASSUME NEW m \in 1 .. Len(key), m \in S PROVE m - 1 \in S
  <2>1. m \in Nat /\ m - 1 \in Nat
    OBVIOUS
  <2> SUFFICES ASSUME NEW v \in Visits(t, key), v[2] >= m - 1 PROVE Path(t, key, v, F[v])
    BY <2>1
  <2>2. CASE ~Onward(t, key, v)
    BY <1>3, <2>2
  <2>3. CASE Onward(t, key, v)
    <3>1. After(t, key, v)[2] >= m
      BY <1>4, <2>1, <2>3
    <3> QED
      BY <1>4, <1>6, <2>3, <3>1
  <2> QED
    BY <2>2, <2>3
<1>7. 0 \in S
  <2> HIDE DEF S
  <2> QED
    BY <1>2, <1>5, <1>6, DownInduction
<1>8. <<d, 0>> \in Visits(t, key) /\ <<d, 0>>[2] >= 0
  BY <1>2 DEF Visits
<1> QED
  BY <1>1, <1>7, <1>8

(* Each node on the path has more of the key than the one before it. *)
LEMMA PathIncreases ==
  ASSUME NEW t, Good(t), NEW key \in Seq(Bits), NEW v, NEW w, Path(t, key, v, w)
  PROVE  \A i, j \in 1 .. Len(w) : i < j => w[i][2] < w[j][2]
<1> DEFINE X == Visits(t, key)
<1> DEFINE R == {p \in X \X X : p[1][2] < p[2][2]}
<1>1. \A a \in X : a[2] \in Nat
  BY DEF Visits
<1>2. \A a, b \in X : <<a, b>> \in R <=> a[2] < b[2]
  OBVIOUS
<1>3. w \in Seq(X) /\ Len(w) \in Nat
  BY DEF Path
<1>4. ASSUME NEW i \in 1 .. Len(w) - 1 PROVE <<w[i], w[i + 1]>> \in R
  <2>1. w[i] \in X /\ w[i + 1] \in X
    BY <1>3
  <2>2. Onward(t, key, w[i]) /\ w[i + 1] = After(t, key, w[i])
    BY DEF Path
  <2>3. w[i + 1][2] > w[i][2] /\ w[i][2] \in Nat /\ w[i + 1][2] \in Nat
    BY <1>1, <2>1, <2>2, OnwardForm
  <2> HIDE DEF X, R
  <2> QED
    BY <1>2, <2>1, <2>3
<1>5. \A a, b, c \in X : <<a, b>> \in R /\ <<b, c>> \in R => <<a, c>> \in R
  <2> HIDE DEF X, R
  <2> QED
    BY <1>1, <1>2
<1> HIDE DEF X, R
<1>6. \A i, j \in 1 .. Len(w) : i < j => <<w[i], w[j]>> \in R
  BY <1>3, <1>4, <1>5, StepsRelated
<1>7. \A i \in 1 .. Len(w) : w[i] \in X
  BY <1>3
<1> QED
  BY <1>2, <1>6, <1>7

(* The nodes on the path from the root of a dictionary are those of the     *)
(* dictionary whose keys the sought key begins with.                        *)
LEMMA PathNames ==
  ASSUME NEW t, Good(t), Filed(t), NEW key \in Seq(Bits), NEW d \in DOMAIN t.nodes, t.nodes[d].parent = 0
  PROVE  LET w == Descent(t, d, key) IN \A i \in 1 .. Len(w) : w[i] \in Visits(t, key) /\ Named(t, d, key, w[i])
<1> DEFINE w == Descent(t, d, key)
<1>1. Path(t, key, <<d, 0>>, w)
  BY DescentIsPath
<1> HIDE DEF w
<1>2. w \in Seq(Visits(t, key)) /\ Len(w) \in Nat /\ w[1] = <<d, 0>>
  BY <1>1 DEF Path
<1> DEFINE S == {n \in Nat : n + 1 <= Len(w) => Named(t, d, key, w[n + 1])}
<1>3. 0 \in S
  <2>1. Keys(t)[d] = <<>> /\ Roots(t)[d] = d
    BY UpwardForm
  <2>2. SubSeq(key, 1, 0) = <<>>
    OBVIOUS
  <2>3. Named(t, d, key, <<d, 0>>)
    BY <2>1, <2>2 DEF Named
  <2>4. 0 + 1 = 1 /\ 0 \in Nat
    OBVIOUS
  <2> QED
    BY <1>2, <2>3, <2>4
<1>4. ASSUME NEW n \in S PROVE n + 1 \in S
  <2>1. n \in Nat /\ n + 1 \in Nat
    OBVIOUS
  <2> SUFFICES ASSUME (n + 1) + 1 <= Len(w) PROVE Named(t, d, key, w[(n + 1) + 1])
    BY <2>1
  <2>2. n + 1 \in 1 .. Len(w) - 1 /\ n + 1 <= Len(w) /\ n + 1 \in 1 .. Len(w)
    BY <1>2, <2>1
  <2>3. Named(t, d, key, w[n + 1]) /\ w[n + 1] \in Visits(t, key)
    BY <1>2, <2>2
  <2>4. Onward(t, key, w[n + 1]) /\ w[(n + 1) + 1] = After(t, key, w[n + 1])
    BY <1>1, <2>2 DEF Path
  <2> QED
    BY <2>3, <2>4, NamedAfter
<1>5. S = Nat
  <2>1. S \in SUBSET Nat
    OBVIOUS
  <2> HIDE DEF S
  <2> QED
    BY <1>3, <1>4, <2>1, SetInduction
<1>6. ASSUME NEW i \in 1 .. Len(w) PROVE w[i] \in Visits(t, key) /\ Named(t, d, key, w[i])
  <2>1. i - 1 \in Nat /\ (i - 1) + 1 = i /\ i <= Len(w)
    BY <1>2
  <2>2. i - 1 \in S
    BY <1>5, <2>1
  <2> QED
    BY <1>2, <2>1, <2>2
<1> QED
  BY <1>6 DEF w

(* A descent through a key visits every node of the dictionary whose key    *)
(* begins it.                                                               *)
LEMMA PathReaches ==
  ASSUME NEW t, Good(t), Filed(t), NEW key \in Seq(Bits), NEW d \in DOMAIN t.nodes, t.nodes[d].parent = 0,
         NEW m \in DOMAIN t.nodes, Roots(t)[m] = d, IsPrefix(Keys(t)[m], key)
  PROVE  LET w == Descent(t, d, key) IN \E i \in 1 .. Len(w) : w[i] = <<m, Len(Keys(t)[m])>>
<1> DEFINE w == Descent(t, d, key)
<1>1. Path(t, key, <<d, 0>>, w)
  BY DescentIsPath
<1> HIDE DEF w
<1> DEFINE At(n) == <<n, Len(Keys(t)[n])>>
<1> DEFINE Met(n) == \E i \in 1 .. Len(w) : w[i] = At(n)
<1> DEFINE S == {l \in Nat : \A n \in DOMAIN t.nodes :
                   Roots(t)[n] = d /\ IsPrefix(Keys(t)[n], key) /\ Len(Keys(t)[n]) <= l => Met(n)}
<1>2. w \in Seq(Visits(t, key)) /\ Len(w) \in Nat /\ Len(w) > 0 /\ w[1] = <<d, 0>>
  BY <1>1 DEF Path
<1>3. ASSUME NEW n \in DOMAIN t.nodes, t.nodes[n].parent = 0, Roots(t)[n] = d PROVE Met(n)
  <2>1. n = d /\ Len(Keys(t)[n]) = 0
    BY <1>3, UpwardForm
  <2>2. w[1] = At(n) /\ 1 \in 1 .. Len(w)
    BY <1>2, <2>1
  <2> QED
    BY <2>2
<1>4. ASSUME NEW n \in DOMAIN t.nodes, t.nodes[n].parent # 0, IsPrefix(Keys(t)[n], key)
      PROVE  \E p \in DOMAIN t.nodes :
             /\ Roots(t)[n] = Roots(t)[p] /\ IsPrefix(Keys(t)[p], key)
             /\ Len(Keys(t)[p]) \in Nat /\ Len(Keys(t)[n]) \in Nat /\ Len(Keys(t)[p]) < Len(Keys(t)[n])
             /\ Met(p) => Met(n)
  <2> DEFINE p == t.nodes[n].parent
  <2> DEFINE e == Edge(t, n)
  <2>1. /\ p \in DOMAIN t.nodes /\ e \in Seq(Bits) /\ Len(e) \in Nat /\ Len(e) > 0 /\ e # <<>>
        /\ Child(t, p, Head(e)) = n
    BY <1>4, EdgeOfChild DEF Filed
  <2>2. Keys(t)[n] = Keys(t)[p] \o e /\ Roots(t)[n] = Roots(t)[p] /\ Keys(t)[p] \in Seq(Bits)
    BY <1>4, <2>1, UpwardForm
  <2> HIDE DEF e, p
  <2>3. Len(Keys(t)[n]) = Len(Keys(t)[p]) + Len(e) /\ Len(Keys(t)[p]) \in Nat
    BY <2>1, <2>2, ConcatThree
  <2>4. /\ IsPrefix(Keys(t)[p], key) /\ Len(Keys(t)[p]) \in 0 .. Len(key) /\ Rest(key, Len(Keys(t)[p])) # <<>>
        /\ IsPrefix(e, Rest(key, Len(Keys(t)[p]))) /\ Head(Rest(key, Len(Keys(t)[p]))) = Head(e)
    BY <1>4, <2>1, <2>2, EdgeIsNext
  <2>5. At(p) \in Visits(t, key) /\ At(p)[1] = p /\ At(p)[2] = Len(Keys(t)[p])
    BY <2>1, <2>4 DEF Visits
  <2>d. At(p) = <<p, Len(Keys(t)[p])>> /\ At(n) = <<n, Len(Keys(t)[n])>>
    OBVIOUS
  <2> HIDE DEF At
  <2>6. Ahead(t, key, At(p)) = n
    BY <2>1, <2>4, <2>5 DEF Ahead
  <2>7. n # 0
    BY DEF Good, Linked, Typed
  <2>8. Onward(t, key, At(p))
    BY <2>4, <2>5, <2>6, <2>7 DEF Onward, e
  <2>9. After(t, key, At(p)) = At(n)
    BY <2>3, <2>5, <2>6, <2>d DEF After, e
  <2>10. ASSUME NEW i \in 1 .. Len(w), w[i] = At(p) PROVE Met(n)
    <3>1. i # Len(w)
      BY <1>1, <2>8, <2>10 DEF Path
    <3>2. i \in 1 .. Len(w) - 1 /\ i + 1 \in 1 .. Len(w)
      BY <1>2, <3>1
    <3>3. w[i + 1] = At(n)
      BY <1>1, <2>9, <2>10, <3>2 DEF Path
    <3> QED
      BY <3>2, <3>3
  <2>11. Len(Keys(t)[n]) \in Nat /\ Len(Keys(t)[p]) < Len(Keys(t)[n])
    BY <2>1, <2>3
  <2> QED
    BY <2>1, <2>2, <2>3, <2>4, <2>10, <2>11
<1> HIDE DEF Met
<1>5. ASSUME NEW n \in DOMAIN t.nodes PROVE Len(Keys(t)[n]) \in Nat
  BY UpwardForm
<1>6. 0 \in S
  <2> SUFFICES ASSUME NEW n \in DOMAIN t.nodes, Roots(t)[n] = d, IsPrefix(Keys(t)[n], key), Len(Keys(t)[n]) <= 0
               PROVE  Met(n)
    OBVIOUS
  <2>1. \A i, j \in Nat : ~(i < j /\ j <= 0)
    OBVIOUS
  <2>2. t.nodes[n].parent = 0
    BY <1>4, <2>1
  <2> QED
    BY <1>3, <2>2
<1>7. ASSUME NEW l \in S PROVE l + 1 \in S
  <2>1. l \in Nat /\ l + 1 \in Nat
    OBVIOUS
  <2> SUFFICES ASSUME NEW n \in DOMAIN t.nodes, Roots(t)[n] = d, IsPrefix(Keys(t)[n], key), Len(Keys(t)[n]) <= l + 1
               PROVE  Met(n)
    BY <2>1
  <2>2. CASE t.nodes[n].parent = 0
    BY <1>3, <2>2
  <2>3. CASE t.nodes[n].parent # 0
    <3>1. PICK p \in DOMAIN t.nodes :
             /\ Roots(t)[n] = Roots(t)[p] /\ IsPrefix(Keys(t)[p], key)
             /\ Len(Keys(t)[p]) \in Nat /\ Len(Keys(t)[n]) \in Nat /\ Len(Keys(t)[p]) < Len(Keys(t)[n])
             /\ Met(p) => Met(n)
      BY <1>4, <2>3
    <3>2. Len(Keys(t)[p]) <= l
      BY <2>1, <3>1
    <3> QED
      BY <3>1, <3>2
  <2> QED
    BY <2>2, <2>3
<1>8. S = Nat
  <2>1. S \in SUBSET Nat
    OBVIOUS
  <2> HIDE DEF S
  <2> QED
    BY <1>6, <1>7, <2>1, SetInduction
<1>9. Met(m)
  <2>1. Len(Keys(t)[m]) <= Len(Keys(t)[m]) /\ Len(Keys(t)[m]) \in Nat
    BY <1>5
  <2> QED
    BY <1>8, <2>1
<1> QED
  BY <1>9 DEF Met, w

(***************************************************************************)
(* What the list of phrases tells of a node.                                *)
(***************************************************************************)
LEMMA ItemOfNode ==
  ASSUME NEW t, Good(t), Filed(t), NEW n \in DOMAIN t.nodes, Populated(t, n)
  PROVE  LET y == t.nodes[n].item IN
         /\ y \in DOMAIN t.items /\ y \in Nat /\ t.items[y].node = n
         /\ Position(t, y) \in DOMAIN PhrasesOf(t) /\ Position(t, y) \in Nat /\ Position(t, y) # 0
         /\ Order(t)[Position(t, y)] = y /\ PhrasesOf(t)[Position(t, y)] = Told(t, y)
<1> DEFINE y == t.nodes[n].item
<1>1. y \in DOMAIN t.items /\ t.items[y].node = n /\ y \in Nat
  <2>1. y \in DOMAIN t.items \cup {0} /\ y # 0 /\ DOMAIN t.items \subseteq Nat
    BY ItemsDown DEF Good, Linked, NodeLinks, Populated
  <2>2. t.items[y].node = n
    BY <2>1 DEF Good, NodeGood
  <2> QED
    BY <2>1, <2>2
<1> HIDE DEF y
<1>2. Position(t, y) \in DOMAIN Order(t) /\ Order(t)[Position(t, y)] = y
  BY <1>1 DEF Filed, Listed
<1>3. /\ Position(t, y) \in DOMAIN PhrasesOf(t) /\ Position(t, y) \in 1 .. Len(Order(t)) /\ Len(Order(t)) \in Nat
      /\ PhrasesOf(t)[Position(t, y)] = Told(t, Order(t)[Position(t, y)])
  BY <1>2, PhrasesForm
<1>4. Position(t, y) \in Nat /\ Position(t, y) # 0
  BY <1>3
<1> QED
  BY <1>1, <1>2, <1>3, <1>4 DEF y

(* An older item is told earlier. *)
LEMMA PositionGrows ==
  ASSUME NEW t, Good(t), Filed(t), NEW x \in Nat, NEW y \in Nat, x <= y
  PROVE  Position(t, x) <= Position(t, y)
<1> DEFINE U == {j \in DOMAIN t.items : j <= x}
<1> DEFINE V == {j \in DOMAIN t.items : j <= y}
<1>1. U \subseteq V
  BY ItemsDown
<1>2. IsFiniteSet(V)
  <2>1. V \subseteq DOMAIN t.items /\ IsFiniteSet(DOMAIN t.items)
    BY DEF Filed, Listed
  <2> HIDE DEF V
  <2> QED
    BY <2>1, FS_Subset
<1> HIDE DEF U, V
<1>3. Cardinality(U) <= Cardinality(V)
  BY <1>1, <1>2, FS_Subset
<1> QED
  BY <1>3 DEF Position, U, V

(* A phrase that is told is that of an item of the one node of its key, and *)
(* not newer than the item this node shows.                                 *)
LEMMA ToldAtNode ==
  ASSUME NEW t, Good(t), Filed(t), NEW d \in Dictionaries(t), NEW i \in DOMAIN PhrasesOf(t),
         PhrasesOf(t)[i].dict = DictionaryOf(t, d)
  PROVE  \E n \in DOMAIN t.nodes :
           /\ Roots(t)[n] = d /\ Keys(t)[n] = PhrasesOf(t)[i].key
           /\ Populated(t, n) /\ i <= Position(t, t.nodes[n].item)
<1> DEFINE x == Order(t)[i]
<1>1. /\ i \in Nat /\ x \in DOMAIN t.items /\ PhrasesOf(t)[i] = Told(t, x) /\ i \in DOMAIN Order(t)
      /\ DOMAIN PhrasesOf(t) = DOMAIN Order(t)
  BY PhrasesForm
<1>2. Position(t, x) = i
  BY <1>1 DEF Filed, Listed
<1> HIDE DEF x
<1> DEFINE n == t.items[x].node
<1>3. x \in Nat /\ x # 0 /\ n \in DOMAIN t.nodes
  BY <1>1, ItemsDown, ToldForm
<1>4. Keys(t)[n] = PhrasesOf(t)[i].key /\ DictionaryOf(t, Roots(t)[n]) = DictionaryOf(t, d)
  BY <1>1 DEF Told
<1>5. x <= t.nodes[n].item
  BY <1>1 DEF Filed
<1> HIDE DEF n
<1>6. Roots(t)[n] = d
  BY <1>3, <1>4, RootsAreDictionaries, DictionaryIs
<1>7. Populated(t, n) /\ t.nodes[n].item \in Nat
  <2>1. t.nodes[n].item \in DOMAIN t.items \cup {0} /\ DOMAIN t.items \subseteq Nat
    BY <1>3, ItemsDown DEF Good, Linked, NodeLinks
  <2>2. t.nodes[n].item \in Nat
    BY <2>1
  <2> QED
    BY <1>3, <1>5, <2>2 DEF Populated
<1>8. i <= Position(t, t.nodes[n].item)
  BY <1>2, <1>3, <1>5, <1>7, PositionGrows
<1> QED
  BY <1>3, <1>4, <1>6, <1>7, <1>8

(* The newest phrase of a node's key is the one of the item it shows. *)
LEMMA NewestOfNode ==
  ASSUME NEW t, Good(t), Filed(t), NEW n \in DOMAIN t.nodes
  PROVE  Log!NewestIn(PhrasesOf(t), DictionaryOf(t, Roots(t)[n]), Keys(t)[n]) =
           IF Populated(t, n) THEN Position(t, t.nodes[n].item) ELSE 0
<1> DEFINE s == PhrasesOf(t)
<1> DEFINE d == Roots(t)[n]
<1> DEFINE found == {i \in DOMAIN s : s[i].dict = DictionaryOf(t, d) /\ s[i].key = Keys(t)[n]}
<1>1. Log!NewestIn(s, DictionaryOf(t, d), Keys(t)[n]) =
        IF found = {} THEN 0 ELSE CHOOSE i \in found : \A j \in found : j <= i
  BY DEF Log!NewestIn
<1>2. ASSUME NEW i \in found PROVE Populated(t, n) /\ i <= Position(t, t.nodes[n].item)
  <2>1. PICK m \in DOMAIN t.nodes :
           /\ Roots(t)[m] = d /\ Keys(t)[m] = s[i].key
           /\ Populated(t, m) /\ i <= Position(t, t.nodes[m].item)
    BY RootsAreDictionaries, ToldAtNode
  <2>2. m = n
    BY <2>1, KeysAreUnique
  <2> QED
    BY <2>1, <2>2
<1>3. CASE ~Populated(t, n)
  <2>1. found = {}
    BY <1>2, <1>3
  <2> QED
    BY <1>1, <1>3, <2>1
<1>4. CASE Populated(t, n)
  <2> DEFINE i == Position(t, t.nodes[n].item)
  <2>1. i \in Nat /\ i \in DOMAIN s /\ s[i] = Told(t, t.nodes[n].item) /\ t.items[t.nodes[n].item].node = n
    BY <1>4, ItemOfNode
  <2>2. i \in found
    BY <2>1 DEF Told
  <2>3. \A j \in found : j <= i
    BY <1>2
  <2>4. found \subseteq Nat
    BY PhrasesForm
  <2> HIDE DEF i, found
  <2>5. (CHOOSE j \in found : \A k \in found : k <= j) = i
    <3>1. ASSUME NEW j \in found, \A k \in found : k <= j PROVE j = i
      BY <2>2, <2>3, <2>4, <3>1
    <3> QED
      BY <2>2, <2>3, <3>1
  <2> QED
    BY <1>1, <1>4, <2>2, <2>5 DEF i
<1> QED
  BY <1>3, <1>4

(* A phrase that is listed has a node. *)
LEMMA NewestHasNode ==
  ASSUME NEW t, Good(t), Filed(t), NEW d \in Dictionaries(t), NEW k,
         Log!NewestIn(PhrasesOf(t), DictionaryOf(t, d), k) # 0
  PROVE  \E n \in DOMAIN t.nodes : Roots(t)[n] = d /\ Keys(t)[n] = k /\ Populated(t, n)
<1> DEFINE i == Log!NewestIn(PhrasesOf(t), DictionaryOf(t, d), k)
<1>1. i \in DOMAIN PhrasesOf(t) /\ PhrasesOf(t)[i].dict = DictionaryOf(t, d) /\ PhrasesOf(t)[i].key = k
  BY PhrasesForm, NewestForm
<1> HIDE DEF i
<1> QED
  BY <1>1, ToldAtNode

(***************************************************************************)
(* The three ways to match.                                                 *)
(***************************************************************************)
LEMMA LeastAndGreatest ==
  ASSUME NEW e \in Nat, NEW S \in SUBSET (1 .. e), S # {}
  PROVE  /\ Min(S) \in S /\ \A i \in S : Min(S) <= i
         /\ Max(S) \in S /\ \A i \in S : i <= Max(S)
<1>1. \E x \in S : \A y \in S : x <= y
  <2>1. S \in SUBSET Nat
    OBVIOUS
  <2> QED
    BY <2>1, LeastNatural
<1>2. \E x \in S : \A y \in S : y <= x
  <2>1. S \in SUBSET (0 .. e)
    OBVIOUS
  <2> QED
    BY <2>1, GreatestNatural
<1>3. \A x, y \in S : x >= y <=> y <= x
  OBVIOUS
<1> QED
  BY <1>1, <1>2, <1>3, Zenon DEF Min, Max

(* The populated nodes of a dictionary that a text begins with. *)
Begins(t, d, key, n) == n \in DOMAIN t.nodes /\ Roots(t)[n] = d /\ Populated(t, n) /\ IsPrefix(Keys(t)[n], key)

(* The first bits of a key begin it. *)
LEMMA BitsFront ==
  ASSUME NEW key \in Seq(Bits), NEW k \in 0 .. Len(key)
  PROVE  /\ SubSeq(key, 1, k) \in Seq(Bits) /\ Len(SubSeq(key, 1, k)) = k /\ IsPrefix(SubSeq(key, 1, k), key)
         /\ \A i \in 1 .. k : SubSeq(key, 1, k)[i] = key[i]
<1>1. SubSeq(key, 1, k) \in Seq(Bits) /\ Len(SubSeq(key, 1, k)) = k /\ \A i \in 1 .. k : SubSeq(key, 1, k)[i] = key[i]
  OBVIOUS
<1>2. IsPrefix(SubSeq(key, 1, k), key)
  <2>1. k <= Len(key)
    OBVIOUS
  <2> DEFINE s == SubSeq(key, 1, k)
  <2>2. s \in Seq(Bits) /\ Len(s) <= Len(key) /\ \A i \in 1 .. Len(s) : s[i] = key[i]
    BY <1>1, <2>1
  <2> HIDE DEF s
  <2>3. IsPrefix(s, key)
    BY <2>2, PrefixForm
  <2> QED
    BY <2>3 DEF s
<1> QED
  BY <1>1, <1>2

(* The candidates of a descent, from its start on, are the nodes with a     *)
(* phrase whose keys begin the key, the shorter keys first.                 *)
LEMMA CandidatesForm ==
  ASSUME NEW t, Good(t), Filed(t), NEW d \in Dictionaries(t), NEW key \in Seq(Bits)
  PROVE  LET path == Descent(t, d, key)
             found == Candidates(t, path)
         IN  /\ Len(path) \in Nat /\ found \in SUBSET (1 .. Len(path))
             /\ \A i \in found : /\ Begins(t, d, key, path[i][1]) /\ path[i][2] \in 0 .. Len(key)
                                 /\ Keys(t)[path[i][1]] = SubSeq(key, 1, path[i][2])
             /\ \A i, j \in found : i <= j => path[i][2] <= path[j][2]
             /\ \A n : Begins(t, d, key, n) => \E i \in found : path[i] = <<n, Len(Keys(t)[n])>>
<1> DEFINE path == Descent(t, d, key)
<1> DEFINE found == Candidates(t, path)
<1>1. d \in DOMAIN t.nodes /\ t.nodes[d].parent = 0
  BY FiledRoot
<1>2. Path(t, key, <<d, 0>>, path)
  BY <1>1, DescentIsPath
<1>3. path \in Seq(Visits(t, key)) /\ Len(path) \in Nat /\ DOMAIN path = 1 .. Len(path)
  BY <1>2 DEF Path
<1>4. found = {i \in 1 .. Len(path) : Populated(t, path[i][1])}
  BY <1>3 DEF Candidates
<1>5. \A i \in 1 .. Len(path) : path[i] \in Visits(t, key) /\ Named(t, d, key, path[i])
  BY <1>1, PathNames
<1>6. ASSUME NEW n, Begins(t, d, key, n) PROVE \E i \in 1 .. Len(path) : path[i] = <<n, Len(Keys(t)[n])>>
  BY <1>1, <1>6, PathReaches DEF Begins
<1>7. \A i, j \in 1 .. Len(path) : i < j => path[i][2] < path[j][2]
  BY <1>2, PathIncreases
<1> HIDE DEF path, found
<1>8. \A i \in 1 .. Len(path) : path[i][1] \in DOMAIN t.nodes /\ path[i][2] \in 0 .. Len(key)
  BY <1>5 DEF Visits
<1>9. ASSUME NEW i \in found
      PROVE  /\ Begins(t, d, key, path[i][1]) /\ path[i][2] \in 0 .. Len(key)
             /\ Keys(t)[path[i][1]] = SubSeq(key, 1, path[i][2])
  <2>1. i \in 1 .. Len(path) /\ Populated(t, path[i][1])
    BY <1>4
  <2>2. Keys(t)[path[i][1]] = SubSeq(key, 1, path[i][2]) /\ Roots(t)[path[i][1]] = d
    BY <1>5, <2>1 DEF Named
  <2>3. IsPrefix(SubSeq(key, 1, path[i][2]), key)
    BY <1>8, <2>1, BitsFront
  <2> QED
    BY <1>8, <2>1, <2>2, <2>3 DEF Begins
<1>10. ASSUME NEW n, Begins(t, d, key, n) PROVE \E i \in found : path[i] = <<n, Len(Keys(t)[n])>>
  <2>1. PICK i \in 1 .. Len(path) : path[i] = <<n, Len(Keys(t)[n])>>
    BY <1>6, <1>10
  <2>2. i \in found
    BY <1>4, <1>10, <2>1 DEF Begins
  <2> QED
    BY <2>1, <2>2
<1>11. ASSUME NEW i \in found, NEW j \in found, i <= j PROVE path[i][2] <= path[j][2]
  <2>1. i \in 1 .. Len(path) /\ j \in 1 .. Len(path)
    BY <1>4
  <2>2. i = j \/ path[i][2] < path[j][2]
    BY <1>7, <1>11, <2>1
  <2> QED
    BY <1>8, <2>1, <2>2
<1>12. found \in SUBSET (1 .. Len(path))
  BY <1>4
<1> QED
  BY <1>3, <1>9, <1>10, <1>11, <1>12 DEF path, found

(* The first match is the shortest key, the longest one the longest key, of *)
(* those the text begins with.                                              *)
LEMMA MatchForm ==
  ASSUME NEW t, Good(t), Filed(t), NEW d \in Dictionaries(t), NEW key \in Seq(Bits),
         NEW match, match = MatchFirst(t, d, key) \/ match = MatchLongest(t, d, key)
  PROVE  /\ match.node = 0 <=> \A n : ~Begins(t, d, key, n)
         /\ match.node # 0 => /\ Begins(t, d, key, match.node) /\ match.bits \in 0 .. Len(key)
                              /\ Keys(t)[match.node] = SubSeq(key, 1, match.bits)
         /\ \A n : Begins(t, d, key, n) =>
              /\ match = MatchFirst(t, d, key) => match.bits <= Len(Keys(t)[n])
              /\ match = MatchLongest(t, d, key) => Len(Keys(t)[n]) <= match.bits
<1> DEFINE path == Descent(t, d, key)
<1> DEFINE found == Candidates(t, path)
<1>1. /\ MatchFirst(t, d, key) = IF found = {} THEN NoMatch(Stop(t, d, key)) ELSE Matched(path[Min(found)], FALSE)
      /\ MatchLongest(t, d, key) = IF found = {} THEN NoMatch(Stop(t, d, key)) ELSE Matched(path[Max(found)], Stop(t, d, key))
  BY DEF MatchFirst, MatchLongest
<1>2. /\ Len(path) \in Nat /\ found \in SUBSET (1 .. Len(path))
      /\ \A i \in found : /\ Begins(t, d, key, path[i][1]) /\ path[i][2] \in 0 .. Len(key)
                          /\ Keys(t)[path[i][1]] = SubSeq(key, 1, path[i][2])
      /\ \A i, j \in found : i <= j => path[i][2] <= path[j][2]
      /\ \A n : Begins(t, d, key, n) => \E i \in found : path[i] = <<n, Len(Keys(t)[n])>>
  BY CandidatesForm
<1> HIDE DEF path, found
<1>3. CASE found = {}
  <2>1. match.node = 0
    BY <1>1, <1>3 DEF NoMatch
  <2>2. \A n : ~Begins(t, d, key, n)
    BY <1>2, <1>3
  <2> QED
    BY <2>1, <2>2
<1>4. CASE found # {}
  <2>1. /\ Min(found) \in found /\ \A i \in found : Min(found) <= i
        /\ Max(found) \in found /\ \A i \in found : i <= Max(found)
    BY <1>2, <1>4, LeastAndGreatest
  <2>2. PICK i \in found : /\ match.node = path[i][1] /\ match.bits = path[i][2]
                           /\ match = MatchFirst(t, d, key) => match.bits = path[Min(found)][2]
                           /\ match = MatchLongest(t, d, key) => match.bits = path[Max(found)][2]
    <3>1. /\ match = MatchFirst(t, d, key) => match.node = path[Min(found)][1] /\ match.bits = path[Min(found)][2]
          /\ match = MatchLongest(t, d, key) => match.node = path[Max(found)][1] /\ match.bits = path[Max(found)][2]
      BY <1>1, <1>4 DEF Matched
    <3> QED
      BY <2>1, <3>1
  <2>3. match.node # 0
    BY <1>2, <2>2 DEF Begins, Good, Linked, Typed
  <2>4. ASSUME NEW n, Begins(t, d, key, n)
        PROVE  /\ match = MatchFirst(t, d, key) => match.bits <= Len(Keys(t)[n])
               /\ match = MatchLongest(t, d, key) => Len(Keys(t)[n]) <= match.bits
    <3>1. PICK j \in found : path[j] = <<n, Len(Keys(t)[n])>>
      BY <1>2, <2>4
    <3>2. path[j][2] = Len(Keys(t)[n])
      BY <3>1
    <3> QED
      BY <1>2, <2>1, <2>2, <3>2
  <2> QED
    BY <1>2, <2>2, <2>3, <2>4
<1> QED
  BY <1>3, <1>4

(* An exact match answers with the node of the key, if there is one with a  *)
(* phrase.                                                                  *)
LEMMA MatchExactForm ==
  ASSUME NEW t, Good(t), Filed(t), NEW d \in Dictionaries(t), NEW key \in Seq(Bits)
  PROVE  /\ MatchExact(t, d, key).node # 0 => /\ Begins(t, d, key, MatchExact(t, d, key).node)
                                              /\ Keys(t)[MatchExact(t, d, key).node] = key
         /\ MatchExact(t, d, key).node = 0 => \A n : Begins(t, d, key, n) => Keys(t)[n] # key
<1> DEFINE longest == MatchLongest(t, d, key)
<1>1. MatchExact(t, d, key) = IF longest.node # 0 /\ longest.bits = Len(key) THEN [longest EXCEPT !.more = FALSE]
                              ELSE NoMatch(Stop(t, d, key))
  BY DEF MatchExact, Whole
<1>2. /\ longest.node # 0 => /\ Begins(t, d, key, longest.node) /\ longest.bits \in 0 .. Len(key)
                             /\ Keys(t)[longest.node] = SubSeq(key, 1, longest.bits)
      /\ \A n : Begins(t, d, key, n) => longest.node # 0 /\ Len(Keys(t)[n]) <= longest.bits
  BY MatchForm
<1>t. \E a, b, m : longest = [node |-> a, bits |-> b, more |-> m]
  BY DEF MatchLongest, Matched, NoMatch
<1> HIDE DEF longest
<1>3. Len(key) \in Nat /\ SubSeq(key, 1, Len(key)) = key
  OBVIOUS
<1>4. CASE longest.node # 0 /\ longest.bits = Len(key)
  <2>1. MatchExact(t, d, key).node = longest.node
    BY <1>1, <1>4, <1>t
  <2> QED
    BY <1>2, <1>3, <1>4, <2>1
<1>5. CASE ~(longest.node # 0 /\ longest.bits = Len(key))
  <2>1. MatchExact(t, d, key).node = 0
    BY <1>1, <1>5 DEF NoMatch
  <2>2. ASSUME NEW n, Begins(t, d, key, n), Keys(t)[n] = key PROVE FALSE
    BY <1>2, <1>3, <1>5, <2>2
  <2> QED
    BY <2>1, <2>2
<1> QED
  BY <1>4, <1>5

(* Every phrase has a key of the program. *)
KInv == \A i \in DOMAIN PhrasesOf(tree) : PhrasesOf(tree)[i].key \in program.keys

(* The keys of phrases that begin a text are those of the nodes that do. *)
LEMMA StartsForm ==
  ASSUME Good(tree), Filed(tree), KInv, NEW d \in Dictionaries(tree), NEW p
  PROVE  {k \in PopulatedKeys(PhrasesOf(tree), d) : IsPrefix(k, p)} = {Keys(tree)[n] : n \in {m \in DOMAIN tree.nodes : Begins(tree, d, p, m)}}
<1> DEFINE phrases == PhrasesOf(tree)
<1> DEFINE starts == {k \in PopulatedKeys(phrases, d) : IsPrefix(k, p)}
<1>1. ASSUME NEW k \in starts PROVE \E n \in DOMAIN tree.nodes : Begins(tree, d, p, n) /\ Keys(tree)[n] = k
  <2>1. Log!NewestIn(phrases, DictionaryOf(tree, d), k) # 0 /\ IsPrefix(k, p)
    BY DEF PopulatedKeys, Newest
  <2> QED
    BY <2>1, NewestHasNode DEF Begins
<1>2. ASSUME NEW n \in DOMAIN tree.nodes, Begins(tree, d, p, n) PROVE Keys(tree)[n] \in starts
  <2> DEFINE i == Position(tree, tree.nodes[n].item)
  <2>1. i \in DOMAIN phrases /\ i # 0 /\ phrases[i] = Told(tree, tree.nodes[n].item) /\ tree.items[tree.nodes[n].item].node = n
    BY <1>2, ItemOfNode DEF Begins
  <2>2. Log!NewestIn(phrases, DictionaryOf(tree, d), Keys(tree)[n]) = i
    BY <1>2, NewestOfNode DEF Begins
  <2>3. Keys(tree)[n] \in program.keys
    BY <2>1 DEF Told, KInv
  <2> HIDE DEF i
  <2>4. Keys(tree)[n] \in PopulatedKeys(phrases, d)
    BY <2>1, <2>2, <2>3 DEF PopulatedKeys, Newest
  <2> QED
    BY <1>2, <2>4 DEF Begins
<1> HIDE DEF starts
<1>3. starts = {Keys(tree)[n] : n \in {m \in DOMAIN tree.nodes : Begins(tree, d, p, m)}}
  BY <1>1, <1>2
<1> QED
  BY <1>3 DEF starts

(* What is found at a matched node is the newest phrase of its key in the   *)
(* list.                                                                    *)
LEMMA FoundForm ==
  ASSUME Good(tree), Filed(tree), NEW d \in Dictionaries(tree), NEW p, NEW match, NEW k,
         match.node # 0, Begins(tree, d, p, match.node), Keys(tree)[match.node] = k
  PROVE  FoundItem(match) = Newest(PhrasesOf(tree), d, k)
BY NewestOfNode DEF FoundItem, Newest, Begins

(* The three ways to match by a key answer as a search of the list would. *)
LEMMA TreeMatchesAgree ==
  ASSUME Good(tree), Filed(tree), KInv
  PROVE  MatchesAgree
<1> DEFINE phrases == PhrasesOf(tree)
<1> SUFFICES ASSUME NEW d \in Dictionaries(tree), NEW p \in Probes
    PROVE  LET starts == {k \in PopulatedKeys(phrases, d) : IsPrefix(k, p)}
               first == MatchFirst(tree, d, p)
               longest == MatchLongest(tree, d, p)
           IN  /\ FoundItem(MatchExact(tree, d, p)) = Newest(phrases, d, p)
               /\ first.node = 0 <=> starts = {}
               /\ longest.node = 0 <=> starts = {}
               /\ \A k \in starts : first.bits <= Len(k) /\ Len(k) <= longest.bits
               /\ \A match \in {first, longest} :
                    match.node # 0 => FoundItem(match) = Newest(phrases, d, SubSeq(p, 1, match.bits))
  BY DEF MatchesAgree
<1> DEFINE starts == {k \in PopulatedKeys(phrases, d) : IsPrefix(k, p)}
<1> DEFINE first == MatchFirst(tree, d, p)
<1> DEFINE longest == MatchLongest(tree, d, p)
<1> DEFINE exact == MatchExact(tree, d, p)
<1>1. p \in Seq(Bits)
  BY ProbesAssumption
<1>2. starts = {Keys(tree)[n] : n \in {m \in DOMAIN tree.nodes : Begins(tree, d, p, m)}}
  BY StartsForm
<1>3. \A n : Begins(tree, d, p, n) => n \in DOMAIN tree.nodes
  BY DEF Begins
<1> HIDE DEF starts
<1>4. ASSUME NEW match \in {first, longest}
      PROVE  /\ match.node = 0 <=> \A n : ~Begins(tree, d, p, n)
             /\ match.node # 0 => /\ Begins(tree, d, p, match.node)
                                  /\ Keys(tree)[match.node] = SubSeq(p, 1, match.bits)
             /\ \A n : Begins(tree, d, p, n) =>
                  /\ match = first => match.bits <= Len(Keys(tree)[n])
                  /\ match = longest => Len(Keys(tree)[n]) <= match.bits
  BY <1>1, MatchForm
<1>5. /\ exact.node # 0 => Begins(tree, d, p, exact.node) /\ Keys(tree)[exact.node] = p
      /\ exact.node = 0 => \A n : Begins(tree, d, p, n) => Keys(tree)[n] # p
  BY <1>1, MatchExactForm
<1> HIDE DEF first, longest, exact
<1>6. FoundItem(exact) = Newest(phrases, d, p)
  <2>1. CASE exact.node # 0
    BY <1>5, <2>1, FoundForm
  <2>2. CASE exact.node = 0
    <3>1. ASSUME Newest(phrases, d, p) # 0 PROVE FALSE
      <4>1. PICK n \in DOMAIN tree.nodes : Roots(tree)[n] = d /\ Keys(tree)[n] = p /\ Populated(tree, n)
        BY <3>1, NewestHasNode DEF Newest
      <4>2. IsPrefix(p, p)
        BY <1>1, PrefixForm
      <4> QED
        BY <1>5, <2>2, <4>1, <4>2 DEF Begins
    <3> QED
      BY <2>2, <3>1 DEF FoundItem
  <2> QED
    BY <2>1, <2>2
<1>7. \A match \in {first, longest} : match.node = 0 <=> starts = {}
  BY <1>2, <1>3, <1>4
<1>8. \A k \in starts : first.bits <= Len(k) /\ Len(k) <= longest.bits
  BY <1>2, <1>4
<1>9. \A match \in {first, longest} : match.node # 0 => FoundItem(match) = Newest(phrases, d, SubSeq(p, 1, match.bits))
  BY <1>4, FoundForm
<1> QED
  BY <1>6, <1>7, <1>8, <1>9 DEF first, longest, exact, starts

(***************************************************************************)
(* Keys below a node.                                                       *)
(***************************************************************************)
LEMMA StrictForm ==
  ASSUME NEW s \in Seq(Bits), NEW r \in Seq(Bits)
  PROVE  IsStrictPrefix(s, r) <=> Len(s) < Len(r) /\ \A i \in 1 .. Len(s) : s[i] = r[i]
<1>1. IsPrefix(s, r) <=> Len(s) <= Len(r) /\ \A i \in 1 .. Len(s) : s[i] = r[i]
  BY PrefixForm
<1>2. Len(s) \in Nat /\ Len(r) \in Nat
  OBVIOUS
<1>3. ASSUME Len(s) = Len(r), \A i \in 1 .. Len(s) : s[i] = r[i] PROVE s = r
  BY <1>3
<1> QED
  BY <1>1, <1>2, <1>3 DEF IsStrictPrefix

(* What the name of a child says of the name of its node. *)
Hangs(t, n, bit, c) ==
  /\ c \in DOMAIN t.nodes /\ t.nodes[c].parent = n /\ n # 0 /\ Roots(t)[c] = Roots(t)[n]
  /\ Keys(t)[n] \in Seq(Bits) /\ Keys(t)[c] \in Seq(Bits)
  /\ Len(Keys(t)[n]) \in Nat /\ Len(Keys(t)[c]) \in Nat
  /\ Edge(t, c) \in Seq(Bits) /\ Len(Edge(t, c)) \in Nat /\ Len(Edge(t, c)) > 0
  /\ Len(Keys(t)[c]) = Len(Keys(t)[n]) + Len(Edge(t, c))
  /\ \A i \in 1 .. Len(Keys(t)[n]) : Keys(t)[c][i] = Keys(t)[n][i]
  /\ \A i \in 1 .. Len(Edge(t, c)) : Keys(t)[c][Len(Keys(t)[n]) + i] = Edge(t, c)[i]
  /\ Keys(t)[c][Len(Keys(t)[n]) + 1] = bit
  /\ IsStrictPrefix(Keys(t)[n], Keys(t)[c])

(* A child goes on from the key of its parent, with the bit it hangs on. *)
LEMMA ChildNamed ==
  ASSUME NEW t, Good(t), Filed(t), NEW n \in DOMAIN t.nodes, NEW bit \in Bits, NEW c, c = Child(t, n, bit), c # 0
  PROVE  Hangs(t, n, bit, c)
<1>1. c \in DOMAIN t.nodes /\ Edge(t, c) \in Seq(Bits) /\ Len(Edge(t, c)) \in Nat /\ Len(Edge(t, c)) > 0 /\ Head(Edge(t, c)) = bit
  BY ChildForm
<1>2. t.nodes[c].parent = n /\ n # 0
  <2>1. NodeGood(t, n) /\ n # 0 /\ bit \in {0, 1}
    BY DEF Good, Linked, Typed, Bits
  <2>2. ChildGood(t, n, c, bit)
    BY <2>1 DEF NodeGood, Child
  <2> QED
    BY <2>1, <2>2 DEF ChildGood
<1>3. /\ Keys(t)[c] = Keys(t)[n] \o Edge(t, c) /\ Roots(t)[c] = Roots(t)[n]
      /\ Keys(t)[c] \in Seq(Bits) /\ Keys(t)[n] \in Seq(Bits)
  <2>1. t.nodes[c].parent # 0
    BY <1>2
  <2>2. /\ Keys(t)[c] = Keys(t)[t.nodes[c].parent] \o Edge(t, c)
        /\ Roots(t)[c] = Roots(t)[t.nodes[c].parent]
    BY <1>1, <2>1, UpwardForm
  <2>3. Keys(t)[c] \in Seq(Bits) /\ Keys(t)[n] \in Seq(Bits)
    BY <1>1, UpwardForm
  <2> QED
    BY <1>2, <2>2, <2>3
<1> DEFINE k == Keys(t)[n]
<1> DEFINE e == Edge(t, c)
<1> DEFINE r == Keys(t)[c]
<1>4. k \in Seq(Bits) /\ e \in Seq(Bits) /\ r = k \o e /\ r \in Seq(Bits) /\ Len(e) > 0 /\ Head(e) = bit
  BY <1>1, <1>3
<1> HIDE DEF k, e, r
<1>5. /\ Len(r) = Len(k) + Len(e) /\ Len(k) \in Nat /\ Len(e) \in Nat /\ Len(r) \in Nat
      /\ \A i \in 1 .. Len(k) : r[i] = k[i]
      /\ \A i \in 1 .. Len(e) : r[Len(k) + i] = e[i]
  BY <1>4
<1>6. r[Len(k) + 1] = bit
  <2>1. 1 \in 1 .. Len(e) /\ e # <<>>
    BY <1>4, <1>5
  <2>2. e[1] = bit
    BY <1>4, <2>1
  <2> QED
    BY <1>5, <2>1, <2>2
<1>7. IsStrictPrefix(k, r)
  <2>1. Len(k) < Len(r)
    BY <1>4, <1>5
  <2> QED
    BY <1>4, <1>5, <2>1, StrictForm
<1> QED
  BY <1>1, <1>2, <1>3, <1>4, <1>5, <1>6, <1>7 DEF k, e, r, Hangs

(* A longer key of the same dictionary lies below a child. *)
LEMMA Towards ==
  ASSUME NEW t, Good(t), Filed(t), NEW n \in DOMAIN t.nodes, NEW m \in DOMAIN t.nodes,
         Roots(t)[n] = Roots(t)[m], IsStrictPrefix(Keys(t)[n], Keys(t)[m])
  PROVE  /\ Keys(t)[m][Len(Keys(t)[n]) + 1] \in Bits
         /\ Child(t, n, Keys(t)[m][Len(Keys(t)[n]) + 1]) # 0
         /\ IsPrefix(Keys(t)[Child(t, n, Keys(t)[m][Len(Keys(t)[n]) + 1])], Keys(t)[m])
<1> DEFINE key == Keys(t)[m]
<1> DEFINE k == Len(Keys(t)[n])
<1> DEFINE d == Roots(t)[m]
<1>1. key \in Seq(Bits) /\ Len(key) \in Nat /\ Keys(t)[n] \in Seq(Bits) /\ k \in Nat
  BY UpwardForm
<1>2. d \in DOMAIN t.nodes /\ t.nodes[d].parent = 0
  BY RootsAreDictionaries, FiledRoot
<1>3. k < Len(key) /\ IsPrefix(Keys(t)[n], key) /\ IsPrefix(key, key)
  <2>1. IsPrefix(key, key)
    BY <1>1, PrefixForm
  <2> QED
    BY <1>1, <2>1, StrictForm DEF IsStrictPrefix
<1> DEFINE w == Descent(t, d, key)
<1>4. PICK i \in 1 .. Len(w) : w[i] = <<n, k>>
  BY <1>1, <1>2, <1>3, PathReaches
<1>5. PICK j \in 1 .. Len(w) : w[j] = <<m, Len(key)>>
  BY <1>1, <1>2, <1>3, PathReaches
<1>6. Path(t, key, <<d, 0>>, w)
  BY <1>1, <1>2, DescentIsPath
<1>7. \A x, y \in 1 .. Len(w) : x < y => w[x][2] < w[y][2]
  BY <1>1, <1>6, PathIncreases
<1>8. \A x \in 1 .. Len(w) : w[x] \in Visits(t, key) /\ Named(t, d, key, w[x])
  BY <1>1, <1>2, PathNames
<1> HIDE DEF w
<1>9. Len(w) \in Nat
  BY <1>6 DEF Path
<1> DEFINE v == <<n, k>>
<1>10. v[1] = n /\ v[2] = k /\ w[j][2] = Len(key)
  BY <1>5
<1>11. i \in 1 .. Len(w) - 1 /\ i + 1 \in 1 .. Len(w)
  <2>1. ~(j < i) /\ i # j
    BY <1>1, <1>3, <1>4, <1>5, <1>7, <1>10
  <2> QED
    BY <1>9, <2>1
<1>12. Onward(t, key, v) /\ w[i + 1] = After(t, key, v)
  BY <1>4, <1>6, <1>11 DEF Path
<1> HIDE DEF v
<1> DEFINE bit == key[k + 1]
<1>13. Rest(key, k) # <<>> /\ Head(Rest(key, k)) = bit /\ bit \in Bits
  <2>1. k \in 0 .. Len(key) /\ k + 1 \in 1 .. Len(key)
    BY <1>1, <1>3
  <2> DEFINE rest == Rest(key, k)
  <2>2. rest \in Seq(Bits) /\ Len(rest) = Len(key) - k
    BY <1>1, <2>1, RestForm
  <2>4. rest[1] = key[k + 1]
    <3>1. \A x \in 1 .. Len(key) - k : SubSeq(key, k + 1, Len(key))[x] = key[k + x]
      BY <1>1, <2>1, CutForm
    <3>2. 1 \in 1 .. Len(key) - k
      BY <1>1, <1>3
    <3> QED
      BY <3>1, <3>2 DEF Rest
  <2>5. key[k + 1] \in Bits
    BY <1>1, <2>1
  <2> HIDE DEF rest, key, k
  <2>6. rest # <<>>
    BY <1>1, <1>3, <2>2
  <2>7. Head(rest) = rest[1]
    BY <2>2, <2>6
  <2> QED
    BY <2>4, <2>5, <2>6, <2>7 DEF rest
<1> DEFINE c == Child(t, n, bit)
<1>14. Ahead(t, key, v) = c
  BY <1>10, <1>13 DEF Ahead
<1>15. c # 0 /\ w[i + 1][1] = c
  BY <1>12, <1>14 DEF Onward, After
<1>16. IsPrefix(Keys(t)[c], key)
  <2>1. Keys(t)[c] = SubSeq(key, 1, w[i + 1][2]) /\ w[i + 1][2] \in 0 .. Len(key)
    BY <1>8, <1>11, <1>15 DEF Named, Visits
  <2> HIDE DEF c, key
  <2> QED
    BY <1>1, <2>1, BitsFront
<1> QED
  BY <1>13, <1>15, <1>16

(* What is left of a key after its first bits. *)
LEMMA RestBits ==
  ASSUME NEW key \in Seq(Bits), NEW k \in 0 .. Len(key)
  PROVE  /\ Rest(key, k) \in Seq(Bits) /\ Len(Rest(key, k)) = Len(key) - k
         /\ \A i \in 1 .. Len(key) - k : Rest(key, k)[i] = key[k + i]
         /\ Rest(key, k) = <<>> <=> k = Len(key)
         /\ k < Len(key) => Head(Rest(key, k)) = key[k + 1] /\ key[k + 1] \in Bits
<1>1. Len(key) \in Nat /\ k \in Nat /\ k <= Len(key)
  OBVIOUS
<1> DEFINE rest == Rest(key, k)
<1>2. rest \in Seq(Bits) /\ Len(rest) = Len(key) - k
  BY RestForm
<1>3. \A i \in 1 .. Len(key) - k : rest[i] = key[k + i]
  <2>1. \A x \in 1 .. Len(key) - k : SubSeq(key, k + 1, Len(key))[x] = key[k + x]
    BY <1>1, CutForm
  <2> QED
    BY <2>1 DEF Rest
<1> HIDE DEF rest
<1>4. rest = <<>> <=> k = Len(key)
  BY <1>1, <1>2
<1>5. ASSUME k < Len(key) PROVE Head(rest) = key[k + 1] /\ key[k + 1] \in Bits
  <2>1. 1 \in 1 .. Len(key) - k /\ k + 1 \in 1 .. Len(key)
    BY <1>1, <1>5
  <2>2. rest # <<>> /\ rest[1] = key[k + 1]
    BY <1>3, <1>4, <1>5, <2>1
  <2>3. Head(rest) = rest[1]
    BY <1>2, <2>2
  <2>4. key[k + 1] \in Bits
    BY <2>1
  <2> QED
    BY <2>2, <2>3, <2>4
<1> QED
  BY <1>2, <1>3, <1>4, <1>5 DEF rest

(* More text is wanted exactly if some key of the dictionary goes on from   *)
(* all that was read.                                                       *)
LEMMA StopForm ==
  ASSUME NEW t, Good(t), Filed(t), NEW d \in Dictionaries(t), NEW key \in Seq(Bits)
  PROVE  Stop(t, d, key) <=> \E m \in DOMAIN t.nodes : Roots(t)[m] = d /\ IsStrictPrefix(key, Keys(t)[m])
<1> DEFINE w == Descent(t, d, key)
<1> DEFINE v == Last(w)
<1>1. d \in DOMAIN t.nodes /\ t.nodes[d].parent = 0
  BY FiledRoot
<1>2. Path(t, key, <<d, 0>>, w)
  BY <1>1, DescentIsPath
<1>3. Len(w) \in Nat /\ Len(w) \in 1 .. Len(w) /\ v = w[Len(w)]
  BY <1>2 DEF Path, Last
<1>4. v \in Visits(t, key) /\ Named(t, d, key, v)
  BY <1>1, <1>3, PathNames
<1>5. ~Onward(t, key, v)
  BY <1>2, <1>3 DEF Path
<1>6. Stop(t, d, key) = More(t, v[1], Rest(key, v[2]))
  BY DEF Stop, MoreAt
<1> HIDE DEF w, v
<1> DEFINE n == v[1]
<1> DEFINE l == v[2]
<1> DEFINE rest == Rest(key, l)
<1>7. /\ n \in DOMAIN t.nodes /\ l \in 0 .. Len(key) /\ l \in Nat /\ Len(key) \in Nat
      /\ Keys(t)[n] = SubSeq(key, 1, l) /\ Roots(t)[n] = d
  BY <1>4 DEF Visits, Named
<1>8. /\ Keys(t)[n] \in Seq(Bits) /\ Len(Keys(t)[n]) = l /\ \A i \in 1 .. l : Keys(t)[n][i] = key[i]
  BY <1>7, BitsFront
<1>9. /\ rest \in Seq(Bits) /\ Len(rest) = Len(key) - l
      /\ \A i \in 1 .. Len(key) - l : rest[i] = key[l + i]
      /\ rest = <<>> <=> l = Len(key)
      /\ l < Len(key) => Head(rest) = key[l + 1] /\ key[l + 1] \in Bits
  BY <1>7, RestBits
<1>10. More(t, n, rest) <=> IF rest = <<>> THEN Children(t, n) # {}
                            ELSE Child(t, n, Head(rest)) # 0 /\ IsStrictPrefix(rest, Edge(t, Child(t, n, Head(rest))))
  BY DEF More
<1>11. rest # <<>> => Child(t, n, Head(rest)) = 0 \/ ~IsPrefix(Edge(t, Child(t, n, Head(rest))), rest)
  BY <1>5 DEF Onward, Ahead
<1> HIDE DEF n, l, rest
<1>e. ASSUME NEW bit \in Bits, NEW c, c = Child(t, n, bit), c # 0
      PROVE  /\ c \in DOMAIN t.nodes /\ Roots(t)[c] = d /\ Keys(t)[c] \in Seq(Bits)
             /\ Edge(t, c) \in Seq(Bits) /\ Len(Edge(t, c)) \in Nat /\ Len(Keys(t)[c]) = l + Len(Edge(t, c))
             /\ \A i \in 1 .. l : Keys(t)[c][i] = Keys(t)[n][i]
             /\ \A i \in 1 .. Len(Edge(t, c)) : Keys(t)[c][l + i] = Edge(t, c)[i]
  <2>1. /\ c \in DOMAIN t.nodes /\ Roots(t)[c] = Roots(t)[n] /\ Keys(t)[c] \in Seq(Bits)
        /\ Edge(t, c) \in Seq(Bits) /\ Len(Edge(t, c)) \in Nat /\ Len(Keys(t)[c]) = Len(Keys(t)[n]) + Len(Edge(t, c))
        /\ \A i \in 1 .. Len(Keys(t)[n]) : Keys(t)[c][i] = Keys(t)[n][i]
        /\ \A i \in 1 .. Len(Edge(t, c)) : Keys(t)[c][Len(Keys(t)[n]) + i] = Edge(t, c)[i]
    <3>0. n \in DOMAIN t.nodes /\ c = Child(t, n, bit) /\ c # 0
      BY <1>7, <1>e
    <3>1. Hangs(t, n, bit, c)
      BY <3>0, ChildNamed
    <3> QED
      BY <3>1 DEF Hangs
  <2> QED
    BY <1>7, <1>8, <2>1
<1>12. ASSUME NEW m \in DOMAIN t.nodes, Roots(t)[m] = d, IsStrictPrefix(key, Keys(t)[m]) PROVE More(t, n, rest)
  <2> DEFINE r == Keys(t)[m]
  <2>1. r \in Seq(Bits) /\ Len(r) \in Nat
    BY UpwardForm
  <2>2. Len(key) < Len(r) /\ \A i \in 1 .. Len(key) : key[i] = r[i]
    BY <1>12, <2>1, StrictForm
  <2>3. IsStrictPrefix(Keys(t)[n], r)
    <3>1. l < Len(r)
      BY <1>7, <2>1, <2>2
    <3>2. ASSUME NEW i \in 1 .. l PROVE Keys(t)[n][i] = r[i]
      <4>1. i \in 1 .. Len(key)
        BY <1>7
      <4> QED
        BY <1>8, <2>2, <4>1
    <3> QED
      BY <1>8, <2>1, <3>1, <3>2, StrictForm
  <2> DEFINE bit == r[l + 1]
  <2> DEFINE c == Child(t, n, bit)
  <2>4. bit \in Bits /\ c # 0 /\ IsPrefix(Keys(t)[c], r)
    BY <1>7, <1>8, <1>12, <2>3, Towards
  <2> HIDE DEF r
  <2>5. CASE rest = <<>>
    <3>1. c \in Children(t, n)
      BY <2>4 DEF Children, Child
    <3> QED
      BY <1>10, <2>5, <3>1
  <2>6. CASE rest # <<>>
    <3>1. l < Len(key) /\ l + 1 \in 1 .. Len(key)
      BY <1>7, <1>9, <2>6
    <3>2. Head(rest) = bit
      BY <1>9, <2>2, <3>1
    <3>d. c = Child(t, n, bit)
      OBVIOUS
    <3> HIDE DEF c
    <3> DEFINE e == Edge(t, c)
    <3>3. /\ Keys(t)[c] \in Seq(Bits) /\ e \in Seq(Bits) /\ Len(e) \in Nat /\ Len(Keys(t)[c]) = l + Len(e)
          /\ \A i \in 1 .. Len(e) : Keys(t)[c][l + i] = e[i]
      BY <1>e, <2>4, <3>d
    <3>4. l + Len(e) <= Len(r) /\ \A i \in 1 .. l + Len(e) : Keys(t)[c][i] = r[i]
      BY <2>1, <2>4, <3>3, PrefixForm
    <3>5. ~IsPrefix(e, rest)
      BY <1>11, <2>4, <2>6, <3>2, <3>d
    <3> HIDE DEF e
    <3>6. ASSUME NEW i \in Nat, i > 0, i <= Len(e), i <= Len(rest) PROVE e[i] = rest[i]
      <4>0. /\ l \in Nat /\ Len(key) \in Nat /\ Len(e) \in Nat /\ Len(rest) = Len(key) - l
        BY <1>7, <1>9, <3>3
      <4>1. i \in 1 .. Len(e) /\ i \in 1 .. Len(key) - l /\ l + i \in 1 .. l + Len(e) /\ l + i \in 1 .. Len(key)
        BY <3>6, <4>0
      <4>2. e[i] = Keys(t)[c][l + i] /\ Keys(t)[c][l + i] = r[l + i]
        BY <3>3, <3>4, <4>1
      <4>3. rest[i] = key[l + i] /\ key[l + i] = r[l + i]
        BY <1>9, <2>2, <4>1
      <4> QED
        BY <4>2, <4>3
    <3>7. Len(rest) \in Nat
      BY <1>9
    <3>8. ~(Len(e) <= Len(rest))
      <4> SUFFICES ASSUME Len(e) <= Len(rest) PROVE FALSE
        OBVIOUS
      <4>1. \A i \in 1 .. Len(e) : i \in Nat /\ i > 0 /\ i <= Len(e) /\ i <= Len(rest)
        BY <3>3, <3>7
      <4>2. IsPrefix(e, rest)
        BY <1>9, <3>3, <3>6, <4>1, PrefixForm
      <4> QED
        BY <3>5, <4>2
    <3>9. Len(rest) < Len(e)
      BY <3>3, <3>7, <3>8
    <3>10. \A i \in 1 .. Len(rest) : i \in Nat /\ i > 0 /\ i <= Len(e) /\ i <= Len(rest)
      BY <3>3, <3>7, <3>9
    <3>11. IsStrictPrefix(rest, e)
      BY <1>9, <3>3, <3>6, <3>9, <3>10, StrictForm
    <3> QED
      BY <1>10, <2>4, <2>6, <3>2, <3>11, <3>d DEF e
  <2> QED
    BY <2>5, <2>6
<1>13. ASSUME More(t, n, rest) PROVE \E m \in DOMAIN t.nodes : Roots(t)[m] = d /\ IsStrictPrefix(key, Keys(t)[m])
  <2>1. CASE rest = <<>>
    <3>1. l = Len(key)
      BY <1>9, <2>1
    <3>2. Keys(t)[n] = key
      BY <1>7, <3>1
    <3>3. PICK c \in Children(t, n) : TRUE
      BY <1>10, <1>13, <2>1
    <3>4. PICK bit \in Bits : c = Child(t, n, bit) /\ c # 0
      BY <3>3 DEF Children, Child, Bits
    <3>5. Hangs(t, n, bit, c)
      BY <1>7, <3>4, ChildNamed
    <3>6. c \in DOMAIN t.nodes /\ Roots(t)[c] = d /\ IsStrictPrefix(key, Keys(t)[c])
      BY <1>7, <3>2, <3>5 DEF Hangs
    <3> QED
      BY <3>6
  <2>2. CASE rest # <<>>
    <3> DEFINE bit == Head(rest)
    <3> DEFINE c == Child(t, n, bit)
    <3>1. l < Len(key) /\ bit \in Bits /\ c # 0 /\ IsStrictPrefix(rest, Edge(t, c))
      BY <1>7, <1>9, <1>10, <1>13, <2>2
    <3>d. c = Child(t, n, bit)
      OBVIOUS
    <3> HIDE DEF c, bit
    <3> DEFINE e == Edge(t, c)
    <3>2. /\ c \in DOMAIN t.nodes /\ Roots(t)[c] = d
          /\ Keys(t)[c] \in Seq(Bits) /\ e \in Seq(Bits) /\ Len(e) \in Nat /\ Len(Keys(t)[c]) = l + Len(e)
          /\ \A i \in 1 .. l : Keys(t)[c][i] = Keys(t)[n][i]
          /\ \A i \in 1 .. Len(e) : Keys(t)[c][l + i] = e[i]
      BY <1>e, <3>1, <3>d
    <3>3. Len(rest) < Len(e) /\ \A i \in 1 .. Len(rest) : rest[i] = e[i]
      BY <1>9, <3>1, <3>2, StrictForm
    <3> HIDE DEF e
    <3>4. Len(key) < Len(Keys(t)[c])
      BY <1>7, <1>9, <3>2, <3>3
    <3>5. ASSUME NEW i \in 1 .. Len(key) PROVE key[i] = Keys(t)[c][i]
      <4>1. CASE i <= l
        <5>1. i \in 1 .. l
          BY <1>7, <4>1
        <5> QED
          BY <1>8, <3>2, <5>1
      <4>2. CASE ~(i <= l)
        <5>1. i - l \in 1 .. Len(key) - l /\ i - l \in 1 .. Len(rest) /\ i - l \in 1 .. Len(e) /\ l + (i - l) = i
          BY <1>7, <1>9, <3>2, <3>3, <4>2
        <5>2. rest[i - l] = key[i] /\ rest[i - l] = e[i - l] /\ Keys(t)[c][i] = e[i - l]
          BY <1>9, <3>2, <3>3, <5>1
        <5> QED
          BY <5>2
      <4> QED
        BY <4>1, <4>2
    <3>6. IsStrictPrefix(key, Keys(t)[c])
      BY <3>2, <3>4, <3>5, StrictForm
    <3> QED
      BY <3>2, <3>6
  <2> QED
    BY <2>1, <2>2
<1> QED
  BY <1>6, <1>12, <1>13 DEF n, l, rest

(* A descent asks for more text if and only if a longer key begins with all *)
(* of it.                                                                   *)
LEMMA TreeMoreIsRight ==
  ASSUME Good(tree), Filed(tree)
  PROVE  MoreIsRight
<1> DEFINE phrases == PhrasesOf(tree)
<1> SUFFICES ASSUME NEW d \in Dictionaries(tree), NEW p \in Probes
    PROVE  /\ (\E k \in PopulatedKeys(phrases, d) : IsStrictPrefix(p, k)) => MatchLongest(tree, d, p).more
           /\ MatchLongest(tree, d, p).more => \E n \in DOMAIN tree.nodes : TreeRoot(tree, n) = d /\ IsStrictPrefix(p, KeyOf(tree, n))
  BY DEF MoreIsRight
<1>1. p \in Seq(Bits)
  BY ProbesAssumption
<1>2. MatchLongest(tree, d, p).more = Stop(tree, d, p)
  BY DEF MatchLongest, Matched, NoMatch
<1>3. Stop(tree, d, p) <=> \E m \in DOMAIN tree.nodes : Roots(tree)[m] = d /\ IsStrictPrefix(p, Keys(tree)[m])
  BY <1>1, StopForm
<1>4. \A m \in DOMAIN tree.nodes : Roots(tree)[m] = TreeRoot(tree, m) /\ Keys(tree)[m] = KeyOf(tree, m)
  BY DEF Roots, Keys
<1>5. ASSUME NEW k \in PopulatedKeys(phrases, d), IsStrictPrefix(p, k) PROVE Stop(tree, d, p)
  <2>1. Log!NewestIn(phrases, DictionaryOf(tree, d), k) # 0
    BY DEF PopulatedKeys, Newest
  <2>2. PICK n \in DOMAIN tree.nodes : Roots(tree)[n] = d /\ Keys(tree)[n] = k
    BY <2>1, NewestHasNode
  <2> QED
    BY <1>3, <1>5, <2>2
<1>6. ASSUME Stop(tree, d, p) PROVE \E n \in DOMAIN tree.nodes : TreeRoot(tree, n) = d /\ IsStrictPrefix(p, KeyOf(tree, n))
  BY <1>3, <1>4, <1>6
<1> QED
  BY <1>2, <1>5, <1>6

(***************************************************************************)
(* No operation files a phrase under a key the program does not have.       *)
(***************************************************************************)
LEMMA KeysDefined ==
  ASSUME IInv, FInv, KInv, program' = program, NEW d \in Dictionaries(tree), NEW k \in program.keys, NEW kind,
         kind \in program.kinds \/ kind = Plain,
         Attempt(tree, d, k, kind).at # 0, tree' = Attempt(tree, d, k, kind).tree
  PROVE  KInv'
<1> DEFINE x == Defined(tree, d, k, kind)
<1>1. PhrasesOf(tree') = Append(PhrasesOf(tree), x)
  BY DefinitionTold
<1>2. PhrasesOf(tree) \in Seq(PhrasesSet(tree))
  BY PhrasesForm DEF IInv, Sound, FInv
<1>3. x.key = k
  BY DEF Defined
<1> HIDE DEF x
<1>4. /\ DOMAIN PhrasesOf(tree') = 1 .. Len(PhrasesOf(tree)) + 1 /\ Len(PhrasesOf(tree)) \in Nat
      /\ DOMAIN PhrasesOf(tree) = 1 .. Len(PhrasesOf(tree))
      /\ PhrasesOf(tree')[Len(PhrasesOf(tree)) + 1] = x
      /\ \A i \in 1 .. Len(PhrasesOf(tree)) : PhrasesOf(tree')[i] = PhrasesOf(tree)[i]
  BY <1>1, <1>2
<1>5. ASSUME NEW i \in DOMAIN PhrasesOf(tree') PROVE PhrasesOf(tree')[i].key \in program.keys
  <2>1. CASE i = Len(PhrasesOf(tree)) + 1
    BY <1>3, <1>4, <2>1
  <2>2. CASE i \in 1 .. Len(PhrasesOf(tree))
    BY <1>4, <2>2 DEF KInv
  <2> QED
    BY <1>4, <2>1, <2>2
<1> QED
  BY <1>5 DEF KInv

(* No step files a phrase under a key the program does not have. *)
LEMMA KeysKept ==
  ASSUME IInv, FInv, KInv, [Next]_vars
  PROVE  KInv'
<1> DEFINE log == PhrasesOf(tree)
<1>1. log \in Seq(PhrasesSet(tree)) /\ Len(log) \in Nat /\ DOMAIN log = 1 .. Len(log)
  BY PhrasesForm DEF IInv, Sound, FInv
<1>2. ASSUME program' = program, PhrasesOf(tree') = log PROVE KInv'
  BY <1>2 DEF KInv
<1>3. CASE UNCHANGED vars
  BY <1>2, <1>3 DEF vars
<1>4. ASSUME NEW d \in Dictionaries(tree), NEW k \in program.keys, NEW kind \in program.kinds, DefinePhrase(d, k, kind)
      PROVE  KInv'
  <2> DEFINE made == Attempt(tree, d, k, kind)
  <2>1. /\ tree' = IF made.at # 0 THEN made.tree ELSE Restore(made.tree, tree.end)
        /\ program' = program
    BY <1>4 DEF DefinePhrase
  <2>2. CASE made.at = 0
    <3>1. Good(tree) /\ program.memory \in Nat /\ k \in Seq(Bits) /\ kind \in [owner : BOOLEAN, permanent : BOOLEAN]
      BY ProgramForm DEF IInv, Sound
    <3>2. Over(tree, made.tree)
      BY <3>1, AttemptOver
    <3>3. tree.end \in 1 .. tree.end
      BY <3>1 DEF Good, Linked, Typed
    <3>4. Restore(made.tree, tree.end) = tree
      BY <3>1, <3>2, <3>3, RestoreWhole DEF Over
    <3> QED
      BY <1>2, <2>1, <2>2, <3>4
  <2>3. CASE made.at # 0
    BY <2>1, <2>3, KeysDefined
  <2> QED
    BY <2>2, <2>3
<1>5. CASE ExtendPhrase
  <2>1. program' = program /\ (Log!Extend \/ UNCHANGED Log!vars)
    BY <1>5, ExtendPhraseTold DEF ExtendPhrase
  <2>2. CASE UNCHANGED Log!vars
    BY <1>2, <2>1, <2>2 DEF Log!vars
  <2>3. CASE Log!Extend
    <3>1. PhrasesOf(tree') = [log EXCEPT ![Len(log)].payload = @ + 1]
      BY <2>3 DEF Log!Extend
    <3>2. DOMAIN PhrasesOf(tree') = DOMAIN log /\ \A i \in DOMAIN log : PhrasesOf(tree')[i].key = log[i].key
      <4>1. ASSUME NEW i \in DOMAIN log PROVE "key" \in DOMAIN log[i]
        <5>1. log[i] \in PhrasesSet(tree)
          BY <1>1
        <5>2. PICK j \in DOMAIN tree.items : log[i] = Told(tree, j)
          BY <5>1 DEF PhrasesSet
        <5> HIDE DEF log
        <5> QED
          BY <5>2 DEF Told
      <4> HIDE DEF log
      <4> QED
        BY <3>1, <4>1
    <3> QED
      BY <2>1, <3>2 DEF KInv
  <2> QED
    BY <2>1, <2>2, <2>3
<1>6. ASSUME NEW d \in Dictionaries(tree), NEW k \in program.keys, OpenScope(d, k)
      PROVE  KInv'
  BY <1>6, KeysDefined DEF OpenScope
<1>7. ASSUME NEW i \in DOMAIN marks, RollbackScope(i) \/ CommitScope(i)
      PROVE  KInv'
  <2>1. CASE CommitScope(i)
    BY <1>2, <2>1 DEF CommitScope
  <2>2. CASE RollbackScope(i)
    <3>1. program' = program /\ PhrasesOf(tree') = SubSeq(log, 1, MarksOf[i])
      BY <2>2, RollbackScopeTold DEF RollbackScope, Log!Rollback
    <3>2. MarksOf[i] \in 0 .. Len(log)
      <4>1. MarksOf[i] = Cardinality(Under(tree, marks[i])) /\ marks[i] \in Nat /\ Good(tree) /\ Filed(tree)
        BY MarksOfForm, MarksForm DEF FInv
      <4> QED
        BY <4>1, UnderForm
    <3>3. DOMAIN PhrasesOf(tree') = 1 .. MarksOf[i] /\ \A j \in 1 .. MarksOf[i] : PhrasesOf(tree')[j] = log[j] /\ j \in DOMAIN log
      BY <1>1, <3>1, <3>2
    <3> QED
      BY <3>1, <3>3 DEF KInv
  <2> QED
    BY <1>7, <2>1, <2>2
<1> QED
  BY <1>3, <1>4, <1>5, <1>6, <1>7 DEF Next

(***************************************************************************)
(* The two orders of keys a traversal follows.  Where two keys part, the    *)
(* one that goes on with the bit hi comes last; a key comes before the ones *)
(* that go on from it.                                                      *)
(***************************************************************************)
PartsAt(hi, a, b, i) ==
  /\ i \in Nat /\ 0 < i /\ i <= Len(b) /\ i <= Len(a) + 1
  /\ \A j \in 1 .. i - 1 : a[j] = b[j]
  /\ i <= Len(a) => a[i] # hi /\ b[i] = hi

Precedes(hi, a, b) == \E i \in Nat : PartsAt(hi, a, b, i)

(* Precedes is a strict order. *)
LEMMA PrecedesOrder ==
  ASSUME NEW hi, NEW a, NEW b, NEW c, Len(a) \in Nat, Len(b) \in Nat, Len(c) \in Nat
  PROVE  /\ ~Precedes(hi, a, a)
         /\ Precedes(hi, a, b) /\ Precedes(hi, b, c) => Precedes(hi, a, c)
<1>1. ~Precedes(hi, a, a)
  BY DEF Precedes, PartsAt
<1>2. ASSUME NEW i \in Nat, PartsAt(hi, a, b, i), NEW j \in Nat, PartsAt(hi, b, c, j) PROVE Precedes(hi, a, c)
  <2>1. CASE i <= j
    <3>1. PartsAt(hi, a, c, i)
      BY <1>2, <2>1 DEF PartsAt
    <3> QED
      BY <3>1 DEF Precedes
  <2>2. CASE j < i
    <3>1. PartsAt(hi, a, c, j)
      BY <1>2, <2>2 DEF PartsAt
    <3> QED
      BY <3>1 DEF Precedes
  <2> QED
    BY <2>1, <2>2
<1> QED
  BY <1>1, <1>2 DEF Precedes

(* Of a key and one it begins, the shorter comes first. *)
LEMMA PrecedesLonger ==
  ASSUME NEW hi, NEW a \in Seq(Bits), NEW b \in Seq(Bits), IsStrictPrefix(a, b)
  PROVE  Precedes(hi, a, b)
<1>1. Len(a) \in Nat /\ Len(b) \in Nat /\ Len(a) < Len(b) /\ \A i \in 1 .. Len(a) : a[i] = b[i]
  BY StrictForm
<1>2. PartsAt(hi, a, b, Len(a) + 1)
  BY <1>1 DEF PartsAt
<1> QED
  BY <1>1, <1>2 DEF Precedes

(* The orders of the model. *)
LEMMA KeyBeforeForm ==
  ASSUME NEW a \in Seq(Bits), NEW b \in Seq(Bits)
  PROVE  /\ Precedes(1, a, b) => KeyBefore(a, b)
         /\ Precedes(0, b, a) => KeyBeforeInverse(a, b)
<1>1. Len(a) \in Nat /\ Len(b) \in Nat
  OBVIOUS
<1>2. ASSUME NEW i \in Nat, i > 0, i <= Len(a), i <= Len(b), \A j \in 1 .. i - 1 : a[j] = b[j]
      PROVE  SubSeq(a, 1, i - 1) = SubSeq(b, 1, i - 1)
  BY <1>1, <1>2, SameFront
<1>3. \A i \in 1 .. Len(a) : a[i] \in {0, 1}
  BY DEF Bits
<1>4. \A i \in 1 .. Len(b) : b[i] \in {0, 1}
  BY DEF Bits
<1>5. ASSUME NEW i \in Nat, PartsAt(1, a, b, i) PROVE KeyBefore(a, b)
  <2>1. CASE i <= Len(a)
    <3>1. i \in 1 .. Len(a) /\ i <= Len(b) /\ SubSeq(a, 1, i - 1) = SubSeq(b, 1, i - 1)
      BY <1>2, <1>5, <2>1 DEF PartsAt
    <3>2. a[i] < b[i]
      BY <1>3, <1>5, <2>1, <3>1 DEF PartsAt
    <3> QED
      BY <3>1, <3>2 DEF KeyBefore
  <2>2. CASE i = Len(a) + 1
    <3>1. Len(a) < Len(b) /\ \A j \in 1 .. Len(a) : a[j] = b[j]
      BY <1>1, <1>5, <2>2 DEF PartsAt
    <3> QED
      BY <3>1, StrictForm DEF KeyBefore
  <2> QED
    BY <1>1, <1>5, <2>1, <2>2 DEF PartsAt
<1>6. ASSUME NEW i \in Nat, PartsAt(0, b, a, i) PROVE KeyBeforeInverse(a, b)
  <2>1. CASE i <= Len(b)
    <3>1. i \in 1 .. Len(a) /\ i \in 1 .. Len(b) /\ SubSeq(a, 1, i - 1) = SubSeq(b, 1, i - 1)
      BY <1>1, <1>2, <1>6, <2>1 DEF PartsAt
    <3>2. a[i] < b[i]
      BY <1>4, <1>6, <2>1, <3>1 DEF PartsAt
    <3>3. ~IsStrictPrefix(a, b)
      <4>1. a[i] # b[i]
        BY <1>6, <2>1 DEF PartsAt
      <4> QED
        BY <3>1, <4>1, StrictForm
    <3> QED
      BY <3>1, <3>2, <3>3 DEF KeyBefore, KeyBeforeInverse
  <2>2. CASE i = Len(b) + 1
    <3>1. Len(b) < Len(a) /\ \A j \in 1 .. Len(b) : b[j] = a[j]
      BY <1>1, <1>6, <2>2 DEF PartsAt
    <3> QED
      BY <3>1, StrictForm DEF KeyBeforeInverse
  <2> QED
    BY <1>1, <1>6, <2>1, <2>2 DEF PartsAt
<1> QED
  BY <1>5, <1>6 DEF Precedes

(***************************************************************************)
(* Walking along a finite order.                                            *)
(***************************************************************************)
Strict(N, O) ==
  /\ IsFiniteSet(N)
  /\ \A n \in N : <<n, n>> \notin O
  /\ \A x, y, z \in N : <<x, y>> \in O /\ <<y, z>> \in O => <<x, z>> \in O

Later(N, O, n) == {m \in N : <<n, m>> \in O}

Rank(N, O, n) == Cardinality(Later(N, O, n))

(* What comes later has a smaller rank. *)
LEMMA RankFalls ==
  ASSUME NEW N, NEW O, Strict(N, O), NEW n \in N
  PROVE  /\ Rank(N, O, n) \in Nat
         /\ \A m \in N : <<n, m>> \in O => Rank(N, O, m) < Rank(N, O, n)
<1>1. ASSUME NEW m \in N PROVE IsFiniteSet(Later(N, O, m)) /\ Rank(N, O, m) \in Nat
  <2>1. Later(N, O, m) \subseteq N /\ IsFiniteSet(N)
    BY DEF Later, Strict
  <2> QED
    BY <2>1, FS_Subset, FS_CardinalityType DEF Rank
<1>2. ASSUME NEW m \in N, <<n, m>> \in O PROVE Rank(N, O, m) < Rank(N, O, n)
  <2>1. Later(N, O, m) \subseteq Later(N, O, n) \ {m}
    BY <1>2 DEF Later, Strict
  <2>2. m \in Later(N, O, n)
    BY <1>2 DEF Later
  <2>3. IsFiniteSet(Later(N, O, n)) /\ IsFiniteSet(Later(N, O, n) \ {m})
    BY <1>1, FS_RemoveElement
  <2>4. Cardinality(Later(N, O, n) \ {m}) = Cardinality(Later(N, O, n)) - 1
    BY <2>2, <2>3, FS_RemoveElement
  <2>5. Cardinality(Later(N, O, m)) <= Cardinality(Later(N, O, n) \ {m})
    BY <2>1, <2>3, FS_Subset
  <2> QED
    BY <1>1, <2>4, <2>5 DEF Rank
<1> QED
  BY <1>1, <1>2

(* What holds of a node if it holds of all that come after it holds of all. *)
LEMMA RankInduction ==
  ASSUME NEW N, NEW O, Strict(N, O), NEW S,
         \A n \in N : (\A m \in N : <<n, m>> \in O => m \in S) => n \in S
  PROVE  \A n \in N : n \in S
<1> DEFINE T == {Rank(N, O, n) : n \in N \ S}
<1> SUFFICES ASSUME N \ S # {} PROVE FALSE
  OBVIOUS
<1>1. T \in SUBSET Nat /\ T # {}
  BY RankFalls
<1> HIDE DEF T
<1>2. PICK r \in T : \A q \in T : r <= q
  BY <1>1, LeastNatural
<1>3. PICK n \in N \ S : r = Rank(N, O, n)
  BY <1>2 DEF T
<1>4. ASSUME NEW m \in N, <<n, m>> \in O, m \notin S PROVE FALSE
  <2>1. Rank(N, O, m) < Rank(N, O, n) /\ Rank(N, O, m) \in Nat /\ Rank(N, O, n) \in Nat
    BY <1>4, RankFalls
  <2>2. Rank(N, O, m) \in T
    BY <1>4 DEF T
  <2> QED
    BY <1>2, <1>3, <2>1, <2>2
<1> QED
  BY <1>3, <1>4

(* The walks that follow up to 0, from each node. *)
Steps(N, up, f) == f = [n \in N \cup {0} |-> IF n = 0 THEN <<>> ELSE <<n>> \o f[up[n]]]

(* A recursion that leads onwards in such an order has a solution. *)
LEMMA StepsExist ==
  ASSUME NEW N, NEW O, Strict(N, O), 0 \notin N, NEW up,
         \A n \in N : up[n] = 0 \/ (up[n] \in N /\ <<n, up[n]>> \in O)
  PROVE  \E f : Steps(N, up, f)
<1> DEFINE r(n) == Rank(N, O, n)
<1> DEFINE Upto(k, f) == f[0] = <<>> /\ \A n \in N : r(n) < k => f[n] = <<n>> \o f[up[n]]
<1> DEFINE Solved == {k \in Nat : \E f : f = [n \in N \cup {0} |-> f[n]] /\ Upto(k, f)}
<1>1. \A n \in N : r(n) \in Nat /\ (up[n] # 0 => up[n] \in N /\ r(up[n]) < r(n))
  BY RankFalls
<1> HIDE DEF r
<1>2. 0 \in Solved
  <2> DEFINE f == [n \in N \cup {0} |-> <<>>]
  <2>1. Upto(0, f)
    BY <1>1
  <2>2. f = [n \in N \cup {0} |-> f[n]]
    OBVIOUS
  <2> HIDE DEF f, Upto
  <2> QED
    BY <2>1, <2>2
<1>3. ASSUME NEW k \in Solved PROVE k + 1 \in Solved
  <2>1. PICK f : f = [n \in N \cup {0} |-> f[n]] /\ Upto(k, f)
    BY <1>3
  <2> DEFINE g == [n \in N \cup {0} |-> IF n = 0 THEN <<>> ELSE <<n>> \o f[up[n]]]
  <2>2. g = [n \in N \cup {0} |-> g[n]]
    OBVIOUS
  <2>3. g[0] = <<>> /\ \A n \in N : g[n] = <<n>> \o f[up[n]]
    OBVIOUS
  <2> HIDE DEF g
  <2>4. ASSUME NEW n \in N, r(n) < k + 1 PROVE g[n] = <<n>> \o g[up[n]]
    <3>1. CASE up[n] = 0
      BY <2>1, <2>3, <3>1
    <3>2. CASE up[n] # 0
      <4>1. up[n] \in N /\ r(up[n]) < k
        BY <1>1, <2>4, <3>2
      <4>2. g[up[n]] = <<up[n]>> \o f[up[up[n]]]
        BY <2>3, <4>1
      <4>3. f[up[n]] = <<up[n]>> \o f[up[up[n]]]
        BY <2>1, <4>1
      <4> QED
        BY <2>3, <4>2, <4>3
    <3> QED
      BY <3>1, <3>2
  <2>5. Upto(k + 1, g)
    BY <2>3, <2>4
  <2> HIDE DEF Upto
  <2> QED
    BY <2>2, <2>5
<1>4. Solved = Nat
  <2>1. Solved \in SUBSET Nat
    OBVIOUS
  <2> HIDE DEF Solved
  <2> QED
    BY <1>2, <1>3, <2>1, SetInduction
<1>5. PICK k \in Nat : \A n \in N : r(n) < k
  <2>1. IsFiniteSet(N) /\ Cardinality(N) \in Nat
    BY FS_CardinalityType DEF Strict
  <2>2. ASSUME NEW n \in N PROVE r(n) < Cardinality(N) + 1
    <3>1. Later(N, O, n) \subseteq N
      BY DEF Later
    <3>2. r(n) <= Cardinality(N)
      BY <2>1, <3>1, FS_Subset DEF r, Rank
    <3> QED
      BY <1>1, <2>1, <3>2
  <2> QED
    BY <2>1, <2>2
<1>6. PICK f : f = [n \in N \cup {0} |-> f[n]] /\ Upto(k, f)
  BY <1>4, <1>5
<1>7. f[0] = <<>> /\ \A n \in N : f[n] = <<n>> \o f[up[n]]
  BY <1>5, <1>6
<1>8. Steps(N, up, f)
  BY <1>6, <1>7 DEF Steps
<1> QED
  BY <1>8

(* One that may stop on the way has a solution too. *)
Leads(N, stop, val, step, f) == f = [n \in N |-> IF n \in stop THEN val[n] ELSE f[step[n]]]

(* A function that goes on along a strict order until it stops is defined. *)
LEMMA LeadsExist ==
  ASSUME NEW N, NEW O, Strict(N, O), NEW stop, NEW val, NEW step,
         \A n \in N : n \in stop \/ (step[n] \in N /\ <<n, step[n]>> \in O)
  PROVE  \E f : Leads(N, stop, val, step, f)
<1> DEFINE r(n) == Rank(N, O, n)
<1> DEFINE Upto(k, f) == \A n \in N : r(n) < k => f[n] = IF n \in stop THEN val[n] ELSE f[step[n]]
<1> DEFINE Solved == {k \in Nat : \E f : f = [n \in N |-> f[n]] /\ Upto(k, f)}
<1>1. \A n \in N : r(n) \in Nat /\ (n \notin stop => step[n] \in N /\ r(step[n]) < r(n))
  BY RankFalls
<1> HIDE DEF r
<1>2. 0 \in Solved
  <2> DEFINE f == [n \in N |-> <<>>]
  <2>1. Upto(0, f)
    BY <1>1
  <2>2. f = [n \in N |-> f[n]]
    OBVIOUS
  <2> HIDE DEF f, Upto
  <2> QED
    BY <2>1, <2>2
<1>3. ASSUME NEW k \in Solved PROVE k + 1 \in Solved
  <2>1. PICK f : f = [n \in N |-> f[n]] /\ Upto(k, f)
    BY <1>3
  <2> DEFINE g == [n \in N |-> IF n \in stop THEN val[n] ELSE f[step[n]]]
  <2>2. g = [n \in N |-> g[n]]
    OBVIOUS
  <2>3. \A n \in N : g[n] = IF n \in stop THEN val[n] ELSE f[step[n]]
    OBVIOUS
  <2> HIDE DEF g
  <2>4. ASSUME NEW n \in N, r(n) < k + 1, n \notin stop PROVE g[n] = g[step[n]]
    <3>1. step[n] \in N /\ r(step[n]) < k
      BY <1>1, <2>4
    <3>2. f[step[n]] = IF step[n] \in stop THEN val[step[n]] ELSE f[step[step[n]]]
      BY <2>1, <3>1
    <3>3. g[step[n]] = IF step[n] \in stop THEN val[step[n]] ELSE f[step[step[n]]]
      BY <2>3, <3>1
    <3> QED
      BY <2>3, <2>4, <3>2, <3>3
  <2>5. Upto(k + 1, g)
    BY <2>3, <2>4
  <2> HIDE DEF Upto
  <2> QED
    BY <2>2, <2>5
<1>4. Solved = Nat
  <2>1. Solved \in SUBSET Nat
    OBVIOUS
  <2> HIDE DEF Solved
  <2> QED
    BY <1>2, <1>3, <2>1, SetInduction
<1>5. PICK k \in Nat : \A n \in N : r(n) < k
  <2>1. IsFiniteSet(N) /\ Cardinality(N) \in Nat
    BY FS_CardinalityType DEF Strict
  <2>2. ASSUME NEW n \in N PROVE r(n) < Cardinality(N) + 1
    <3>1. Later(N, O, n) \subseteq N
      BY DEF Later
    <3>2. r(n) <= Cardinality(N)
      BY <2>1, <3>1, FS_Subset DEF r, Rank
    <3> QED
      BY <1>1, <2>1, <3>2
  <2> QED
    BY <2>1, <2>2
<1>6. PICK f : f = [n \in N |-> f[n]] /\ Upto(k, f)
  BY <1>4, <1>5
<1>7. \A n \in N : f[n] = IF n \in stop THEN val[n] ELSE f[step[n]]
  BY <1>5, <1>6
<1>8. Leads(N, stop, val, step, f)
  BY <1>6, <1>7 DEF Leads
<1> QED
  BY <1>8

(* What comes next in the order, 0 if nothing does. *)
Successor(N, O, up) ==
  \A n \in N :
    /\ up[n] = 0 => \A m \in N : <<n, m>> \notin O
    /\ up[n] # 0 => /\ up[n] \in N /\ <<n, up[n]>> \in O
                    /\ \A m \in N : <<n, m>> \in O => m = up[n] \/ <<up[n], m>> \in O

Sorted(w, O) == \A i, j \in 1 .. Len(w) : i < j => <<w[i], w[j]>> \in O

Visited(w) == {w[i] : i \in 1 .. Len(w)}

(* A walk visits what comes after its start, each once and in order. *)
LEMMA WalkVisits ==
  ASSUME NEW N, NEW O, Strict(N, O), 0 \notin N, NEW up, Successor(N, O, up), NEW f, Steps(N, up, f)
  PROVE  \A n \in N : f[n] \in Seq(N) /\ Sorted(f[n], O) /\ Visited(f[n]) = {n} \cup Later(N, O, n)
<1> DEFINE Right(n) == f[n] \in Seq(N) /\ Sorted(f[n], O) /\ Visited(f[n]) = {n} \cup Later(N, O, n)
<1> DEFINE S == {n \in N : Right(n)}
<1>1. f[0] = <<>> /\ \A n \in N : f[n] = <<n>> \o f[up[n]]
  BY DEF Steps
<1>2. ASSUME NEW n \in N, \A m \in N : <<n, m>> \in O => m \in S PROVE Right(n)
  <2>1. CASE up[n] = 0
    <3>1. f[n] = <<n>>
      <4>1. f[n] = <<n>> \o <<>>
        BY <1>1, <2>1
      <4>2. \A s \in Seq(N) : s \o <<>> = s
        OBVIOUS
      <4>3. <<n>> \in Seq(N)
        OBVIOUS
      <4> QED
        BY <4>1, <4>2, <4>3
    <3>2. Later(N, O, n) = {}
      BY <2>1 DEF Successor, Later
    <3>3. f[n] \in Seq(N) /\ Len(f[n]) = 1 /\ f[n][1] = n
      BY <3>1
    <3> QED
      BY <3>2, <3>3 DEF Sorted, Visited
  <2>2. CASE up[n] # 0
    <3> DEFINE m == up[n]
    <3> DEFINE v == f[m]
    <3> DEFINE w == f[n]
    <3>1. m \in N /\ <<n, m>> \in O /\ \A x \in N : <<n, x>> \in O => x = m \/ <<m, x>> \in O
      BY <2>2 DEF Successor
    <3>2. v \in Seq(N) /\ Sorted(v, O) /\ Visited(v) = {m} \cup Later(N, O, m)
      BY <1>2, <3>1
    <3>3. w = <<n>> \o v
      BY <1>1
    <3> HIDE DEF v, w
    <3>4. /\ w \in Seq(N) /\ Len(v) \in Nat /\ Len(w) = Len(v) + 1 /\ w[1] = n
          /\ \A i \in 1 .. Len(v) : w[i + 1] = v[i]
      BY <3>2, <3>3
    <3>5. \A i \in 1 .. Len(w) : i = 1 \/ (i - 1 \in 1 .. Len(v) /\ w[i] = v[i - 1])
      BY <3>4
    <3>6. Later(N, O, n) = {m} \cup Later(N, O, m)
      BY <3>1 DEF Later, Strict
    <3>7. \A i \in 1 .. Len(v) : v[i] \in Later(N, O, n)
      BY <3>2, <3>6 DEF Visited
    <3>8. ASSUME NEW i \in 1 .. Len(w), NEW j \in 1 .. Len(w), i < j PROVE <<w[i], w[j]>> \in O
      <4>1. j - 1 \in 1 .. Len(v) /\ w[j] = v[j - 1]
        BY <3>5, <3>8
      <4>2. CASE i = 1
        BY <3>4, <3>7, <4>1, <4>2 DEF Later
      <4>3. CASE i # 1
        <5>1. i - 1 \in 1 .. Len(v) /\ w[i] = v[i - 1] /\ i - 1 < j - 1
          BY <3>5, <3>8, <4>1, <4>3
        <5> QED
          BY <3>2, <4>1, <5>1 DEF Sorted
      <4> QED
        BY <4>2, <4>3
    <3>9. Visited(w) = {n} \cup Visited(v)
      <4>1. Visited(w) \subseteq {n} \cup Visited(v)
        BY <3>4, <3>5 DEF Visited
      <4>2. n \in Visited(w)
        BY <3>4 DEF Visited
      <4>3. ASSUME NEW i \in 1 .. Len(v) PROVE v[i] \in Visited(w)
        <5>1. i + 1 \in 1 .. Len(w) /\ w[i + 1] = v[i]
          BY <3>4
        <5> QED
          BY <5>1 DEF Visited
      <4> QED
        BY <4>1, <4>2, <4>3 DEF Visited
    <3>10. Sorted(w, O)
      BY <3>8 DEF Sorted
    <3> QED
      BY <3>2, <3>4, <3>6, <3>9, <3>10 DEF w
  <2> QED
    BY <2>1, <2>2
<1>3. \A n \in N : (\A m \in N : <<n, m>> \in O => m \in S) => n \in S
  BY <1>2
<1> HIDE DEF S
<1>4. \A n \in N : n \in S
  BY <1>3, RankInduction
<1> QED
  BY <1>4 DEF S

(* There is one way to put a set in order. *)
LEMMA SortedOnce ==
  ASSUME NEW N, NEW O, Strict(N, O), NEW v \in Seq(N), NEW w \in Seq(N),
         Sorted(v, O), Sorted(w, O), Visited(v) = Visited(w)
  PROVE  v = w
<1> DEFINE l == Len(v)
<1> DEFINE k == Len(w)
<1>1. l \in Nat /\ k \in Nat /\ (\A i \in 1 .. l : v[i] \in N) /\ (\A i \in 1 .. k : w[i] \in N)
  OBVIOUS
<1>2. (\A i \in 1 .. l : \E j \in 1 .. k : v[i] = w[j]) /\ (\A i \in 1 .. k : \E j \in 1 .. l : w[i] = v[j])
  BY DEF Visited
<1>3. /\ \A i, j \in 1 .. l : i < j => <<v[i], v[j]>> \in O /\ v[i] # v[j]
      /\ \A i, j \in 1 .. k : i < j => <<w[i], w[j]>> \in O /\ w[i] # w[j]
  BY <1>1 DEF Sorted, Strict
<1> DEFINE S == {i \in Nat : \A j \in 1 .. i : (j <= l => j <= k /\ v[j] = w[j]) /\ (j <= k => j <= l)}
<1>4. 0 \in S
  OBVIOUS
<1>5. ASSUME NEW i \in S PROVE i + 1 \in S
  <2> DEFINE n == i + 1
  <2>1. \A j \in 1 .. i : (j <= l => j <= k /\ v[j] = w[j]) /\ (j <= k => j <= l)
    OBVIOUS
  <2>2. i \in Nat /\ n \in Nat /\ n > 0 /\ \A j \in 1 .. n : j = n \/ j \in 1 .. i
    OBVIOUS
  <2>d. n = i + 1
    OBVIOUS
  <2> HIDE DEF n, l, k
  <2>3. ASSUME n <= l PROVE \E j \in 1 .. k : n <= j /\ v[n] = w[j]
    <3>1. n \in 1 .. l
      BY <1>1, <2>2, <2>3
    <3>2. PICK j \in 1 .. k : v[n] = w[j]
      BY <1>2, <3>1
    <3>3. ASSUME j < n PROVE FALSE
      <4>1. j \in 1 .. i /\ j \in 1 .. l /\ v[j] = w[j]
        BY <1>1, <2>1, <2>2, <2>d, <2>3, <3>3
      <4> QED
        BY <1>3, <3>1, <3>2, <3>3, <4>1
    <3> QED
      BY <1>1, <2>2, <3>2, <3>3
  <2>4. ASSUME n <= k PROVE \E j \in 1 .. l : n <= j /\ w[n] = v[j]
    <3>1. n \in 1 .. k
      BY <1>1, <2>2, <2>4
    <3>2. PICK j \in 1 .. l : w[n] = v[j]
      BY <1>2, <3>1
    <3>3. ASSUME j < n PROVE FALSE
      <4>1. j \in 1 .. i /\ j \in 1 .. k /\ v[j] = w[j]
        BY <1>1, <2>1, <2>2, <2>d, <2>4, <3>3
      <4> QED
        BY <1>3, <3>1, <3>2, <3>3, <4>1
    <3> QED
      BY <1>1, <2>2, <3>2, <3>3
  <2>5. n <= l <=> n <= k
    BY <1>1, <2>2, <2>3, <2>4
  <2>6. ASSUME n <= l PROVE v[n] = w[n]
    <3>1. n \in 1 .. l /\ n \in 1 .. k
      BY <1>1, <2>2, <2>5, <2>6
    <3>2. PICK a \in 1 .. k : n <= a /\ v[n] = w[a]
      BY <2>3, <2>6
    <3>3. PICK b \in 1 .. l : n <= b /\ w[n] = v[b]
      BY <2>4, <2>5, <2>6
    <3>4. ASSUME n < a, n < b PROVE FALSE
      <4>1. <<w[n], v[n]>> \in O /\ <<v[n], w[n]>> \in O
        BY <1>3, <3>1, <3>2, <3>3, <3>4
      <4> QED
        BY <1>1, <3>1, <4>1 DEF Strict
    <3>5. n = a \/ n = b
      BY <1>1, <2>2, <3>2, <3>3, <3>4
    <3> QED
      BY <3>2, <3>3, <3>5
  <2>7. \A j \in 1 .. n : (j <= l => j <= k /\ v[j] = w[j]) /\ (j <= k => j <= l)
    BY <2>1, <2>2, <2>5, <2>6
  <2> QED
    BY <2>2, <2>7 DEF n
<1>6. S = Nat
  <2>1. S \in SUBSET Nat
    OBVIOUS
  <2> HIDE DEF S
  <2> QED
    BY <1>4, <1>5, <2>1, SetInduction
<1>7. ASSUME NEW i \in Nat, i > 0 PROVE (i <= l => i <= k /\ v[i] = w[i]) /\ (i <= k => i <= l)
  <2>1. i \in S
    <3> HIDE DEF S
    <3> QED
      BY <1>6
  <2>2. \A j \in 1 .. i : (j <= l => j <= k /\ v[j] = w[j]) /\ (j <= k => j <= l)
    BY <2>1
  <2>3. i \in 1 .. i
    BY <1>7
  <2> HIDE DEF l, k, S
  <2> QED
    BY <2>2, <2>3
<1>8. l = k
  BY <1>1, <1>7
<1> HIDE DEF S, l, k
<1>9. \A i \in 1 .. Len(v) : v[i] = w[i]
  BY <1>1, <1>7 DEF l
<1> QED
  BY <1>8, <1>9 DEF l, k

(* A sorted walk read backwards is sorted by the inverse order. *)
LEMMA ReverseSorted ==
  ASSUME NEW N, NEW O, NEW P, \A x, y \in N : <<x, y>> \in O => <<y, x>> \in P, NEW w \in Seq(N), Sorted(w, O)
  PROVE  Reverse(w) \in Seq(N) /\ Sorted(Reverse(w), P) /\ Visited(Reverse(w)) = Visited(w)
<1> DEFINE l == Len(w)
<1> DEFINE r == Reverse(w)
<1>1. l \in Nat /\ \A i \in 1 .. l : l - i + 1 \in 1 .. l /\ w[i] \in N
  OBVIOUS
<1>2. r = [i \in 1 .. l |-> w[(l - i) + 1]]
  BY DEF Reverse
<1>3. r \in [1 .. l -> N]
  BY <1>1, <1>2
<1>4. r \in Seq(N) /\ Len(r) = l /\ \A i \in 1 .. l : r[i] = w[l - i + 1]
  BY <1>1, <1>2, <1>3
<1> HIDE DEF r
<1>5. ASSUME NEW i \in 1 .. l, NEW j \in 1 .. l, i < j PROVE <<r[i], r[j]>> \in P
  <2> DEFINE a == l - i + 1
  <2> DEFINE b == l - j + 1
  <2>1. a \in 1 .. l /\ b \in 1 .. l /\ b < a
    BY <1>1, <1>5
  <2>2. r[i] = w[a] /\ r[j] = w[b]
    BY <1>4
  <2> HIDE DEF a, b
  <2>3. <<w[b], w[a]>> \in O /\ w[a] \in N /\ w[b] \in N
    BY <1>1, <2>1 DEF Sorted
  <2> QED
    BY <2>2, <2>3
<1>6. Visited(r) = Visited(w)
  <2>1. ASSUME NEW i \in 1 .. l PROVE w[i] \in Visited(r)
    <3>1. l - i + 1 \in 1 .. l /\ l - (l - i + 1) + 1 = i
      BY <1>1
    <3>2. r[l - i + 1] = w[i]
      BY <1>4, <3>1
    <3> QED
      BY <1>4, <3>1, <3>2 DEF Visited
  <2>2. ASSUME NEW i \in 1 .. l PROVE r[i] \in Visited(w)
    BY <1>1, <1>4 DEF Visited
  <2> QED
    BY <1>4, <2>1, <2>2 DEF Visited
<1> QED
  BY <1>4, <1>5, <1>6 DEF Sorted, r

(***************************************************************************)
(* Nodes in the order of their keys.                                        *)
(***************************************************************************)
Agree(a, b, l) == l <= Len(a) /\ l <= Len(b) /\ \A i \in 1 .. l : a[i] = b[i]

(* Keys part before the shorter one ends. *)
Parts(hi, a, b) == \E i \in Nat : i <= Len(a) /\ PartsAt(hi, a, b, i)

(* Keys that go on from two that part, part there as well. *)
LEMMA PartsLonger ==
  ASSUME NEW hi, NEW a, NEW b, NEW c, Len(a) \in Nat, Len(b) \in Nat, Len(c) \in Nat, NEW i \in Nat
  PROVE  /\ Agree(a, c, Len(a)) /\ i <= Len(a) /\ PartsAt(hi, a, b, i) => PartsAt(hi, c, b, i) /\ i <= Len(c)
         /\ Agree(b, c, Len(b)) /\ PartsAt(hi, a, b, i) => PartsAt(hi, a, c, i)
<1>1. ASSUME Agree(a, c, Len(a)), i <= Len(a), PartsAt(hi, a, b, i) PROVE PartsAt(hi, c, b, i) /\ i <= Len(c)
  <2>1. i \in 1 .. Len(a) /\ i <= Len(c) /\ \A j \in 1 .. i : a[j] = c[j]
    BY <1>1 DEF PartsAt, Agree
  <2> QED
    BY <1>1, <2>1 DEF PartsAt
<1>2. ASSUME Agree(b, c, Len(b)), PartsAt(hi, a, b, i) PROVE PartsAt(hi, a, c, i)
  <2>1. i \in 1 .. Len(b) /\ i <= Len(c) /\ \A j \in 1 .. i : b[j] = c[j]
    BY <1>2 DEF PartsAt, Agree
  <2> QED
    BY <1>2, <2>1 DEF PartsAt
<1> QED
  BY <1>1, <1>2

(* Two keys part where they go on differently from a third. *)
LEMMA PartsHere ==
  ASSUME NEW hi, NEW k, NEW a, NEW b, NEW l \in Nat, Len(a) \in Nat, Len(b) \in Nat, l < Len(a), l < Len(b),
         Agree(k, a, l), Agree(k, b, l), a[l + 1] # hi, b[l + 1] = hi
  PROVE  Parts(hi, a, b) /\ Precedes(hi, a, b)
<1>1. \A j \in 1 .. l : a[j] = b[j]
  BY DEF Agree
<1> DEFINE i == l + 1
<1>2. i \in Nat /\ 0 < i /\ i <= Len(a) /\ i <= Len(b) /\ i <= Len(a) + 1 /\ i - 1 = l
  OBVIOUS
<1>3. a[i] # hi /\ b[i] = hi
  OBVIOUS
<1> HIDE DEF i
<1>4. PartsAt(hi, a, b, i)
  BY <1>1, <1>2, <1>3 DEF PartsAt
<1> QED
  BY <1>2, <1>4 DEF Parts, Precedes

(* What goes on from a longer key goes on from the shorter one, with the    *)
(* same bit.                                                                *)
LEMMA AgreeOn ==
  ASSUME NEW a, NEW b, NEW c, Len(a) \in Nat, Len(b) \in Nat, Len(c) \in Nat, Len(a) < Len(b),
         Agree(a, b, Len(a)), Agree(b, c, Len(b))
  PROVE  Len(a) < Len(c) /\ Agree(a, c, Len(a)) /\ c[Len(a) + 1] = b[Len(a) + 1]
<1>1. Len(b) <= Len(c) /\ \A i \in 1 .. Len(b) : b[i] = c[i]
  BY DEF Agree
<1>2. \A i \in 1 .. Len(a) : i \in 1 .. Len(b) /\ a[i] = b[i]
  BY DEF Agree
<1>3. Len(a) + 1 \in 1 .. Len(b)
  OBVIOUS
<1> QED
  BY <1>1, <1>2, <1>3 DEF Agree

(* A key that shares the bit after k with one that goes on from k does so   *)
(* too.                                                                     *)
LEMMA AgreeLess ==
  ASSUME NEW k, NEW a, NEW b, Len(k) \in Nat, Agree(k, a, Len(k)), Agree(a, b, Len(k) + 1)
  PROVE  Len(k) < Len(b) /\ Agree(k, b, Len(k)) /\ a[Len(k) + 1] = b[Len(k) + 1]
<1> DEFINE l == Len(k)
<1>1. l \in Nat /\ l + 1 <= Len(b) /\ \A i \in 1 .. l + 1 : a[i] = b[i]
  BY DEF Agree
<1>2. \A i \in 1 .. l : k[i] = a[i]
  BY DEF Agree
<1> HIDE DEF l
<1>3. \A i \in 1 .. l : i \in 1 .. l + 1
  BY <1>1
<1>4. l + 1 \in 1 .. l + 1 /\ Len(k) <= l
  BY <1>1 DEF l
<1>5. \A i \in 1 .. l : k[i] = b[i]
  BY <1>1, <1>2, <1>3
<1>6. l < Len(b) /\ l <= Len(b)
  <2>1. \A x : x \in Nat /\ l + 1 <= x => l < x
    BY <1>1
  <2> QED
    BY <1>1, <2>1
<1> QED
  BY <1>1, <1>4, <1>5, <1>6 DEF Agree, l

(* A node below its parent, by the bit its key goes on with. *)
Joined(t, p, n, bit) ==
  p \in DOMAIN t.nodes /\ bit \in Bits /\ n = Child(t, p, bit) /\ Hangs(t, p, bit, n)

(* A node without a parent has the empty key; another goes on from its      *)
(* parent.                                                                  *)
LEMMA ParentAbove ==
  ASSUME NEW t, Good(t), Filed(t), NEW n \in DOMAIN t.nodes, NEW p, p = t.nodes[n].parent
  PROVE  /\ p = 0 => Keys(t)[n] = <<>>
         /\ p # 0 => Joined(t, p, n, Keys(t)[n][Len(Keys(t)[p]) + 1])
<1>1. p = 0 => Keys(t)[n] = <<>>
  BY UpwardForm
<1>2. ASSUME p # 0 PROVE Joined(t, p, n, Keys(t)[n][Len(Keys(t)[p]) + 1])
  <2>1. p \in DOMAIN t.nodes /\ n \in Children(t, p)
    BY <1>2, UpwardForm DEF Filed, Held
  <2>2. PICK bit \in Bits : n = Child(t, p, bit) /\ n # 0
    BY <2>1 DEF Children, Child, Bits
  <2>3. Hangs(t, p, bit, n)
    BY <2>1, <2>2, ChildNamed
  <2>4. Keys(t)[n][Len(Keys(t)[p]) + 1] = bit
    BY <2>3 DEF Hangs
  <2> QED
    BY <2>1, <2>2, <2>3, <2>4 DEF Joined
<1> QED
  BY <1>1, <1>2

(* The child of n on the way to m. *)
Turns(t, n, m, bit) ==
  /\ bit \in Bits /\ Child(t, n, bit) # 0 /\ Hangs(t, n, bit, Child(t, n, bit))
  /\ Agree(Keys(t)[Child(t, n, bit)], Keys(t)[m], Len(Keys(t)[Child(t, n, bit)]))

(* On the way from a node to one whose key goes on from its own, the next   *)
(* is a child.                                                              *)
LEMMA TowardsForm ==
  ASSUME NEW t, Good(t), Filed(t), NEW n \in DOMAIN t.nodes, NEW m \in DOMAIN t.nodes,
         Roots(t)[n] = Roots(t)[m], Len(Keys(t)[n]) < Len(Keys(t)[m]), Agree(Keys(t)[n], Keys(t)[m], Len(Keys(t)[n])),
         NEW bit, bit = Keys(t)[m][Len(Keys(t)[n]) + 1]
  PROVE  Turns(t, n, m, bit)
<1>1. Keys(t)[n] \in Seq(Bits) /\ Keys(t)[m] \in Seq(Bits)
  BY UpwardForm
<1>2. IsStrictPrefix(Keys(t)[n], Keys(t)[m])
  BY <1>1, StrictForm DEF Agree
<1>3. bit \in Bits /\ Child(t, n, bit) # 0 /\ IsPrefix(Keys(t)[Child(t, n, bit)], Keys(t)[m])
  BY <1>2, Towards
<1>4. Hangs(t, n, bit, Child(t, n, bit))
  BY <1>3, ChildNamed
<1> DEFINE c == Child(t, n, bit)
<1>5. Keys(t)[c] \in Seq(Bits)
  BY <1>4 DEF Hangs
<1> HIDE DEF c
<1>6. IsPrefix(Keys(t)[c], Keys(t)[m])
  BY <1>3 DEF c
<1>7. Agree(Keys(t)[c], Keys(t)[m], Len(Keys(t)[c]))
  BY <1>1, <1>5, <1>6, PrefixForm DEF Agree
<1> QED
  BY <1>3, <1>4, <1>7 DEF c, Turns

(* Nodes with the same key in a dictionary are the same. *)
LEMMA KeySettles ==
  ASSUME NEW t, Good(t), Filed(t), NEW n \in DOMAIN t.nodes, NEW m \in DOMAIN t.nodes,
         Roots(t)[n] = Roots(t)[m], Agree(Keys(t)[n], Keys(t)[m], Len(Keys(t)[n])), Len(Keys(t)[n]) >= Len(Keys(t)[m])
  PROVE  n = m
<1>1. Keys(t)[n] \in Seq(Bits) /\ Keys(t)[m] \in Seq(Bits)
  BY UpwardForm
<1> DEFINE a == Keys(t)[n]
<1> DEFINE b == Keys(t)[m]
<1>2. a \in Seq(Bits) /\ b \in Seq(Bits) /\ Len(a) >= Len(b) /\ Agree(a, b, Len(a))
  BY <1>1
<1> HIDE DEF a, b
<1>3. a = b
  <2>1. Len(a) = Len(b) /\ \A i \in 1 .. Len(a) : a[i] = b[i]
    BY <1>2 DEF Agree
  <2> QED
    BY <1>2, <2>1
<1> QED
  BY <1>3, KeysAreUnique DEF a, b

(* A key that goes on from a node as its child does goes on from the child. *)
LEMMA Corner ==
  ASSUME NEW t, Good(t), Filed(t), NEW n \in DOMAIN t.nodes, NEW p, p = t.nodes[n].parent, p # 0,
         NEW m \in DOMAIN t.nodes, Roots(t)[n] = Roots(t)[m], Agree(Keys(t)[n], Keys(t)[m], Len(Keys(t)[p]) + 1)
  PROVE  Agree(Keys(t)[n], Keys(t)[m], Len(Keys(t)[n]))
<1> DEFINE bit == Keys(t)[n][Len(Keys(t)[p]) + 1]
<1>1. Joined(t, p, n, bit)
  BY ParentAbove
<1>2. p \in DOMAIN t.nodes /\ n = Child(t, p, bit) /\ Roots(t)[p] = Roots(t)[m]
  BY <1>1 DEF Joined, Hangs
<1>3. Len(Keys(t)[p]) \in Nat /\ Agree(Keys(t)[p], Keys(t)[n], Len(Keys(t)[p]))
  <2>1. IsStrictPrefix(Keys(t)[p], Keys(t)[n]) /\ Keys(t)[p] \in Seq(Bits) /\ Keys(t)[n] \in Seq(Bits)
    BY <1>1 DEF Joined, Hangs
  <2> QED
    BY <2>1, StrictForm DEF Agree
<1>4. /\ Len(Keys(t)[p]) < Len(Keys(t)[m]) /\ bit = Keys(t)[m][Len(Keys(t)[p]) + 1]
      /\ Agree(Keys(t)[p], Keys(t)[m], Len(Keys(t)[p]))
  BY <1>3, AgreeLess
<1> HIDE DEF bit
<1>5. Turns(t, p, m, bit)
  BY <1>2, <1>4, TowardsForm
<1> QED
  BY <1>2, <1>5 DEF Turns

(* Where a key parts from that of a node, it parts from that of its parent  *)
(* or lies below the other child.                                           *)
LEMMA PartsUp ==
  ASSUME NEW t, Good(t), Filed(t), NEW hi \in Bits, NEW x \in DOMAIN t.nodes, NEW p, p = t.nodes[x].parent, p # 0,
         NEW m \in DOMAIN t.nodes, Roots(t)[m] = Roots(t)[x], NEW i \in Nat,
         i <= Len(Keys(t)[x]), PartsAt(hi, Keys(t)[x], Keys(t)[m], i)
  PROVE  \/ i <= Len(Keys(t)[p]) /\ PartsAt(hi, Keys(t)[p], Keys(t)[m], i)
         \/ /\ i = Len(Keys(t)[p]) + 1 /\ Child(t, p, hi) \notin {0, x} /\ Hangs(t, p, hi, Child(t, p, hi))
            /\ Agree(Keys(t)[Child(t, p, hi)], Keys(t)[m], Len(Keys(t)[Child(t, p, hi)]))
<1> DEFINE a == Keys(t)[x]
<1> DEFINE b == Keys(t)[m]
<1> DEFINE k == Keys(t)[p]
<1> DEFINE bit == a[Len(k) + 1]
<1>0. Joined(t, p, x, bit)
  BY ParentAbove
<1>1. p \in DOMAIN t.nodes /\ bit \in Bits /\ x = Child(t, p, bit) /\ Hangs(t, p, bit, x)
  BY <1>0 DEF Joined
<1>2. /\ Len(a) \in Nat /\ Len(b) \in Nat /\ Len(k) \in Nat /\ Len(k) < Len(a) /\ Roots(t)[p] = Roots(t)[m]
      /\ \A j \in 1 .. Len(k) : a[j] = k[j]
  <2>1. Len(b) \in Nat
    BY UpwardForm
  <2>2. Len(a) \in Nat /\ Len(k) \in Nat /\ Roots(t)[x] = Roots(t)[p] /\ IsStrictPrefix(k, a) /\ k \in Seq(Bits) /\ a \in Seq(Bits)
    BY <1>1 DEF Hangs
  <2>3. Len(k) < Len(a) /\ \A j \in 1 .. Len(k) : a[j] = k[j]
    BY <2>2, StrictForm
  <2> QED
    BY <2>1, <2>2, <2>3
<1>3. /\ 0 < i /\ i <= Len(b) /\ i <= Len(a) /\ a[i] # hi /\ b[i] = hi
      /\ \A j \in 1 .. i - 1 : a[j] = b[j]
  BY DEF PartsAt
<1>d. a = Keys(t)[x] /\ b = Keys(t)[m] /\ k = Keys(t)[p] /\ bit = a[Len(k) + 1]
  OBVIOUS
<1> HIDE DEF a, b, k, bit
<1>4. CASE i <= Len(k)
  <2>1. \A j \in 1 .. i : k[j] = a[j]
    BY <1>2, <1>4
  <2>2. PartsAt(hi, k, b, i)
    BY <1>2, <1>3, <1>4, <2>1 DEF PartsAt
  <2> QED
    BY <1>4, <1>d, <2>2
<1>5. CASE i = Len(k) + 1
  <2>1. Len(k) < Len(b) /\ Agree(k, b, Len(k)) /\ hi = b[Len(k) + 1]
    BY <1>2, <1>3, <1>5 DEF Agree
  <2> DEFINE c == Child(t, p, hi)
  <2>2. c # 0 /\ Hangs(t, p, hi, c) /\ Agree(Keys(t)[c], b, Len(Keys(t)[c]))
    <3>1. Turns(t, p, m, hi)
      BY <1>1, <1>2, <1>d, <2>1, TowardsForm
    <3> QED
      BY <1>d, <3>1 DEF Turns
  <2>3. c # x
    <3>1. Keys(t)[c][Len(k) + 1] = hi
      BY <1>d, <2>2 DEF Hangs
    <3> QED
      BY <1>3, <1>5, <1>d, <3>1
  <2> QED
    BY <1>5, <1>d, <2>2, <2>3
<1>6. CASE i > Len(k) + 1
  <2>1. Agree(a, b, Len(k) + 1)
    BY <1>2, <1>3, <1>6 DEF Agree
  <2>2. Agree(a, b, Len(a))
    BY <1>d, <2>1, Corner
  <2>3. a[i] = b[i]
    BY <1>2, <1>3, <2>2 DEF Agree
  <2> QED
    BY <1>3, <2>3
<1> QED
  BY <1>2, <1>4, <1>5, <1>6

(* Where a traversal goes on after all that hangs below a node: to the      *)
(* sibling on the side hi of the first node upwards that has one there.     *)
Climb(t, hi, c) ==
  c = [x \in DOMAIN t.nodes |->
         IF t.nodes[x].parent = 0 THEN 0
         ELSE IF Child(t, t.nodes[x].parent, hi) \notin {0, x} THEN Child(t, t.nodes[x].parent, hi)
         ELSE c[t.nodes[x].parent]]

(* The order of a tree upwards. *)
Upwards(t) == {e \in (DOMAIN t.nodes) \X (DOMAIN t.nodes) : Len(Keys(t)[e[2]]) < Len(Keys(t)[e[1]])}

(* A parent has a shorter key, so that to climb comes to an end. *)
LEMMA UpwardsStrict ==
  ASSUME NEW t, Good(t), Filed(t)
  PROVE  /\ Strict(DOMAIN t.nodes, Upwards(t))
         /\ \A n \in DOMAIN t.nodes : t.nodes[n].parent # 0 => t.nodes[n].parent \in DOMAIN t.nodes /\ <<n, t.nodes[n].parent>> \in Upwards(t)
<1>1. IsFiniteSet(DOMAIN t.nodes)
  <2>1. t.end \in Nat /\ DOMAIN t.nodes \subseteq Nat /\ \A a \in DOMAIN t.nodes : a < t.end
    BY DEF Good, Linked, Typed
  <2>2. \A a \in DOMAIN t.nodes : a <= t.end
    BY <2>1
  <2> QED
    BY <2>1, <2>2, FS_BoundedSetOfNaturals
<1>2. \A n \in DOMAIN t.nodes : Len(Keys(t)[n]) \in Nat
  BY UpwardForm
<1>3. Strict(DOMAIN t.nodes, Upwards(t))
  BY <1>1, <1>2 DEF Strict, Upwards
<1>4. ASSUME NEW n \in DOMAIN t.nodes, NEW p, p = t.nodes[n].parent, p # 0 PROVE p \in DOMAIN t.nodes /\ <<n, p>> \in Upwards(t)
  <2>1. p \in DOMAIN t.nodes /\ Hangs(t, p, Keys(t)[n][Len(Keys(t)[p]) + 1], n)
    BY <1>4, ParentAbove DEF Joined
  <2>2. Len(Keys(t)[p]) < Len(Keys(t)[n])
    BY <2>1, StrictForm DEF Hangs
  <2> QED
    BY <2>1, <2>2 DEF Upwards
<1> QED
  BY <1>3, <1>4

(* What r is to x among the keys that part from that of x. *)
NextParted(t, hi, x, r) ==
  /\ r = 0 => \A m \in DOMAIN t.nodes : Roots(t)[m] = Roots(t)[x] => ~Parts(hi, Keys(t)[x], Keys(t)[m])
  /\ r # 0 => /\ r \in DOMAIN t.nodes /\ Roots(t)[r] = Roots(t)[x] /\ Parts(hi, Keys(t)[x], Keys(t)[r])
              /\ \A m \in DOMAIN t.nodes :
                   Roots(t)[m] = Roots(t)[x] /\ Parts(hi, Keys(t)[x], Keys(t)[m]) => m = r \/ Precedes(hi, Keys(t)[r], Keys(t)[m])

(* A node whose key goes on from that of another comes after it, in both    *)
(* orders.                                                                  *)
LEMMA AgreeFollows ==
  ASSUME NEW t, Good(t), Filed(t), NEW hi, NEW r \in DOMAIN t.nodes, NEW m \in DOMAIN t.nodes,
         Roots(t)[r] = Roots(t)[m], Agree(Keys(t)[r], Keys(t)[m], Len(Keys(t)[r]))
  PROVE  m = r \/ Precedes(hi, Keys(t)[r], Keys(t)[m])
<1>1. Keys(t)[r] \in Seq(Bits) /\ Keys(t)[m] \in Seq(Bits)
  BY UpwardForm
<1>2. CASE Len(Keys(t)[r]) >= Len(Keys(t)[m])
  BY <1>2, KeySettles
<1>3. CASE Len(Keys(t)[r]) < Len(Keys(t)[m])
  BY <1>1, <1>3, StrictForm, PrecedesLonger DEF Agree
<1>4. Len(Keys(t)[r]) \in Nat /\ Len(Keys(t)[m]) \in Nat
  BY <1>1
<1> QED
  BY <1>2, <1>3, <1>4

(* If a climb from every node above is right, so is the climb from a node. *)
LEMMA ClimbStep ==
  ASSUME NEW t, Good(t), Filed(t), NEW hi \in Bits, NEW c, Climb(t, hi, c), NEW x \in DOMAIN t.nodes,
         \A y \in DOMAIN t.nodes : <<x, y>> \in Upwards(t) => NextParted(t, hi, y, c[y])
  PROVE  NextParted(t, hi, x, c[x])
<1> DEFINE p == t.nodes[x].parent
<1> DEFINE s == Child(t, p, hi)
<1> DEFINE k == Keys(t)
<1>1. c[x] = IF p = 0 THEN 0 ELSE IF s \notin {0, x} THEN s ELSE c[p]
  BY DEF Climb
<1>2. k[x] \in Seq(Bits) /\ \A m \in DOMAIN t.nodes : k[m] \in Seq(Bits) /\ Len(k[m]) \in Nat
  BY UpwardForm
<1>3. CASE p = 0
  <2>1. Len(k[x]) = 0
    BY <1>3, ParentAbove
  <2>2. \A m \in DOMAIN t.nodes : ~Parts(hi, k[x], k[m])
    BY <2>1 DEF Parts, PartsAt
  <2> QED
    BY <1>1, <1>3, <2>2 DEF NextParted
<1>4. ASSUME p # 0
      PROVE  /\ p \in DOMAIN t.nodes /\ Roots(t)[p] = Roots(t)[x] /\ Len(k[p]) < Len(k[x])
             /\ Agree(k[p], k[x], Len(k[p])) /\ <<x, p>> \in Upwards(t)
             /\ k[x][Len(k[p]) + 1] \in Bits /\ x = Child(t, p, k[x][Len(k[p]) + 1])
  <2>1. p \in DOMAIN t.nodes /\ Hangs(t, p, k[x][Len(k[p]) + 1], x) /\ <<x, p>> \in Upwards(t)
        /\ k[x][Len(k[p]) + 1] \in Bits /\ x = Child(t, p, k[x][Len(k[p]) + 1])
    <3>1. Joined(t, p, x, k[x][Len(k[p]) + 1])
      BY <1>4, ParentAbove
    <3> QED
      BY <1>4, <3>1, UpwardsStrict DEF Joined
  <2>2. Roots(t)[x] = Roots(t)[p] /\ IsStrictPrefix(k[p], k[x]) /\ k[p] \in Seq(Bits) /\ k[x] \in Seq(Bits)
    BY <2>1 DEF Hangs
  <2>3. Len(k[p]) < Len(k[x]) /\ Agree(k[p], k[x], Len(k[p]))
    BY <2>2, StrictForm DEF Agree
  <2> QED
    BY <2>1, <2>2, <2>3
<1>5. CASE p # 0 /\ s \notin {0, x}
  <2>1. Hangs(t, p, hi, s)
    BY <1>4, <1>5, ChildNamed
  <2>2. /\ s \in DOMAIN t.nodes /\ Roots(t)[s] = Roots(t)[x] /\ k[s][Len(k[p]) + 1] = hi
        /\ Len(k[p]) < Len(k[s]) /\ Agree(k[p], k[s], Len(k[p]))
    <3>1. /\ s \in DOMAIN t.nodes /\ Roots(t)[s] = Roots(t)[p] /\ k[s][Len(k[p]) + 1] = hi
          /\ IsStrictPrefix(k[p], k[s]) /\ k[p] \in Seq(Bits) /\ k[s] \in Seq(Bits)
      BY <2>1 DEF Hangs
    <3>2. Len(k[p]) < Len(k[s]) /\ Agree(k[p], k[s], Len(k[p]))
      BY <3>1, StrictForm DEF Agree
    <3> QED
      BY <1>4, <1>5, <3>1, <3>2
  <2>3. k[x][Len(k[p]) + 1] # hi
    BY <1>4, <1>5
  <2> HIDE DEF s
  <2>4. Parts(hi, k[x], k[s])
    <3>1. Len(k[p]) \in Nat /\ Len(k[x]) \in Nat /\ Len(k[s]) \in Nat
      BY <1>2, <1>4, <1>5, <2>2
    <3> QED
      BY <1>4, <1>5, <2>2, <2>3, <3>1, PartsHere
  <2>5. ASSUME NEW m \in DOMAIN t.nodes, Roots(t)[m] = Roots(t)[x], Parts(hi, k[x], k[m])
        PROVE  m = s \/ Precedes(hi, k[s], k[m])
    <3>1. PICK i \in Nat : i <= Len(k[x]) /\ PartsAt(hi, k[x], k[m], i)
      BY <2>5 DEF Parts
    <3>2. \/ i <= Len(k[p]) /\ PartsAt(hi, k[p], k[m], i)
          \/ Agree(k[s], k[m], Len(k[s]))
      BY <1>5, <2>5, <3>1, PartsUp DEF s
    <3>3. CASE i <= Len(k[p]) /\ PartsAt(hi, k[p], k[m], i)
      <4>1. PartsAt(hi, k[s], k[m], i)
        BY <1>2, <1>4, <1>5, <2>2, <3>3, PartsLonger
      <4> QED
        BY <4>1 DEF Precedes
    <3>4. CASE Agree(k[s], k[m], Len(k[s]))
      BY <2>2, <2>5, <3>4, AgreeFollows
    <3> QED
      BY <3>2, <3>3, <3>4
  <2>6. c[x] = s /\ s # 0
    BY <1>1, <1>5 DEF s
  <2> QED
    BY <2>2, <2>4, <2>5, <2>6 DEF NextParted
<1>6. CASE p # 0 /\ s \in {0, x}
  <2>1. c[x] = c[p] /\ NextParted(t, hi, p, c[p])
    BY <1>1, <1>4, <1>6
  <2>2. ASSUME NEW m \in DOMAIN t.nodes, Roots(t)[m] = Roots(t)[x]
        PROVE  Parts(hi, k[x], k[m]) <=> Parts(hi, k[p], k[m])
    <3>1. ASSUME Parts(hi, k[x], k[m]) PROVE Parts(hi, k[p], k[m])
      <4>1. PICK i \in Nat : i <= Len(k[x]) /\ PartsAt(hi, k[x], k[m], i)
        BY <3>1 DEF Parts
      <4>2. i <= Len(k[p]) /\ PartsAt(hi, k[p], k[m], i)
        BY <1>6, <2>2, <4>1, PartsUp
      <4> QED
        BY <4>2 DEF Parts
    <3>2. ASSUME Parts(hi, k[p], k[m]) PROVE Parts(hi, k[x], k[m])
      <4>1. PICK i \in Nat : i <= Len(k[p]) /\ PartsAt(hi, k[p], k[m], i)
        BY <3>2 DEF Parts
      <4>2. PartsAt(hi, k[x], k[m], i) /\ i <= Len(k[x])
        BY <1>2, <1>4, <1>6, <4>1, PartsLonger
      <4> QED
        BY <4>2 DEF Parts
    <3> QED
      BY <3>1, <3>2
  <2> HIDE DEF k
  <2> QED
    BY <1>4, <1>6, <2>1, <2>2 DEF NextParted, k
<1> QED
  BY <1>3, <1>5, <1>6

(* A climb ends at the first node after all that hangs below the one it     *)
(* starts from.                                                             *)
LEMMA ClimbRight ==
  ASSUME NEW t, Good(t), Filed(t), NEW hi \in Bits, NEW c, Climb(t, hi, c), NEW x \in DOMAIN t.nodes
  PROVE  NextParted(t, hi, x, c[x])
<1> DEFINE S == {y \in DOMAIN t.nodes : NextParted(t, hi, y, c[y])}
<1>1. \A n \in DOMAIN t.nodes : (\A m \in DOMAIN t.nodes : <<n, m>> \in Upwards(t) => m \in S) => n \in S
  BY ClimbStep
<1>2. Strict(DOMAIN t.nodes, Upwards(t))
  BY UpwardsStrict
<1> HIDE DEF S
<1>3. x \in S
  BY <1>1, <1>2, RankInduction
<1> QED
  BY <1>3 DEF S

(* The climbs are defined. *)
LEMMA ClimbExists ==
  ASSUME NEW t, Good(t), Filed(t), NEW hi
  PROVE  \E c : Climb(t, hi, c)
<1> DEFINE N == DOMAIN t.nodes
<1> DEFINE p(x) == t.nodes[x].parent
<1> DEFINE stop == {x \in N : p(x) = 0 \/ Child(t, p(x), hi) \notin {0, x}}
<1> DEFINE val == [x \in N |-> IF p(x) = 0 THEN 0 ELSE Child(t, p(x), hi)]
<1> DEFINE step == [x \in N |-> p(x)]
<1>1. Strict(N, Upwards(t)) /\ \A n \in N : p(n) # 0 => p(n) \in N /\ <<n, p(n)>> \in Upwards(t)
  BY UpwardsStrict
<1>2. \A n \in N : n \in stop \/ (step[n] \in N /\ <<n, step[n]>> \in Upwards(t))
  BY <1>1
<1>3. PICK c : Leads(N, stop, val, step, c)
  <2> HIDE DEF stop, val, step, N
  <2> QED
    BY <1>1, <1>2, LeadsExist
<1>4. c = [x \in N |-> IF x \in stop THEN val[x] ELSE c[step[x]]]
  BY <1>3 DEF Leads
<1>5. ASSUME NEW x \in N
      PROVE  (IF x \in stop THEN val[x] ELSE c[step[x]]) =
             IF p(x) = 0 THEN 0 ELSE IF Child(t, p(x), hi) \notin {0, x} THEN Child(t, p(x), hi) ELSE c[p(x)]
  OBVIOUS
<1>6. Climb(t, hi, c)
  <2> HIDE DEF stop, val, step
  <2> QED
    BY <1>4, <1>5 DEF Climb
<1> QED
  BY <1>6

(* The nodes right after and right before a node, 0 if there is none. *)
NearestAfter(t, hi, n, r) ==
  /\ r = 0 => \A m \in DOMAIN t.nodes : Roots(t)[m] = Roots(t)[n] => ~Precedes(hi, Keys(t)[n], Keys(t)[m])
  /\ r # 0 => /\ r \in DOMAIN t.nodes /\ Roots(t)[r] = Roots(t)[n] /\ Precedes(hi, Keys(t)[n], Keys(t)[r])
              /\ \A m \in DOMAIN t.nodes :
                   Roots(t)[m] = Roots(t)[n] /\ Precedes(hi, Keys(t)[n], Keys(t)[m]) => m = r \/ Precedes(hi, Keys(t)[r], Keys(t)[m])

(* The node r comes before n with nothing between them; 0, if none does. *)
NearestBefore(t, hi, n, r) ==
  /\ r = 0 => \A m \in DOMAIN t.nodes : Roots(t)[m] = Roots(t)[n] => ~Precedes(hi, Keys(t)[m], Keys(t)[n])
  /\ r # 0 => /\ r \in DOMAIN t.nodes /\ Roots(t)[r] = Roots(t)[n] /\ Precedes(hi, Keys(t)[r], Keys(t)[n])
              /\ \A m \in DOMAIN t.nodes :
                   Roots(t)[m] = Roots(t)[n] /\ Precedes(hi, Keys(t)[m], Keys(t)[n]) => m = r \/ Precedes(hi, Keys(t)[m], Keys(t)[r])

(* One key comes before another if they part or the other goes on from it. *)
LEMMA PrecedesForm ==
  ASSUME NEW hi, NEW a \in Seq(Bits), NEW b \in Seq(Bits)
  PROVE  Precedes(hi, a, b) <=> Parts(hi, a, b) \/ (Len(a) < Len(b) /\ Agree(a, b, Len(a)))
<1>1. Len(a) \in Nat /\ Len(b) \in Nat
  OBVIOUS
<1>2. ASSUME NEW i \in Nat, PartsAt(hi, a, b, i), ~(i <= Len(a)) PROVE Len(a) < Len(b) /\ Agree(a, b, Len(a))
  <2>1. i = Len(a) + 1
    BY <1>1, <1>2 DEF PartsAt
  <2> QED
    BY <1>1, <1>2, <2>1 DEF PartsAt, Agree
<1>3. ASSUME Len(a) < Len(b), Agree(a, b, Len(a)) PROVE Precedes(hi, a, b)
  BY <1>3, StrictForm, PrecedesLonger DEF Agree
<1> QED
  BY <1>2, <1>3 DEF Precedes, Parts

(* A step of a traversal: to a child, on the side that comes first, or to   *)
(* where a climb ends.                                                      *)
NextOf(t, hi, c, n) ==
  IF Child(t, n, 1 - hi) # 0 THEN Child(t, n, 1 - hi)
  ELSE IF Child(t, n, hi) # 0 THEN Child(t, n, hi)
  ELSE c[n]

(* A step of a traversal goes to the nearest node after. *)
LEMMA NextOfRight ==
  ASSUME NEW t, Good(t), Filed(t), NEW hi \in Bits, NEW c, Climb(t, hi, c), NEW n \in DOMAIN t.nodes
  PROVE  NearestAfter(t, hi, n, NextOf(t, hi, c, n))
<1> DEFINE lo == 1 - hi
<1> DEFINE k == Keys(t)
<1> DEFINE r == NextOf(t, hi, c, n)
<1>1. lo \in Bits /\ lo # hi /\ \A bit \in Bits : bit = lo \/ bit = hi
  BY DEF Bits
<1>2. \A m \in DOMAIN t.nodes : k[m] \in Seq(Bits) /\ Len(k[m]) \in Nat
  BY UpwardForm
<1>d. r = IF Child(t, n, lo) # 0 THEN Child(t, n, lo) ELSE IF Child(t, n, hi) # 0 THEN Child(t, n, hi) ELSE c[n]
  BY DEF NextOf
<1> SUFFICES NearestAfter(t, hi, n, r)
  OBVIOUS
<1> HIDE DEF lo, r
<1>3. ASSUME NEW bit \in Bits, NEW s, s = Child(t, n, bit), s # 0
      PROVE  /\ s \in DOMAIN t.nodes /\ Roots(t)[s] = Roots(t)[n] /\ Len(k[n]) < Len(k[s]) /\ k[s][Len(k[n]) + 1] = bit
             /\ Agree(k[n], k[s], Len(k[n]))
  <2>1. Hangs(t, n, bit, s)
    BY <1>3, ChildNamed
  <2>2. /\ s \in DOMAIN t.nodes /\ Roots(t)[s] = Roots(t)[n] /\ k[s][Len(k[n]) + 1] = bit
        /\ IsStrictPrefix(k[n], k[s]) /\ k[n] \in Seq(Bits) /\ k[s] \in Seq(Bits)
    BY <2>1 DEF Hangs
  <2>3. Len(k[n]) < Len(k[s]) /\ Agree(k[n], k[s], Len(k[n]))
    BY <2>2, StrictForm DEF Agree
  <2> QED
    BY <2>2, <2>3
<1>4. ASSUME NEW m \in DOMAIN t.nodes, Roots(t)[m] = Roots(t)[n], Len(k[n]) < Len(k[m]), Agree(k[n], k[m], Len(k[n]))
      PROVE  /\ k[m][Len(k[n]) + 1] \in Bits /\ Child(t, n, k[m][Len(k[n]) + 1]) # 0
             /\ Agree(k[Child(t, n, k[m][Len(k[n]) + 1])], k[m], Len(k[Child(t, n, k[m][Len(k[n]) + 1])]))
  BY <1>4, TowardsForm DEF Turns
<1>5. ASSUME NEW s, s = r, s # 0, NEW bit \in Bits, s = Child(t, n, bit), bit = lo \/ Child(t, n, lo) = 0
      PROVE  NearestAfter(t, hi, n, r)
  <2>1. /\ s \in DOMAIN t.nodes /\ Roots(t)[s] = Roots(t)[n] /\ Len(k[n]) < Len(k[s]) /\ k[s][Len(k[n]) + 1] = bit
        /\ Agree(k[n], k[s], Len(k[n]))
    BY <1>3, <1>5
  <2>2. Precedes(hi, k[n], k[s])
    BY <1>2, <2>1, PrecedesForm
  <2>3. ASSUME NEW m \in DOMAIN t.nodes, Roots(t)[m] = Roots(t)[n], Precedes(hi, k[n], k[m])
        PROVE  m = s \/ Precedes(hi, k[s], k[m])
    <3>1. CASE Parts(hi, k[n], k[m])
      <4>1. PICK i \in Nat : i <= Len(k[n]) /\ PartsAt(hi, k[n], k[m], i)
        BY <3>1 DEF Parts
      <4>2. PartsAt(hi, k[s], k[m], i)
        BY <1>2, <2>1, <4>1, PartsLonger
      <4> QED
        BY <4>2 DEF Precedes
    <3>2. CASE Len(k[n]) < Len(k[m]) /\ Agree(k[n], k[m], Len(k[n]))
      <4> DEFINE b == k[m][Len(k[n]) + 1]
      <4>1. b \in Bits /\ Child(t, n, b) # 0 /\ Agree(k[Child(t, n, b)], k[m], Len(k[Child(t, n, b)]))
        BY <1>4, <2>3, <3>2
      <4>2. CASE b = bit
        BY <1>5, <2>1, <2>3, <4>1, <4>2, AgreeFollows
      <4>3. CASE b # bit
        <5>1. bit = lo /\ b = hi
          BY <1>1, <1>5, <4>1, <4>3
        <5>2. Len(k[s]) \in Nat /\ Len(k[m]) \in Nat /\ Len(k[n]) \in Nat
          BY <1>2, <2>1
        <5>3. k[s][Len(k[n]) + 1] # hi /\ k[m][Len(k[n]) + 1] = hi
          BY <1>1, <2>1, <5>1
        <5> QED
          BY <2>1, <3>2, <5>2, <5>3, PartsHere
      <4> QED
        BY <4>2, <4>3
    <3> QED
      BY <1>2, <2>3, <3>1, <3>2, PrecedesForm
  <2> HIDE DEF k
  <2> QED
    BY <1>5, <2>1, <2>2, <2>3 DEF NearestAfter, k
<1>6. CASE Child(t, n, lo) # 0
  <2>1. r = Child(t, n, lo) /\ r # 0
    BY <1>6, <1>d
  <2> QED
    BY <1>1, <1>5, <2>1
<1>7. CASE Child(t, n, lo) = 0 /\ Child(t, n, hi) # 0
  <2>1. r = Child(t, n, hi) /\ r # 0
    BY <1>7, <1>d
  <2> QED
    BY <1>1, <1>5, <1>7, <2>1
<1>8. CASE Child(t, n, lo) = 0 /\ Child(t, n, hi) = 0
  <2>1. r = c[n] /\ NextParted(t, hi, n, r)
    BY <1>8, <1>d, ClimbRight
  <2>2. ASSUME NEW m \in DOMAIN t.nodes, Roots(t)[m] = Roots(t)[n]
        PROVE  Precedes(hi, k[n], k[m]) <=> Parts(hi, k[n], k[m])
    <3>1. ~(Len(k[n]) < Len(k[m]) /\ Agree(k[n], k[m], Len(k[n])))
      BY <1>1, <1>4, <1>8, <2>2
    <3> QED
      BY <1>2, <3>1, PrecedesForm
  <2> HIDE DEF k
  <2> QED
    BY <2>1, <2>2 DEF NearestAfter, NextParted, k
<1> QED
  BY <1>6, <1>7, <1>8

(***************************************************************************)
(* The last node below a node, and the node before one.                     *)
(***************************************************************************)
Deepest(t, hi, f) ==
  f = [x \in DOMAIN t.nodes |->
         IF Child(t, x, hi) # 0 THEN f[Child(t, x, hi)]
         ELSE IF Child(t, x, 1 - hi) # 0 THEN f[Child(t, x, 1 - hi)]
         ELSE x]

(* The nodes with the shorter key to the nodes with the longer one. *)
Downwards(t) == {e \in (DOMAIN t.nodes) \X (DOMAIN t.nodes) : Len(Keys(t)[e[1]]) < Len(Keys(t)[e[2]])}

(* What a node passes on to its child. *)
LEMMA ChildOf ==
  ASSUME NEW t, Good(t), Filed(t), NEW n \in DOMAIN t.nodes, NEW bit \in Bits, NEW s, s = Child(t, n, bit), s # 0
  PROVE  /\ s \in DOMAIN t.nodes /\ Roots(t)[s] = Roots(t)[n] /\ Len(Keys(t)[n]) < Len(Keys(t)[s])
         /\ Keys(t)[s][Len(Keys(t)[n]) + 1] = bit /\ Agree(Keys(t)[n], Keys(t)[s], Len(Keys(t)[n]))
<1>1. Hangs(t, n, bit, s)
  BY ChildNamed
<1>2. /\ s \in DOMAIN t.nodes /\ Roots(t)[s] = Roots(t)[n] /\ Keys(t)[s][Len(Keys(t)[n]) + 1] = bit
      /\ IsStrictPrefix(Keys(t)[n], Keys(t)[s]) /\ Keys(t)[n] \in Seq(Bits) /\ Keys(t)[s] \in Seq(Bits)
  BY <1>1 DEF Hangs
<1>3. Len(Keys(t)[n]) < Len(Keys(t)[s]) /\ Agree(Keys(t)[n], Keys(t)[s], Len(Keys(t)[n]))
  BY <1>2, StrictForm DEF Agree
<1> QED
  BY <1>2, <1>3

(* A child has a longer key, so that to go down comes to an end. *)
LEMMA DownwardsStrict ==
  ASSUME NEW t, Good(t), Filed(t)
  PROVE  /\ Strict(DOMAIN t.nodes, Downwards(t))
         /\ \A n \in DOMAIN t.nodes, bit \in Bits :
              Child(t, n, bit) # 0 => Child(t, n, bit) \in DOMAIN t.nodes /\ <<n, Child(t, n, bit)>> \in Downwards(t)
<1>1. IsFiniteSet(DOMAIN t.nodes)
  BY UpwardsStrict DEF Strict
<1>2. \A n \in DOMAIN t.nodes : Len(Keys(t)[n]) \in Nat
  BY UpwardForm
<1>3. Strict(DOMAIN t.nodes, Downwards(t))
  BY <1>1, <1>2 DEF Strict, Downwards
<1>4. ASSUME NEW n \in DOMAIN t.nodes, NEW bit \in Bits, NEW s, s = Child(t, n, bit), s # 0
      PROVE  s \in DOMAIN t.nodes /\ <<n, s>> \in Downwards(t)
  BY <1>4, ChildOf DEF Downwards
<1> QED
  BY <1>3, <1>4

(* The functions that go down on one side are defined. *)
LEMMA DeepestExists ==
  ASSUME NEW t, Good(t), Filed(t), NEW hi \in Bits
  PROVE  \E f : Deepest(t, hi, f)
<1> DEFINE N == DOMAIN t.nodes
<1> DEFINE lo == 1 - hi
<1> DEFINE stop == {x \in N : Child(t, x, hi) = 0 /\ Child(t, x, lo) = 0}
<1> DEFINE val == [x \in N |-> x]
<1> DEFINE step == [x \in N |-> IF Child(t, x, hi) # 0 THEN Child(t, x, hi) ELSE Child(t, x, lo)]
<1>1. Strict(N, Downwards(t))
  BY DownwardsStrict
<1>2. lo \in Bits
  BY DEF Bits
<1>3. ASSUME NEW n \in N, n \notin stop PROVE step[n] \in N /\ <<n, step[n]>> \in Downwards(t)
  <2>1. PICK bit \in Bits : step[n] = Child(t, n, bit) /\ Child(t, n, bit) # 0
    BY <1>2, <1>3
  <2> QED
    BY <2>1, DownwardsStrict
<1>4. PICK f : Leads(N, stop, val, step, f)
  <2> HIDE DEF stop, val, step, N
  <2> QED
    BY <1>1, <1>3, LeadsExist
<1>5. f = [x \in N |-> IF x \in stop THEN val[x] ELSE f[step[x]]]
  BY <1>4 DEF Leads
<1>6. ASSUME NEW x \in N
      PROVE  (IF x \in stop THEN val[x] ELSE f[step[x]]) =
             IF Child(t, x, hi) # 0 THEN f[Child(t, x, hi)] ELSE IF Child(t, x, lo) # 0 THEN f[Child(t, x, lo)] ELSE x
  OBVIOUS
<1>7. Deepest(t, hi, f)
  <2> HIDE DEF stop, val, step
  <2> QED
    BY <1>5, <1>6 DEF Deepest
<1> QED
  BY <1>7

(* The last, in the order hi, of all that hangs below x or is x. *)
LastBelow(t, hi, x, q) ==
  /\ q \in DOMAIN t.nodes /\ Roots(t)[q] = Roots(t)[x] /\ Agree(Keys(t)[x], Keys(t)[q], Len(Keys(t)[x]))
  /\ \A m \in DOMAIN t.nodes :
       Roots(t)[m] = Roots(t)[x] /\ Agree(Keys(t)[x], Keys(t)[m], Len(Keys(t)[x])) => m = q \/ Precedes(hi, Keys(t)[m], Keys(t)[q])

(* If the descent on one side is right below a node, it is right at the     *)
(* node.                                                                    *)
LEMMA DeepestStep ==
  ASSUME NEW t, Good(t), Filed(t), NEW hi \in Bits, NEW f, Deepest(t, hi, f), NEW x \in DOMAIN t.nodes,
         \A y \in DOMAIN t.nodes : <<x, y>> \in Downwards(t) => LastBelow(t, hi, y, f[y])
  PROVE  LastBelow(t, hi, x, f[x])
<1> DEFINE lo == 1 - hi
<1> DEFINE k == Keys(t)
<1>1. lo \in Bits /\ lo # hi /\ \A bit \in Bits : bit = lo \/ bit = hi
  BY DEF Bits
<1>2. \A m \in DOMAIN t.nodes : k[m] \in Seq(Bits) /\ Len(k[m]) \in Nat
  BY UpwardForm
<1>3. f[x] = IF Child(t, x, hi) # 0 THEN f[Child(t, x, hi)] ELSE IF Child(t, x, lo) # 0 THEN f[Child(t, x, lo)] ELSE x
  BY DEF Deepest
<1> HIDE DEF lo
<1>4. ASSUME NEW m \in DOMAIN t.nodes, Roots(t)[m] = Roots(t)[x], Len(k[x]) < Len(k[m]), Agree(k[x], k[m], Len(k[x]))
      PROVE  /\ k[m][Len(k[x]) + 1] \in Bits /\ Child(t, x, k[m][Len(k[x]) + 1]) # 0
             /\ Agree(k[Child(t, x, k[m][Len(k[x]) + 1])], k[m], Len(k[Child(t, x, k[m][Len(k[x]) + 1])]))
  BY <1>4, TowardsForm DEF Turns
<1>5. ASSUME NEW m \in DOMAIN t.nodes, Roots(t)[m] = Roots(t)[x], Agree(k[x], k[m], Len(k[x])), ~(Len(k[x]) < Len(k[m]))
      PROVE  m = x
  BY <1>2, <1>5, KeySettles
<1>6. CASE Child(t, x, hi) = 0 /\ Child(t, x, lo) = 0
  <2>1. f[x] = x
    BY <1>3, <1>6
  <2>2. ASSUME NEW m \in DOMAIN t.nodes, Roots(t)[m] = Roots(t)[x], Agree(k[x], k[m], Len(k[x])) PROVE m = x
    BY <1>1, <1>4, <1>5, <1>6, <2>2
  <2>3. Agree(k[x], k[x], Len(k[x]))
    BY <1>2 DEF Agree
  <2> HIDE DEF k
  <2> QED
    BY <2>1, <2>2, <2>3 DEF LastBelow, k
<1>7. ASSUME NEW bit \in Bits, NEW s, s = Child(t, x, bit), s # 0, f[x] = f[s], bit = hi \/ Child(t, x, hi) = 0
      PROVE  LastBelow(t, hi, x, f[x])
  <2> DEFINE q == f[s]
  <2>1. /\ s \in DOMAIN t.nodes /\ Roots(t)[s] = Roots(t)[x] /\ Len(k[x]) < Len(k[s]) /\ k[s][Len(k[x]) + 1] = bit
        /\ Agree(k[x], k[s], Len(k[x]))
    BY <1>7, ChildOf
  <2>2. LastBelow(t, hi, s, q)
    <3>1. <<x, s>> \in Downwards(t)
      BY <2>1 DEF Downwards
    <3> QED
      BY <2>1, <3>1
  <2> HIDE DEF q
  <2>3. /\ q \in DOMAIN t.nodes /\ Roots(t)[q] = Roots(t)[x] /\ Agree(k[s], k[q], Len(k[s]))
        /\ \A m \in DOMAIN t.nodes : Roots(t)[m] = Roots(t)[x] /\ Agree(k[s], k[m], Len(k[s])) => m = q \/ Precedes(hi, k[m], k[q])
    BY <2>1, <2>2 DEF LastBelow
  <2>4. /\ Len(k[s]) \in Nat /\ Len(k[x]) \in Nat /\ Len(k[q]) \in Nat /\ Len(k[x]) < Len(k[q]) /\ Agree(k[x], k[q], Len(k[x]))
        /\ k[q][Len(k[x]) + 1] = bit
    <3>1. Len(k[s]) \in Nat /\ Len(k[x]) \in Nat /\ Len(k[q]) \in Nat
      BY <1>2, <2>1, <2>3
    <3> QED
      BY <2>1, <2>3, <3>1, AgreeOn
  <2>5. ASSUME NEW m \in DOMAIN t.nodes, Roots(t)[m] = Roots(t)[x], Agree(k[x], k[m], Len(k[x]))
        PROVE  m = q \/ Precedes(hi, k[m], k[q])
    <3>1. CASE ~(Len(k[x]) < Len(k[m]))
      <4>1. m = x
        BY <1>5, <2>5, <3>1
      <4> QED
        BY <1>2, <2>3, <2>4, <4>1, PrecedesForm
    <3>2. CASE Len(k[x]) < Len(k[m])
      <4> DEFINE b == k[m][Len(k[x]) + 1]
      <4>1. b \in Bits /\ Child(t, x, b) # 0 /\ Agree(k[Child(t, x, b)], k[m], Len(k[Child(t, x, b)]))
        BY <1>4, <2>5, <3>2
      <4>2. CASE b = bit
        BY <1>7, <2>3, <2>5, <4>1, <4>2
      <4>3. CASE b # bit
        <5>1. bit = hi /\ b # hi
          BY <1>1, <1>7, <4>1, <4>3
        <5>2. Len(k[m]) \in Nat
          BY <1>2
        <5>3. k[m][Len(k[x]) + 1] # hi /\ k[q][Len(k[x]) + 1] = hi
          BY <2>4, <5>1
        <5> QED
          BY <2>4, <2>5, <3>2, <5>2, <5>3, PartsHere
      <4> QED
        BY <4>2, <4>3
    <3> QED
      BY <3>1, <3>2
  <2>6. f[x] = q
    BY <1>7 DEF q
  <2> HIDE DEF k
  <2> QED
    BY <2>3, <2>4, <2>5, <2>6 DEF LastBelow, k
<1>8. CASE Child(t, x, hi) # 0
  <2>1. f[x] = f[Child(t, x, hi)]
    BY <1>3, <1>8
  <2> QED
    BY <1>7, <1>8, <2>1
<1>9. CASE Child(t, x, hi) = 0 /\ Child(t, x, lo) # 0
  <2>1. f[x] = f[Child(t, x, lo)]
    BY <1>3, <1>9
  <2> QED
    BY <1>1, <1>7, <1>9, <2>1
<1> QED
  BY <1>6, <1>8, <1>9

(* To go down on one side as far as there are nodes leads to the last one. *)
LEMMA DeepestRight ==
  ASSUME NEW t, Good(t), Filed(t), NEW hi \in Bits, NEW f, Deepest(t, hi, f), NEW x \in DOMAIN t.nodes
  PROVE  LastBelow(t, hi, x, f[x])
<1> DEFINE S == {y \in DOMAIN t.nodes : LastBelow(t, hi, y, f[y])}
<1>1. \A n \in DOMAIN t.nodes : (\A m \in DOMAIN t.nodes : <<n, m>> \in Downwards(t) => m \in S) => n \in S
  BY DeepestStep
<1>2. Strict(DOMAIN t.nodes, Downwards(t))
  BY DownwardsStrict
<1> HIDE DEF S
<1>3. x \in S
  BY <1>1, <1>2, RankInduction
<1> QED
  BY <1>3 DEF S

(* What precedes a node begins the key of its parent, parts from it, or     *)
(* lies below the first child of its parent.                                *)
LEMMA PrecedesUp ==
  ASSUME NEW t, Good(t), Filed(t), NEW hi \in Bits, NEW n \in DOMAIN t.nodes, NEW p, p = t.nodes[n].parent, p # 0,
         NEW m \in DOMAIN t.nodes, Roots(t)[m] = Roots(t)[n], Precedes(hi, Keys(t)[m], Keys(t)[n])
  PROVE  \/ Agree(Keys(t)[m], Keys(t)[p], Len(Keys(t)[m]))
         \/ Parts(hi, Keys(t)[m], Keys(t)[p])
         \/ /\ Len(Keys(t)[p]) < Len(Keys(t)[m]) /\ Agree(Keys(t)[p], Keys(t)[m], Len(Keys(t)[p]))
            /\ Keys(t)[m][Len(Keys(t)[p]) + 1] # hi /\ Keys(t)[n][Len(Keys(t)[p]) + 1] = hi
<1> DEFINE a == Keys(t)[m]
<1> DEFINE b == Keys(t)[n]
<1> DEFINE k == Keys(t)[p]
<1>1. /\ p \in DOMAIN t.nodes /\ Len(a) \in Nat /\ Len(b) \in Nat /\ Len(k) \in Nat /\ Len(k) < Len(b)
      /\ \A j \in 1 .. Len(k) : b[j] = k[j]
  <2>1. p \in DOMAIN t.nodes /\ b[Len(k) + 1] \in Bits /\ n = Child(t, p, b[Len(k) + 1])
    BY ParentAbove DEF Joined
  <2>2. n # 0
    BY DEF Good, Linked, Typed
  <2>3. Len(k) < Len(b) /\ Agree(k, b, Len(k))
    BY <2>1, <2>2, ChildOf
  <2>4. Len(a) \in Nat /\ Len(b) \in Nat /\ Len(k) \in Nat
    BY <2>1, UpwardForm
  <2> QED
    BY <2>1, <2>3, <2>4 DEF Agree
<1>2. Agree(b, a, Len(k) + 1) => Agree(b, a, Len(b))
  BY Corner
<1>3. PICK i \in Nat : PartsAt(hi, a, b, i)
  BY DEF Precedes
<1> SUFFICES \/ Agree(a, k, Len(a)) \/ Parts(hi, a, k)
             \/ Len(k) < Len(a) /\ Agree(k, a, Len(k)) /\ a[Len(k) + 1] # hi /\ b[Len(k) + 1] = hi
  OBVIOUS
<1> HIDE DEF a, b, k
<1>4. /\ 0 < i /\ i <= Len(b) /\ i <= Len(a) + 1 /\ \A j \in 1 .. i - 1 : a[j] = b[j]
      /\ i <= Len(a) => a[i] # hi /\ b[i] = hi
  BY <1>3 DEF PartsAt
<1>5. CASE i = Len(a) + 1 /\ Len(a) <= Len(k)
  BY <1>1, <1>4, <1>5 DEF Agree
<1>6. CASE i = Len(a) + 1 /\ Len(k) < Len(a)
  <2>1. Agree(b, a, Len(k) + 1)
    BY <1>1, <1>4, <1>6 DEF Agree
  <2>2. Len(b) <= Len(a)
    BY <1>2, <2>1 DEF Agree
  <2> QED
    BY <1>1, <1>4, <1>6, <2>2
<1>7. CASE i <= Len(a) /\ i <= Len(k)
  <2>1. \A j \in 1 .. i : k[j] = b[j]
    BY <1>1, <1>7
  <2>2. (\A j \in 1 .. i - 1 : a[j] = k[j]) /\ a[i] # hi /\ k[i] = hi
    BY <1>4, <1>7, <2>1
  <2>3. PartsAt(hi, a, k, i)
    BY <1>4, <1>7, <2>2 DEF PartsAt
  <2> QED
    BY <1>7, <2>3 DEF Parts
<1>8. CASE i <= Len(a) /\ i = Len(k) + 1
  BY <1>1, <1>4, <1>8 DEF Agree
<1>9. CASE i <= Len(a) /\ i > Len(k) + 1
  <2>1. Agree(b, a, Len(k) + 1)
    BY <1>1, <1>4, <1>9 DEF Agree
  <2>2. b[i] = a[i]
    BY <1>1, <1>2, <1>4, <2>1 DEF Agree
  <2> QED
    BY <1>4, <1>9, <2>2
<1> QED
  BY <1>1, <1>4, <1>5, <1>6, <1>7, <1>8, <1>9

(* A step of a backward traversal: to the last node below the sibling that  *)
(* comes first, or to the parent.                                           *)
BackOf(t, hi, f, n) ==
  IF t.nodes[n].parent = 0 THEN 0
  ELSE IF Child(t, t.nodes[n].parent, 1 - hi) \notin {0, n} THEN f[Child(t, t.nodes[n].parent, 1 - hi)]
  ELSE t.nodes[n].parent

(* A step of a backward traversal goes to the nearest node before. *)
LEMMA BackOfRight ==
  ASSUME NEW t, Good(t), Filed(t), NEW hi \in Bits, NEW f, Deepest(t, hi, f), NEW n \in DOMAIN t.nodes
  PROVE  NearestBefore(t, hi, n, BackOf(t, hi, f, n))
<1> DEFINE lo == 1 - hi
<1> DEFINE k == Keys(t)
<1> DEFINE p == t.nodes[n].parent
<1> DEFINE s == Child(t, p, lo)
<1> DEFINE r == BackOf(t, hi, f, n)
<1>1. lo \in Bits /\ lo # hi /\ \A bit \in Bits : bit = lo \/ bit = hi
  BY DEF Bits
<1>2. \A m \in DOMAIN t.nodes : k[m] \in Seq(Bits) /\ Len(k[m]) \in Nat
  BY UpwardForm
<1>3. r = IF p = 0 THEN 0 ELSE IF s \notin {0, n} THEN f[s] ELSE p
  BY DEF BackOf
<1> SUFFICES NearestBefore(t, hi, n, r)
  OBVIOUS
<1> HIDE DEF lo, r
<1>4. CASE p = 0
  <2>1. Len(k[n]) = 0
    BY <1>4, ParentAbove
  <2>2. \A m \in DOMAIN t.nodes : ~Precedes(hi, k[m], k[n])
    BY <2>1 DEF Precedes, PartsAt
  <2> QED
    BY <1>3, <1>4, <2>2 DEF NearestBefore
<1> DEFINE bit == k[n][Len(k[p]) + 1]
<1>5. ASSUME p # 0
      PROVE  /\ p \in DOMAIN t.nodes /\ Roots(t)[p] = Roots(t)[n] /\ Len(k[p]) < Len(k[n]) /\ Agree(k[p], k[n], Len(k[p]))
             /\ bit \in Bits /\ n = Child(t, p, bit)
  <2>1. p \in DOMAIN t.nodes /\ bit \in Bits /\ n = Child(t, p, bit) /\ n # 0
    <3>1. p \in DOMAIN t.nodes /\ bit \in Bits /\ n = Child(t, p, bit)
      BY <1>5, ParentAbove DEF Joined
    <3>2. n # 0
      BY DEF Good, Linked, Typed
    <3> QED
      BY <3>1, <3>2
  <2> QED
    BY <2>1, ChildOf
<1>6. ASSUME p # 0, NEW m \in DOMAIN t.nodes, Roots(t)[m] = Roots(t)[n], Precedes(hi, k[m], k[n])
      PROVE  \/ Agree(k[m], k[p], Len(k[m])) \/ Parts(hi, k[m], k[p])
             \/ /\ bit = hi /\ s # 0 /\ k[s][Len(k[p]) + 1] = lo /\ Agree(k[s], k[m], Len(k[s]))
  <2>1. \/ Agree(k[m], k[p], Len(k[m])) \/ Parts(hi, k[m], k[p])
        \/ Len(k[p]) < Len(k[m]) /\ Agree(k[p], k[m], Len(k[p])) /\ k[m][Len(k[p]) + 1] # hi /\ bit = hi
    BY <1>6, PrecedesUp
  <2>2. ASSUME Len(k[p]) < Len(k[m]), Agree(k[p], k[m], Len(k[p])), k[m][Len(k[p]) + 1] # hi
        PROVE  s # 0 /\ k[s][Len(k[p]) + 1] = lo /\ Agree(k[s], k[m], Len(k[s]))
    <3> DEFINE b == k[m][Len(k[p]) + 1]
    <3>1. b \in Bits /\ Child(t, p, b) # 0 /\ Agree(k[Child(t, p, b)], k[m], Len(k[Child(t, p, b)]))
      BY <1>5, <1>6, <2>2, TowardsForm DEF Turns
    <3>2. b = lo
      BY <1>1, <2>2, <3>1
    <3>3. s # 0 /\ Agree(k[s], k[m], Len(k[s]))
      BY <3>1, <3>2
    <3> HIDE DEF s
    <3>4. k[s][Len(k[p]) + 1] = lo
      BY <1>1, <1>5, <1>6, <3>3, ChildOf DEF s
    <3> QED
      BY <3>3, <3>4
  <2> QED
    BY <2>1, <2>2
<1>7. CASE p # 0 /\ s \in {0, n}
  <2>1. r = p
    BY <1>3, <1>7
  <2>2. Precedes(hi, k[p], k[n])
    BY <1>2, <1>5, <1>7, PrecedesForm
  <2>3. ASSUME NEW m \in DOMAIN t.nodes, Roots(t)[m] = Roots(t)[n], Precedes(hi, k[m], k[n])
        PROVE  m = p \/ Precedes(hi, k[m], k[p])
    <3>1. CASE Agree(k[m], k[p], Len(k[m]))
      <4>1. CASE Len(k[m]) >= Len(k[p])
        BY <1>5, <1>7, <2>3, <3>1, <4>1, KeySettles
      <4>2. CASE Len(k[m]) < Len(k[p])
        BY <1>2, <1>5, <1>7, <3>1, <4>2, PrecedesForm
      <4> QED
        BY <1>2, <1>5, <1>7, <4>1, <4>2
    <3>2. CASE Parts(hi, k[m], k[p])
      BY <3>2 DEF Parts, Precedes
    <3>3. ASSUME bit = hi, s # 0, k[s][Len(k[p]) + 1] = lo PROVE FALSE
      BY <1>1, <1>7, <3>3
    <3> QED
      BY <1>6, <1>7, <2>3, <3>1, <3>2, <3>3
  <2> HIDE DEF k
  <2> QED
    BY <1>5, <1>7, <2>1, <2>2, <2>3 DEF NearestBefore, k
<1>8. CASE p # 0 /\ s \notin {0, n}
  <2> DEFINE q == f[s]
  <2>1. r = q
    BY <1>3, <1>8
  <2>2. bit = hi
    BY <1>1, <1>5, <1>8
  <2>3. /\ s \in DOMAIN t.nodes /\ Roots(t)[s] = Roots(t)[n] /\ Len(k[p]) < Len(k[s]) /\ k[s][Len(k[p]) + 1] = lo
        /\ Agree(k[p], k[s], Len(k[p]))
    BY <1>1, <1>5, <1>8, ChildOf
  <2>4. LastBelow(t, hi, s, q)
    BY <2>3, DeepestRight
  <2> HIDE DEF q, s
  <2>5. /\ q \in DOMAIN t.nodes /\ Roots(t)[q] = Roots(t)[n] /\ Agree(k[s], k[q], Len(k[s]))
        /\ \A m \in DOMAIN t.nodes : Roots(t)[m] = Roots(t)[n] /\ Agree(k[s], k[m], Len(k[s])) => m = q \/ Precedes(hi, k[m], k[q])
    BY <2>3, <2>4 DEF LastBelow
  <2>6. /\ Len(k[p]) \in Nat /\ Len(k[q]) \in Nat /\ Len(k[n]) \in Nat /\ Len(k[p]) < Len(k[q]) /\ Agree(k[p], k[q], Len(k[p]))
        /\ k[q][Len(k[p]) + 1] = lo
    <3>1. Len(k[s]) \in Nat /\ Len(k[p]) \in Nat /\ Len(k[q]) \in Nat /\ Len(k[n]) \in Nat
      BY <1>2, <1>5, <1>8, <2>3, <2>5
    <3> QED
      BY <2>3, <2>5, <3>1, AgreeOn
  <2>7. Precedes(hi, k[q], k[n])
    <3>1. Len(k[p]) < Len(k[n]) /\ Agree(k[p], k[n], Len(k[p]))
      BY <1>5, <1>8
    <3>2. k[q][Len(k[p]) + 1] # hi /\ k[n][Len(k[p]) + 1] = hi
      BY <1>1, <2>2, <2>6
    <3> QED
      BY <2>6, <3>1, <3>2, PartsHere
  <2>8. ASSUME NEW m \in DOMAIN t.nodes, Roots(t)[m] = Roots(t)[n], Precedes(hi, k[m], k[n])
        PROVE  m = q \/ Precedes(hi, k[m], k[q])
    <3>0. Len(k[m]) \in Nat
      BY <1>2
    <3>1. CASE Agree(k[m], k[p], Len(k[m]))
      <4>1. Len(k[m]) < Len(k[q]) /\ Agree(k[m], k[q], Len(k[m]))
        BY <2>6, <3>0, <3>1 DEF Agree
      <4> QED
        BY <1>2, <2>5, <4>1, PrecedesForm
    <3>2. CASE Parts(hi, k[m], k[p])
      <4>1. PICK i \in Nat : PartsAt(hi, k[m], k[p], i)
        BY <3>2 DEF Parts
      <4>2. PartsAt(hi, k[m], k[q], i)
        BY <2>6, <3>0, <4>1, PartsLonger
      <4> QED
        BY <4>2 DEF Precedes
    <3>3. CASE Agree(k[s], k[m], Len(k[s]))
      BY <2>5, <2>8, <3>3
    <3> QED
      BY <1>6, <1>8, <2>8, <3>1, <3>2, <3>3 DEF s
  <2>9. q # 0
    BY <2>5 DEF Good, Linked, Typed
  <2> HIDE DEF k
  <2> QED
    BY <2>1, <2>5, <2>7, <2>8, <2>9 DEF NearestBefore, k
<1> QED
  BY <1>4, <1>7, <1>8

(***************************************************************************)
(* The steps of the traversals, as the model takes them.                    *)
(***************************************************************************)
LEMMA NextNodeForm ==
  ASSUME NEW t, Good(t), Filed(t), NEW n \in DOMAIN t.nodes
  PROVE  NearestAfter(t, 1, n, NextNode(t, n))
<1> DEFINE Up(c) == c = [x \in DOMAIN t.nodes |->
                          IF t.nodes[x].parent = 0 THEN 0
                          ELSE IF t.nodes[t.nodes[x].parent].greater \notin {0, x} THEN t.nodes[t.nodes[x].parent].greater
                          ELSE c[t.nodes[x].parent]]
<1> DEFINE C == CHOOSE c : Up(c)
<1>1. \A c : Up(c) <=> Climb(t, 1, c)
  BY DEF Climb, Child
<1>2. NextNode(t, n) = IF t.nodes[n].smaller # 0 THEN t.nodes[n].smaller
                       ELSE IF t.nodes[n].greater # 0 THEN t.nodes[n].greater ELSE C[n]
  BY DEF NextNode
<1> HIDE DEF Up
<1>3. Climb(t, 1, C)
  <2>1. 1 \in Bits
    BY DEF Bits
  <2>2. \E c : Up(c)
    BY <1>1, ClimbExists
  <2>3. Up(C)
    BY <2>2
  <2> QED
    BY <1>1, <2>3
<1> HIDE DEF C
<1>4. NextNode(t, n) = NextOf(t, 1, C, n)
  BY <1>2 DEF NextOf, Child
<1>5. 1 \in Bits
  BY DEF Bits
<1> QED
  BY <1>3, <1>4, <1>5, NextOfRight

(* PrevInverse steps to the nearest node after, in the order that puts 0    *)
(* last.                                                                    *)
LEMMA PrevInverseForm ==
  ASSUME NEW t, Good(t), Filed(t), NEW n \in DOMAIN t.nodes
  PROVE  NearestAfter(t, 0, n, PrevInverse(t, n))
<1> DEFINE Up(c) == c = [x \in DOMAIN t.nodes |->
                          IF t.nodes[x].parent = 0 THEN 0
                          ELSE IF t.nodes[t.nodes[x].parent].smaller \notin {0, x} THEN t.nodes[t.nodes[x].parent].smaller
                          ELSE c[t.nodes[x].parent]]
<1> DEFINE C == CHOOSE c : Up(c)
<1>1. \A c : Up(c) <=> Climb(t, 0, c)
  BY DEF Climb, Child
<1>2. PrevInverse(t, n) = IF t.nodes[n].greater # 0 THEN t.nodes[n].greater
                          ELSE IF t.nodes[n].smaller # 0 THEN t.nodes[n].smaller ELSE C[n]
  BY DEF PrevInverse
<1> HIDE DEF Up
<1>3. Climb(t, 0, C)
  <2>2. \E c : Up(c)
    BY <1>1, ClimbExists
  <2>3. Up(C)
    BY <2>2
  <2> QED
    BY <1>1, <2>3
<1> HIDE DEF C
<1>4. PrevInverse(t, n) = NextOf(t, 0, C, n)
  BY <1>2 DEF NextOf, Child
<1>5. 0 \in Bits
  BY DEF Bits
<1> QED
  BY <1>3, <1>4, <1>5, NextOfRight

(* Rightmost leads to the last node in the order that puts 1 last. *)
LEMMA RightmostForm ==
  ASSUME NEW t, Good(t), Filed(t)
  PROVE  /\ Deepest(t, 1, [x \in DOMAIN t.nodes |-> Rightmost(t, x)])
         /\ \A x \in DOMAIN t.nodes : LastBelow(t, 1, x, Rightmost(t, x))
<1> DEFINE Down(f) == f = [x \in DOMAIN t.nodes |->
                          IF t.nodes[x].greater # 0 THEN f[t.nodes[x].greater]
                          ELSE IF t.nodes[x].smaller # 0 THEN f[t.nodes[x].smaller] ELSE x]
<1> DEFINE F == CHOOSE f : Down(f)
<1>1. \A f : Down(f) <=> Deepest(t, 1, f)
  BY DEF Deepest, Child
<1>2. \A x : Rightmost(t, x) = F[x]
  BY DEF Rightmost
<1> HIDE DEF Down
<1>3. 1 \in Bits
  BY DEF Bits
<1>4. Deepest(t, 1, F)
  <2>1. \E f : Down(f)
    BY <1>1, <1>3, DeepestExists
  <2>2. Down(F)
    BY <2>1
  <2> QED
    BY <1>1, <2>2
<1> HIDE DEF F
<1>5. F = [x \in DOMAIN t.nodes |-> Rightmost(t, x)]
  <2>1. F = [x \in DOMAIN t.nodes |-> F[x]]
    BY <1>4 DEF Deepest
  <2> QED
    BY <1>2, <2>1
<1> QED
  BY <1>2, <1>3, <1>4, <1>5, DeepestRight

(* Leftmost leads to the last node in the order that puts 0 last. *)
LEMMA LeftmostForm ==
  ASSUME NEW t, Good(t), Filed(t)
  PROVE  /\ Deepest(t, 0, [x \in DOMAIN t.nodes |-> Leftmost(t, x)])
         /\ \A x \in DOMAIN t.nodes : LastBelow(t, 0, x, Leftmost(t, x))
<1> DEFINE Down(f) == f = [x \in DOMAIN t.nodes |->
                          IF t.nodes[x].smaller # 0 THEN f[t.nodes[x].smaller]
                          ELSE IF t.nodes[x].greater # 0 THEN f[t.nodes[x].greater] ELSE x]
<1> DEFINE F == CHOOSE f : Down(f)
<1>1. \A f : Down(f) <=> Deepest(t, 0, f)
  BY DEF Deepest, Child
<1>2. \A x : Leftmost(t, x) = F[x]
  BY DEF Leftmost
<1> HIDE DEF Down
<1>3. 0 \in Bits
  BY DEF Bits
<1>4. Deepest(t, 0, F)
  <2>1. \E f : Down(f)
    BY <1>1, <1>3, DeepestExists
  <2>2. Down(F)
    BY <2>1
  <2> QED
    BY <1>1, <2>2
<1> HIDE DEF F
<1>5. F = [x \in DOMAIN t.nodes |-> Leftmost(t, x)]
  <2>1. F = [x \in DOMAIN t.nodes |-> F[x]]
    BY <1>4 DEF Deepest
  <2> QED
    BY <1>2, <2>1
<1> QED
  BY <1>2, <1>3, <1>4, <1>5, DeepestRight

(* PrevNode and NextInverse step to the nearest node before, each in its    *)
(* order.                                                                   *)
LEMMA BackForms ==
  ASSUME NEW t, Good(t), Filed(t), NEW n \in DOMAIN t.nodes
  PROVE  NearestBefore(t, 1, n, PrevNode(t, n)) /\ NearestBefore(t, 0, n, NextInverse(t, n))
<1> DEFINE p == t.nodes[n].parent
<1> DEFINE r == [x \in DOMAIN t.nodes |-> Rightmost(t, x)]
<1> DEFINE l == [x \in DOMAIN t.nodes |-> Leftmost(t, x)]
<1>1. 0 \in Bits /\ 1 \in Bits
  BY DEF Bits
<1>2. Deepest(t, 1, r) /\ Deepest(t, 0, l)
  BY RightmostForm, LeftmostForm
<1>3. ASSUME p # 0
      PROVE  /\ t.nodes[p].smaller # 0 => t.nodes[p].smaller \in DOMAIN t.nodes
             /\ t.nodes[p].greater # 0 => t.nodes[p].greater \in DOMAIN t.nodes
  BY <1>3 DEF Good, Linked, NodeLinks
<1>4. PrevNode(t, n) = BackOf(t, 1, r, n)
  BY <1>3 DEF PrevNode, BackOf, Child
<1>5. NextInverse(t, n) = BackOf(t, 0, l, n)
  BY <1>3 DEF NextInverse, BackOf, Child
<1> HIDE DEF r, l
<1> QED
  BY <1>1, <1>2, <1>4, <1>5, BackOfRight

(***************************************************************************)
(* Whole traversals of the tree.                                            *)
(***************************************************************************)
Along(t, hi) ==
  {e \in (DOMAIN t.nodes) \X (DOMAIN t.nodes) :
     Roots(t)[e[1]] = Roots(t)[e[2]] /\ Precedes(hi, Keys(t)[e[1]], Keys(t)[e[2]])}

(* The same order from the last node to the first. *)
Against(t, hi) ==
  {e \in (DOMAIN t.nodes) \X (DOMAIN t.nodes) :
     Roots(t)[e[1]] = Roots(t)[e[2]] /\ Precedes(hi, Keys(t)[e[2]], Keys(t)[e[1]])}

(* Both are strict orders of the nodes. *)
LEMMA OrdersStrict ==
  ASSUME NEW t, Good(t), Filed(t), NEW hi
  PROVE  Strict(DOMAIN t.nodes, Along(t, hi)) /\ Strict(DOMAIN t.nodes, Against(t, hi)) /\ 0 \notin DOMAIN t.nodes
<1> DEFINE k == Keys(t)
<1>1. IsFiniteSet(DOMAIN t.nodes)
  BY UpwardsStrict DEF Strict
<1>2. \A n \in DOMAIN t.nodes : Len(k[n]) \in Nat
  BY UpwardForm
<1>3. \A n \in DOMAIN t.nodes : ~Precedes(hi, k[n], k[n])
  BY <1>2, PrecedesOrder
<1>4. \A x, y, z \in DOMAIN t.nodes : Precedes(hi, k[x], k[y]) /\ Precedes(hi, k[y], k[z]) => Precedes(hi, k[x], k[z])
  BY <1>2, PrecedesOrder
<1>5. 0 \notin DOMAIN t.nodes
  BY DEF Good, Linked, Typed
<1> HIDE DEF k
<1>6. Strict(DOMAIN t.nodes, Along(t, hi))
  BY <1>1, <1>3, <1>4 DEF Strict, Along, k
<1>7. Strict(DOMAIN t.nodes, Against(t, hi))
  BY <1>1, <1>3, <1>4 DEF Strict, Against, k
<1> QED
  BY <1>5, <1>6, <1>7

(* What a walk from n is. *)
Walked(t, w, n, O) == w \in Seq(DOMAIN t.nodes) /\ Sorted(w, O) /\ Visited(w) = {n} \cup Later(DOMAIN t.nodes, O, n)

(* A walk by the nearest node after, or before, is a walk along the order.  *)
LEMMA WalkedAlong ==
  ASSUME NEW t, Good(t), Filed(t), NEW hi, NEW up, \A n \in DOMAIN t.nodes : NearestAfter(t, hi, n, up[n])
  PROVE  /\ \E f : Steps(DOMAIN t.nodes, up, f)
         /\ \A f : Steps(DOMAIN t.nodes, up, f) =>
              \A n \in DOMAIN t.nodes : Walked(t, f[n], n, Along(t, hi))
<1> DEFINE N == DOMAIN t.nodes
<1> DEFINE O == Along(t, hi)
<1>1. Strict(N, O) /\ 0 \notin N
  BY OrdersStrict
<1>2. \A n \in N, m \in N : <<n, m>> \in O <=> Roots(t)[m] = Roots(t)[n] /\ Precedes(hi, Keys(t)[n], Keys(t)[m])
  BY DEF Along
<1>3. Successor(N, O, up)
  <2> SUFFICES ASSUME NEW n \in N
               PROVE  /\ up[n] = 0 => \A m \in N : <<n, m>> \notin O
                      /\ up[n] # 0 => /\ up[n] \in N /\ <<n, up[n]>> \in O
                                      /\ \A m \in N : <<n, m>> \in O => m = up[n] \/ <<up[n], m>> \in O
    BY DEF Successor
  <2>1. NearestAfter(t, hi, n, up[n])
    OBVIOUS
  <2> HIDE DEF O
  <2> QED
    BY <1>2, <2>1 DEF NearestAfter
<1>4. \A n \in N : up[n] = 0 \/ (up[n] \in N /\ <<n, up[n]>> \in O)
  BY <1>3 DEF Successor
<1> HIDE DEF N, O
<1>5. \E f : Steps(N, up, f)
  BY <1>1, <1>4, StepsExist
<1>6. ASSUME NEW f, Steps(N, up, f)
      PROVE  \A n \in N : f[n] \in Seq(N) /\ Sorted(f[n], O) /\ Visited(f[n]) = {n} \cup Later(N, O, n)
  BY <1>1, <1>3, <1>6, WalkVisits
<1> QED
  BY <1>5, <1>6 DEF N, O, Walked

(* Steps to the nearest node before visit, once and in order, all nodes     *)
(* before.                                                                  *)
LEMMA WalkedAgainst ==
  ASSUME NEW t, Good(t), Filed(t), NEW hi, NEW up, \A n \in DOMAIN t.nodes : NearestBefore(t, hi, n, up[n])
  PROVE  /\ \E f : Steps(DOMAIN t.nodes, up, f)
         /\ \A f : Steps(DOMAIN t.nodes, up, f) =>
              \A n \in DOMAIN t.nodes : Walked(t, f[n], n, Against(t, hi))
<1> DEFINE N == DOMAIN t.nodes
<1> DEFINE O == Against(t, hi)
<1>1. Strict(N, O) /\ 0 \notin N
  BY OrdersStrict
<1>2. \A n \in N, m \in N : <<n, m>> \in O <=> Roots(t)[m] = Roots(t)[n] /\ Precedes(hi, Keys(t)[m], Keys(t)[n])
  BY DEF Against
<1>3. Successor(N, O, up)
  <2> SUFFICES ASSUME NEW n \in N
               PROVE  /\ up[n] = 0 => \A m \in N : <<n, m>> \notin O
                      /\ up[n] # 0 => /\ up[n] \in N /\ <<n, up[n]>> \in O
                                      /\ \A m \in N : <<n, m>> \in O => m = up[n] \/ <<up[n], m>> \in O
    BY DEF Successor
  <2>1. NearestBefore(t, hi, n, up[n])
    OBVIOUS
  <2> HIDE DEF O
  <2> QED
    BY <1>2, <2>1 DEF NearestBefore
<1>4. \A n \in N : up[n] = 0 \/ (up[n] \in N /\ <<n, up[n]>> \in O)
  BY <1>3 DEF Successor
<1> HIDE DEF N, O
<1>5. \E f : Steps(N, up, f)
  BY <1>1, <1>4, StepsExist
<1>6. ASSUME NEW f, Steps(N, up, f)
      PROVE  \A n \in N : f[n] \in Seq(N) /\ Sorted(f[n], O) /\ Visited(f[n]) = {n} \cup Later(N, O, n)
  BY <1>1, <1>3, <1>6, WalkVisits
<1> QED
  BY <1>5, <1>6 DEF N, O, Walked

(* The walk from a node by NextNode. *)
LEMMA WalkNextNode ==
  ASSUME Good(tree), Filed(tree), NEW n \in DOMAIN tree.nodes
  PROVE  Walked(tree, Walk(NextNode, n), n, Along(tree, 1))
<1> DEFINE N == DOMAIN tree.nodes
<1> DEFINE up == [x \in N |-> NextNode(tree, x)]
<1> DEFINE From(f) == f = [x \in N \cup {0} |-> IF x = 0 THEN <<>> ELSE <<x>> \o f[NextNode(tree, x)]]
<1> DEFINE F == CHOOSE f : From(f)
<1>1. Walk(NextNode, n) = F[n]
  BY DEF Walk
<1>2. \A x \in N : NearestAfter(tree, 1, x, up[x])
  BY NextNodeForm
<1>3. \A f : From(f) <=> Steps(N, up, f)
  BY DEF Steps
<1> HIDE DEF From, up
<1>4. \E f : Steps(N, up, f)
  BY <1>2, WalkedAlong
<1>5. From(F)
  BY <1>3, <1>4
<1>6. Steps(N, up, F)
  BY <1>3, <1>5
<1> HIDE DEF F
<1>7. \A x \in N : Walked(tree, F[x], x, Along(tree, 1))
  BY <1>2, <1>6, WalkedAlong
<1> QED
  BY <1>1, <1>7

(* The walk from a node by PrevInverse. *)
LEMMA WalkPrevInverse ==
  ASSUME Good(tree), Filed(tree), NEW n \in DOMAIN tree.nodes
  PROVE  Walked(tree, Walk(PrevInverse, n), n, Along(tree, 0))
<1> DEFINE N == DOMAIN tree.nodes
<1> DEFINE up == [x \in N |-> PrevInverse(tree, x)]
<1> DEFINE From(f) == f = [x \in N \cup {0} |-> IF x = 0 THEN <<>> ELSE <<x>> \o f[PrevInverse(tree, x)]]
<1> DEFINE F == CHOOSE f : From(f)
<1>1. Walk(PrevInverse, n) = F[n]
  BY DEF Walk
<1>2. \A x \in N : NearestAfter(tree, 0, x, up[x])
  BY PrevInverseForm
<1>3. \A f : From(f) <=> Steps(N, up, f)
  BY DEF Steps
<1> HIDE DEF From, up
<1>4. \E f : Steps(N, up, f)
  BY <1>2, WalkedAlong
<1>5. From(F)
  BY <1>3, <1>4
<1>6. Steps(N, up, F)
  BY <1>3, <1>5
<1> HIDE DEF F
<1>7. \A x \in N : Walked(tree, F[x], x, Along(tree, 0))
  BY <1>2, <1>6, WalkedAlong
<1> QED
  BY <1>1, <1>7

(* The walk from a node by PrevNode. *)
LEMMA WalkPrevNode ==
  ASSUME Good(tree), Filed(tree), NEW n \in DOMAIN tree.nodes
  PROVE  Walked(tree, Walk(PrevNode, n), n, Against(tree, 1))
<1> DEFINE N == DOMAIN tree.nodes
<1> DEFINE up == [x \in N |-> PrevNode(tree, x)]
<1> DEFINE From(f) == f = [x \in N \cup {0} |-> IF x = 0 THEN <<>> ELSE <<x>> \o f[PrevNode(tree, x)]]
<1> DEFINE F == CHOOSE f : From(f)
<1>1. Walk(PrevNode, n) = F[n]
  BY DEF Walk
<1>2. \A x \in N : NearestBefore(tree, 1, x, up[x])
  BY BackForms
<1>3. \A f : From(f) <=> Steps(N, up, f)
  BY DEF Steps
<1> HIDE DEF From, up
<1>4. \E f : Steps(N, up, f)
  BY <1>2, WalkedAgainst
<1>5. From(F)
  BY <1>3, <1>4
<1>6. Steps(N, up, F)
  BY <1>3, <1>5
<1> HIDE DEF F
<1>7. \A x \in N : Walked(tree, F[x], x, Against(tree, 1))
  BY <1>2, <1>6, WalkedAgainst
<1> QED
  BY <1>1, <1>7

(* The walk from a node by NextInverse. *)
LEMMA WalkNextInverse ==
  ASSUME Good(tree), Filed(tree), NEW n \in DOMAIN tree.nodes
  PROVE  Walked(tree, Walk(NextInverse, n), n, Against(tree, 0))
<1> DEFINE N == DOMAIN tree.nodes
<1> DEFINE up == [x \in N |-> NextInverse(tree, x)]
<1> DEFINE From(f) == f = [x \in N \cup {0} |-> IF x = 0 THEN <<>> ELSE <<x>> \o f[NextInverse(tree, x)]]
<1> DEFINE F == CHOOSE f : From(f)
<1>1. Walk(NextInverse, n) = F[n]
  BY DEF Walk
<1>2. \A x \in N : NearestBefore(tree, 0, x, up[x])
  BY BackForms
<1>3. \A f : From(f) <=> Steps(N, up, f)
  BY DEF Steps
<1> HIDE DEF From, up
<1>4. \E f : Steps(N, up, f)
  BY <1>2, WalkedAgainst
<1>5. From(F)
  BY <1>3, <1>4
<1>6. Steps(N, up, F)
  BY <1>3, <1>5
<1> HIDE DEF F
<1>7. \A x \in N : Walked(tree, F[x], x, Against(tree, 0))
  BY <1>2, <1>6, WalkedAgainst
<1> QED
  BY <1>1, <1>7

(* The four traversals visit each node of a dictionary once, in the order   *)
(* of the keys or against it.                                               *)
LEMMA TreeTraversed ==
  ASSUME Good(tree), Filed(tree)
  PROVE  TraversalsVisitOnce
<1> DEFINE N == DOMAIN tree.nodes
<1> DEFINE k == Keys(tree)
<1> SUFFICES ASSUME NEW d \in Dictionaries(tree)
    PROVE  LET mine == {n \in N : TreeRoot(tree, n) = d}
               pre == Walk(NextNode, d)
               post == Walk(NextInverse, Leftmost(tree, d))
           IN  /\ ToSet(pre) = mine /\ ToSet(post) = mine
               /\ \A i, j \in DOMAIN pre : i < j => KeyBefore(KeyOf(tree, pre[i]), KeyOf(tree, pre[j]))
               /\ \A i, j \in DOMAIN post : i < j => KeyBeforeInverse(KeyOf(tree, post[i]), KeyOf(tree, post[j]))
               /\ Walk(PrevNode, Rightmost(tree, d)) = Reverse(pre)
               /\ Walk(PrevInverse, d) = Reverse(post)
  BY DEF TraversalsVisitOnce
<1> DEFINE mine == {n \in N : TreeRoot(tree, n) = d}
<1> DEFINE pre == Walk(NextNode, d)
<1> DEFINE post == Walk(NextInverse, Leftmost(tree, d))
<1> DEFINE erp == Walk(PrevNode, Rightmost(tree, d))
<1> DEFINE tsop == Walk(PrevInverse, d)
<1>1. d \in N /\ tree.nodes[d].parent = 0
  BY FiledRoot
<1>2. \A n \in N : k[n] \in Seq(Bits) /\ Len(k[n]) \in Nat /\ k[n] = KeyOf(tree, n) /\ Roots(tree)[n] = TreeRoot(tree, n)
  BY UpwardForm DEF Keys, Roots
<1>3. k[d] = <<>> /\ Roots(tree)[d] = d
  BY <1>1, UpwardForm
<1>4. mine = {n \in N : Roots(tree)[n] = d}
  BY <1>2
<1> HIDE DEF mine
<1>5. \A n \in mine : n = d \/ Precedes(1, k[d], k[n])
  <2> SUFFICES ASSUME NEW n \in mine PROVE n = d \/ Precedes(1, k[d], k[n])
    OBVIOUS
  <2>1. Agree(k[d], k[n], Len(k[d]))
    BY <1>2, <1>3, <1>4 DEF Agree
  <2> QED
    BY <1>1, <1>3, <1>4, <2>1, AgreeFollows
<1>6. \A n \in mine : n = d \/ Precedes(0, k[d], k[n])
  <2> SUFFICES ASSUME NEW n \in mine PROVE n = d \/ Precedes(0, k[d], k[n])
    OBVIOUS
  <2>1. Agree(k[d], k[n], Len(k[d]))
    BY <1>2, <1>3, <1>4 DEF Agree
  <2> QED
    BY <1>1, <1>3, <1>4, <2>1, AgreeFollows
<1>7. \A n \in mine : Agree(k[d], k[n], Len(k[d]))
  BY <1>2, <1>3, <1>4 DEF Agree
<1> DEFINE right == Rightmost(tree, d)
<1> DEFINE left == Leftmost(tree, d)
<1>8. right \in mine /\ \A n \in mine : n = right \/ Precedes(1, k[n], k[right])
  <2>1. LastBelow(tree, 1, d, right)
    BY <1>1, RightmostForm
  <2> HIDE DEF right
  <2> QED
    BY <1>3, <1>4, <1>7, <2>1 DEF LastBelow
<1>9. left \in mine /\ \A n \in mine : n = left \/ Precedes(0, k[n], k[left])
  <2>1. LastBelow(tree, 0, d, left)
    BY <1>1, LeftmostForm
  <2> HIDE DEF left
  <2> QED
    BY <1>3, <1>4, <1>7, <2>1 DEF LastBelow
<1>10. d \in mine
  BY <1>1, <1>3, <1>4
<1> HIDE DEF right, left
<1>11. /\ Walked(tree, pre, d, Along(tree, 1)) /\ Walked(tree, tsop, d, Along(tree, 0))
       /\ Walked(tree, erp, right, Against(tree, 1)) /\ Walked(tree, post, left, Against(tree, 0))
  BY <1>1, <1>4, <1>8, <1>9, WalkNextNode, WalkPrevInverse, WalkPrevNode, WalkNextInverse DEF right, left
<1> HIDE DEF pre, post, erp, tsop
<1>12. ASSUME NEW hi, NEW x \in mine, \A n \in mine : n = x \/ Precedes(hi, k[x], k[n])
       PROVE  {x} \cup Later(N, Along(tree, hi), x) = mine
  BY <1>4, <1>12 DEF Later, Along
<1>13. ASSUME NEW hi, NEW x \in mine, \A n \in mine : n = x \/ Precedes(hi, k[n], k[x])
       PROVE  {x} \cup Later(N, Against(tree, hi), x) = mine
  BY <1>4, <1>13 DEF Later, Against
<1>14. /\ pre \in Seq(N) /\ Sorted(pre, Along(tree, 1)) /\ Visited(pre) = mine
       /\ tsop \in Seq(N) /\ Sorted(tsop, Along(tree, 0)) /\ Visited(tsop) = mine
  BY <1>5, <1>6, <1>10, <1>11, <1>12 DEF Walked
<1>15. /\ erp \in Seq(N) /\ Sorted(erp, Against(tree, 1)) /\ Visited(erp) = mine
       /\ post \in Seq(N) /\ Sorted(post, Against(tree, 0)) /\ Visited(post) = mine
  BY <1>8, <1>9, <1>11, <1>13 DEF Walked
<1>16. ToSet(pre) = mine /\ ToSet(post) = mine
  <2>1. \A w \in Seq(N) : ToSet(w) = Visited(w)
    BY DEF ToSet, Visited
  <2> QED
    BY <1>14, <1>15, <2>1
<1>17. ASSUME NEW i \in DOMAIN pre, NEW j \in DOMAIN pre, i < j PROVE KeyBefore(KeyOf(tree, pre[i]), KeyOf(tree, pre[j]))
  <2>1. pre[i] \in N /\ pre[j] \in N /\ <<pre[i], pre[j]>> \in Along(tree, 1)
    BY <1>14, <1>17 DEF Sorted
  <2>2. Precedes(1, k[pre[i]], k[pre[j]])
    BY <2>1 DEF Along
  <2> QED
    BY <1>2, <2>1, <2>2, KeyBeforeForm
<1>18. ASSUME NEW i \in DOMAIN post, NEW j \in DOMAIN post, i < j PROVE KeyBeforeInverse(KeyOf(tree, post[i]), KeyOf(tree, post[j]))
  <2>1. post[i] \in N /\ post[j] \in N /\ <<post[i], post[j]>> \in Against(tree, 0)
    BY <1>15, <1>18 DEF Sorted
  <2>2. Precedes(0, k[post[j]], k[post[i]])
    BY <2>1 DEF Against
  <2> QED
    BY <1>2, <2>1, <2>2, KeyBeforeForm
<1>19. erp = Reverse(pre)
  <2>1. \A x, y \in N : <<x, y>> \in Along(tree, 1) => <<y, x>> \in Against(tree, 1)
    BY DEF Along, Against
  <2>2. Reverse(pre) \in Seq(N) /\ Sorted(Reverse(pre), Against(tree, 1)) /\ Visited(Reverse(pre)) = mine
    BY <1>14, <2>1, ReverseSorted
  <2>3. Strict(N, Against(tree, 1))
    BY OrdersStrict
  <2> QED
    BY <1>15, <2>2, <2>3, SortedOnce
<1>20. tsop = Reverse(post)
  <2>1. \A x, y \in N : <<x, y>> \in Against(tree, 0) => <<y, x>> \in Along(tree, 0)
    BY DEF Along, Against
  <2>2. Reverse(post) \in Seq(N) /\ Sorted(Reverse(post), Along(tree, 0)) /\ Visited(Reverse(post)) = mine
    BY <1>15, <2>1, ReverseSorted
  <2>3. Strict(N, Along(tree, 0))
    BY OrdersStrict
  <2> QED
    BY <1>14, <2>2, <2>3, SortedOnce
<1> QED
  BY <1>16, <1>17, <1>18, <1>19, <1>20 DEF mine, pre, post, erp, tsop, right, left

(***************************************************************************)
(* What holds of the tree at all times.                                     *)
(***************************************************************************)
(* The keys of the phrases stay keys of the program. *)
LEMMA KeysInvariant == Spec => [](IInv /\ FInv /\ KInv)
<1>1. Init => FInv /\ KInv
  <2> SUFFICES ASSUME Init PROVE FInv /\ KInv
    OBVIOUS
  <2>1. FInv /\ PhrasesOf(tree) = <<>>
    BY InitTold DEF Log!Init
  <2> QED
    BY <2>1 DEF KInv
<1>2. IInv /\ FInv /\ KInv /\ [Next]_vars => FInv' /\ KInv'
  BY StepTold, KeysKept
<1> QED
  BY <1>1, <1>2, TreeStaysSound, PTL DEF Spec

(* What is asked of a tree by a key or by the text that is read is answered *)
(* as a search of the list of phrases would answer it, and the parser is    *)
(* told to read on as long as, and only if, something begins with all it    *)
(* has read (Node.cpp 146-290).                                             *)
THEOREM ReadingIsRight == Spec => [](MatchesAgree /\ MoreIsRight)
<1>1. IInv /\ FInv /\ KInv => MatchesAgree /\ MoreIsRight
  BY TreeMatchesAgree, TreeMoreIsRight DEF IInv, Sound, FInv
<1> QED
  BY <1>1, KeysInvariant, PTL

(* However a program asks, by a key, by the text it reads or by walking     *)
(* through a dictionary, it is told of the phrases of the list; no          *)
(* reference leads nowhere and no content overlays a record or another      *)
(* content (Node.cpp 146-420).                                              *)
THEOREM TreeIsAlwaysSound == Spec => []TreeIsSound
<1>1. IInv /\ FInv => TraversalsVisitOnce
  BY TreeTraversed DEF IInv, Sound, FInv
<1> QED
  BY <1>1, KeysInvariant, ReadingIsRight, NothingDangles, PTL DEF TreeIsSound
=============================================================================
