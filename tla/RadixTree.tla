----------------------------- MODULE RadixTree -----------------------------
(***************************************************************************)
(* The radix tree that stores the lexicon (src/source/radix), with the     *)
(* definition of phrases and the rollback of scopes on top of it           *)
(* (src/source/lexicon, src/include/recurloop/LexiconTransaction.hpp).     *)
(*                                                                         *)
(* Memory is one growing region: an address is a position in it, a         *)
(* checkpoint is the address where it ended, and rolling back means        *)
(* unlinking, newest first, whatever lies above.  A leaf owns its key      *)
(* bits (a cell of `keys`); the node that splits an edge borrows the front *)
(* of its child's bits.  A node, the key of a leaf, an item, its metadata  *)
(* and each extension of its payload take one cell.  Address 0 is the      *)
(* header of the region and stands for a null reference.                   *)
(***************************************************************************)
EXTENDS Naturals, Sequences, SequencesExt, FiniteSets

CONSTANTS Probes,     \* the bit strings the parser matches
          Programs    \* what is defined, and in how large a region

Bits == {0, 1}

(* keys: the keys phrases are defined under; kinds: whether they have a    *)
(* dictionary of their own, and may not be shadowed; memory: the size of   *)
(* the region in cells; scopes: bound, how many scopes are open at once.   *)
ASSUME ProgramsAssumption ==
  \A p \in Programs :
    /\ p.keys \subseteq Seq(Bits)
    /\ p.kinds \subseteq [owner : BOOLEAN, permanent : BOOLEAN]
    /\ p.memory \in Nat /\ p.memory >= 2 /\ p.scopes \in Nat
ASSUME ProbesAssumption == Probes \subseteq Seq(Bits)

VARIABLES program, \* chosen once
          tree,   \* [nodes, items, keys, end, lastNode, lastItem]: the used part of the region
          marks   \* the addresses of the open scopes' checkpoints, outermost first

vars == <<program, tree, marks>>

Root == 1

Embedded == [parent |-> 0, smaller |-> 0, greater |-> 0, item |-> 0, earlier |-> 0, cell |-> 0, fore |-> 0, rear |-> 0]

Init ==
  /\ program \in Programs
  /\ tree = [nodes |-> [n \in {Root} |-> Embedded], items |-> <<>>, keys |-> [c \in {0} |-> <<>>],
             end |-> 2, lastNode |-> Root, lastItem |-> 0]
  /\ marks = <<>>

-----------------------------------------------------------------------------
(* Reading the tree *)

Rest(key, k) == SubSeq(key, k + 1, Len(key))

(* The bits on the edge that leads to node n. *)
Edge(t, n) == LET x == t.nodes[n] IN SubSeq(t.keys[x.cell], x.fore + 1, x.rear)

Child(t, n, bit) == IF bit = 1 THEN t.nodes[n].greater ELSE t.nodes[n].smaller

Children(t, n) == {t.nodes[n].smaller, t.nodes[n].greater} \ {0}

(* The nodes an exact descent along key visits, each with the bits it has  *)
(* matched: an edge is entered only if the key continues with all of it.   *)
Descent(t, root, key) ==
  LET down[v \in (DOMAIN t.nodes) \X (0..Len(key))] ==
        LET rest == Rest(key, v[2])
            c == IF rest = <<>> THEN 0 ELSE Child(t, v[1], Head(rest))
        IN  IF c = 0 \/ ~IsPrefix(Edge(t, c), rest) THEN <<v>>
            ELSE <<v>> \o down[<<c, v[2] + Len(Edge(t, c))>>]
  IN  down[<<root, 0>>]

(* Whether a longer text could reach a deeper node than n. *)
More(t, n, rest) ==
  IF rest = <<>> THEN Children(t, n) # {}
  ELSE LET c == Child(t, n, Head(rest)) IN c # 0 /\ IsStrictPrefix(rest, Edge(t, c))

Populated(t, n) == t.nodes[n].item # 0

NoMatch(more) == [node |-> 0, bits |-> 0, more |-> more]
Matched(v, more) == [node |-> v[1], bits |-> v[2], more |-> more]

MoreAt(t, last, key) == More(t, last[1], Rest(key, last[2]))
Stop(t, root, key) == MoreAt(t, Last(Descent(t, root, key)), key)

(* The language matches phrases, so its filter refuses a node without one: *)
(* the places on a path of nodes that the filter accepts.                  *)
Candidates(t, path) == {i \in DOMAIN path : Populated(t, path[i][1])}

(* Fault: the first match is the deepest one. *)
MatchFirstFault(t, root, key) ==
  LET path == Descent(t, root, key)
      found == Candidates(t, path)
  IN  IF found = {} THEN NoMatch(Stop(t, root, key)) ELSE Matched(path[Max(found)], FALSE)

MatchFirst(t, root, key) ==
  LET path == Descent(t, root, key)
      found == Candidates(t, path)
  IN  IF found = {} THEN NoMatch(Stop(t, root, key)) ELSE Matched(path[Min(found)], FALSE)

MatchLongest(t, root, key) ==
  LET path == Descent(t, root, key)
      found == Candidates(t, path)
  IN  IF found = {} THEN NoMatch(Stop(t, root, key)) ELSE Matched(path[Max(found)], Stop(t, root, key))

Whole(match, key) == match.node # 0 /\ match.bits = Len(key)
MatchExact(t, root, key) ==
  IF Whole(MatchLongest(t, root, key), key) THEN [MatchLongest(t, root, key) EXCEPT !.more = FALSE]
  ELSE NoMatch(Stop(t, root, key))

-----------------------------------------------------------------------------
(* Traversals: preorder and, "inverse", postorder *)

Rightmost(t, n) ==
  LET f[x \in DOMAIN t.nodes] ==
        IF t.nodes[x].greater # 0 THEN f[t.nodes[x].greater]
        ELSE IF t.nodes[x].smaller # 0 THEN f[t.nodes[x].smaller] ELSE x
  IN  f[n]

Leftmost(t, n) ==
  LET f[x \in DOMAIN t.nodes] ==
        IF t.nodes[x].smaller # 0 THEN f[t.nodes[x].smaller]
        ELSE IF t.nodes[x].greater # 0 THEN f[t.nodes[x].greater] ELSE x
  IN  f[n]

NextNode(t, n) ==
  LET climb[x \in DOMAIN t.nodes] ==
        LET p == t.nodes[x].parent
        IN  IF p = 0 THEN 0 ELSE IF t.nodes[p].greater \notin {0, x} THEN t.nodes[p].greater ELSE climb[p]
  IN  IF t.nodes[n].smaller # 0 THEN t.nodes[n].smaller
      ELSE IF t.nodes[n].greater # 0 THEN t.nodes[n].greater ELSE climb[n]

PrevNode(t, n) ==
  LET p == t.nodes[n].parent
  IN  IF p = 0 THEN 0 ELSE IF t.nodes[p].smaller \notin {0, n} THEN Rightmost(t, t.nodes[p].smaller) ELSE p

NextInverse(t, n) ==
  LET p == t.nodes[n].parent
  IN  IF p = 0 THEN 0 ELSE IF t.nodes[p].greater \notin {0, n} THEN Leftmost(t, t.nodes[p].greater) ELSE p

PrevInverse(t, n) ==
  LET climb[x \in DOMAIN t.nodes] ==
        LET p == t.nodes[x].parent
        IN  IF p = 0 THEN 0 ELSE IF t.nodes[p].smaller \notin {0, x} THEN t.nodes[p].smaller ELSE climb[p]
  IN  IF t.nodes[n].greater # 0 THEN t.nodes[n].greater
      ELSE IF t.nodes[n].smaller # 0 THEN t.nodes[n].smaller ELSE climb[n]

(* The whole key of a node, gathered upwards (keyBits and keyCopy). *)
KeyOf(t, n) ==
  LET up[x \in DOMAIN t.nodes] ==
        IF t.nodes[x].parent = 0 THEN Edge(t, x) ELSE up[t.nodes[x].parent] \o Edge(t, x)
  IN  up[n]

TreeRoot(t, n) ==
  LET up[x \in DOMAIN t.nodes] == IF t.nodes[x].parent = 0 THEN x ELSE up[t.nodes[x].parent]
  IN  up[n]

-----------------------------------------------------------------------------
(* Writing to the tree: each returns the tree and the address of the       *)
(* result, 0 when memory ran out                                           *)

Result(t, a) == [tree |-> t, at |-> a]

(* Records with one more, x at address a. *)
Put(records, a, x) == [b \in DOMAIN records \cup {a} |-> IF b = a THEN x ELSE records[b]]

SetChild(t, n, bit, c) ==
  IF bit = 1 THEN [t EXCEPT !.nodes[n].greater = c] ELSE [t EXCEPT !.nodes[n].smaller = c]

NewLeaf(t, n, rest) ==
  LET a == t.end
      leaf == [Embedded EXCEPT !.parent = n, !.earlier = t.lastNode, !.cell = a + 1, !.rear = Len(rest)]
  IN  IF a + 2 > program.memory THEN Result(t, 0)
      ELSE Result(SetChild([t EXCEPT !.nodes = Put(@, a, leaf), !.keys = Put(@, a + 1, rest),
                                     !.end = a + 2, !.lastNode = a], n, Head(rest), a), a)

(* The edge to child c is cut after its first `matched` bits. *)
SplitEdge(t, n, c, matched) ==
  LET a == t.end
      x == t.nodes[c]
      bit == Edge(t, c)[matched + 1]
      front == [x EXCEPT !.smaller = IF bit = 1 THEN 0 ELSE c, !.greater = IF bit = 1 THEN c ELSE 0,
                         !.item = 0, !.earlier = t.lastNode, !.rear = x.fore + matched]
  IN  IF a + 1 > program.memory THEN Result(t, 0)
      ELSE Result(SetChild([t EXCEPT !.nodes = Put([@ EXCEPT ![c].parent = a, ![c].fore = x.fore + matched], a, front),
                                     !.end = a + 1, !.lastNode = a], n, Head(Edge(t, c)), a), a)

(* The rest of a key is added behind the part of the edge it shares. *)
AppendSplit(split, matched, rest) ==
  IF split.at = 0 \/ matched = Len(rest) THEN split ELSE NewLeaf(split.tree, split.at, Rest(rest, matched))
AppendBeside(t, n, c, matched, rest) == AppendSplit(SplitEdge(t, n, c, matched), matched, rest)
AppendTo(t, n, c, rest) ==
  IF c = 0 THEN NewLeaf(t, n, rest) ELSE AppendBeside(t, n, c, Len(LongestCommonPrefix({rest, Edge(t, c)})), rest)
AppendRest(t, n, rest) == IF rest = <<>> THEN Result(t, n) ELSE AppendTo(t, n, Child(t, n, Head(rest)), rest)
AppendFrom(t, last, key) == AppendRest(t, last[1], Rest(key, last[2]))

AppendKey(t, root, key) ==
  AppendFrom(t, Last(Descent(t, root, key)), key)

PushItem(t, n) ==
  LET a == t.end
      prev == t.nodes[n].item
      item == [node |-> n, prev |-> prev, next |-> 0, earlier |-> t.lastItem,
               bytes |-> 0, owner |-> FALSE, permanent |-> FALSE]
      linked == IF prev = 0 THEN t.items ELSE [t.items EXCEPT ![prev].next = a]
  IN  IF a + 1 > program.memory THEN Result(t, 0)
      ELSE Result([t EXCEPT !.items = Put(linked, a, item), !.nodes[n].item = a,
                            !.end = a + 1, !.lastItem = a], a)

(* Content is added to an item at the end of the region, and only if no    *)
(* item was made after it.                                                 *)
AllocateContent(t, i) ==
  IF t.lastItem # i \/ t.end + 1 > program.memory THEN Result(t, 0)
  ELSE Result([t EXCEPT !.items[i].bytes = @ + 1, !.end = @ + 1], t.end)

-----------------------------------------------------------------------------
(* Rolling back to a checkpoint *)

(* Fault: the older item of the node still points to the dropped one. *)
DropItemFault(t, i) ==
  LET x == t.items[i] IN [t EXCEPT !.nodes[x.node].item = x.prev, !.lastItem = x.earlier]

DropItem(t, i) ==
  LET x == t.items[i]
      unlinked == [t EXCEPT !.nodes[x.node].item = x.prev, !.lastItem = x.earlier]
  IN  IF x.prev = 0 THEN unlinked ELSE [unlinked EXCEPT !.items[x.prev].next = 0]

(* Fault: the joined edge does not get its front back. *)
DropNodeFault(t, n) ==
  LET x == t.nodes[n]
      c == IF x.smaller # 0 THEN x.smaller ELSE x.greater
      bit == Head(Edge(t, n))
      last == [t EXCEPT !.lastNode = x.earlier]
  IN  IF c # 0 THEN SetChild([last EXCEPT !.nodes[c].parent = x.parent], x.parent, bit, c)
      ELSE IF x.parent # 0 THEN SetChild(last, x.parent, bit, 0)
      ELSE last

(* A node with a child had split the edge to it; a node without was a leaf. *)
DropNode(t, n) ==
  LET x == t.nodes[n]
      c == IF x.smaller # 0 THEN x.smaller ELSE x.greater
      bit == Head(Edge(t, n))
      last == [t EXCEPT !.lastNode = x.earlier]
  IN  IF c # 0 THEN SetChild([last EXCEPT !.nodes[c].parent = x.parent, !.nodes[c].fore = x.fore], x.parent, bit, c)
      ELSE IF x.parent # 0 THEN SetChild(last, x.parent, bit, 0)
      ELSE last

Below(records, addr) == [a \in {b \in DOMAIN records : b < addr} |-> records[a]]

(* The loops of a restore: from the end of the region down, what is the    *)
(* newest record when its address is reached is dropped.                   *)
UnlinkItem(t, a) == IF t.lastItem = a THEN DropItem(t, a) ELSE t
DropItems(t, addr) ==
  LET undone[a \in 0..t.end] == IF a = t.end THEN t ELSE UnlinkItem(undone[a + 1], a)
  IN  undone[addr]

UnlinkNode(t, a) == IF t.lastNode = a THEN DropNode(t, a) ELSE t
DropNodes(t, addr) ==
  LET undone[a \in 0..t.end] == IF a = t.end THEN t ELSE UnlinkNode(undone[a + 1], a)
  IN  undone[addr]

Restore(t, addr) ==
  [DropNodes(DropItems(t, addr), addr) EXCEPT
     !.nodes = Below(@, addr), !.items = Below(@, addr), !.keys = Below(@, addr), !.end = addr]

-----------------------------------------------------------------------------
(* Phrases *)

Dictionaries(t) == {Root} \cup {i + 1 : i \in {j \in DOMAIN t.items : t.items[j].owner}}

(* Fault: a permanent phrase can be shadowed. *)
MayDefineFault(t, n) == TRUE

MayDefine(t, n) == t.nodes[n].item # 0 => ~t.items[t.nodes[n].item].permanent

(* Draft::save: the item, then one cell of metadata, which holds the root  *)
(* node of the phrase's own dictionary if it has one.                      *)
SaveMetadata(pushed, saved, kind) ==
  IF pushed.at = 0 \/ saved.at = 0 THEN Result(pushed.tree, 0)
  ELSE Result([saved.tree EXCEPT !.items[pushed.at].owner = kind.owner,
                                 !.items[pushed.at].permanent = kind.permanent,
                                 !.nodes = IF kind.owner THEN Put(@, pushed.at + 1, Embedded) ELSE @], pushed.at)
SaveItem(pushed, kind) == SaveMetadata(pushed, AllocateContent(pushed.tree, pushed.at), kind)
SavePhrase(t, n, kind) == SaveItem(PushItem(t, n), kind)

(* The tree an attempted definition leaves, before it is committed. *)
AttemptAt(node, kind) ==
  IF node.at = 0 \/ ~MayDefine(node.tree, node.at) THEN Result(node.tree, 0)
  ELSE SavePhrase(node.tree, node.at, kind)
Attempt(t, d, k, kind) == AttemptAt(AppendKey(t, d, k), kind)

(* context:phrase:define: a definition that fails is rolled back. *)
DefinePhrase(d, k, kind) ==
  /\ \E made \in {Attempt(tree, d, k, kind)} :
       tree' = IF made.at # 0 THEN made.tree ELSE Restore(made.tree, tree.end)
  /\ UNCHANGED <<program, marks>>

(* context:phrase:data *)
ExtendPhrase ==
  /\ tree.lastItem # 0
  /\ tree' = AllocateContent(tree, tree.lastItem).tree
  /\ UNCHANGED <<program, marks>>

Plain == [owner |-> FALSE, permanent |-> FALSE]

(* A scope remembers where memory ended, then defines the phrase that      *)
(* closes it.  If that fails the request fails, and its own copy of the    *)
(* region is put back.                                                     *)
OpenScope(d, k) ==
  /\ Len(marks) < program.scopes
  /\ \E made \in {Attempt(tree, d, k, Plain)} : made.at # 0 /\ tree' = made.tree
  /\ marks' = Append(marks, tree.end)
  /\ UNCHANGED program

(* The closing phrase of any open scope may be the one that matches. *)
RollbackScope(i) ==
  /\ tree' = Restore(tree, marks[i])
  /\ marks' = SubSeq(marks, 1, i - 1)
  /\ UNCHANGED program

CommitScope(i) ==
  /\ marks' = SubSeq(marks, 1, i - 1)
  /\ UNCHANGED <<program, tree>>

Next ==
  \/ \E d \in Dictionaries(tree), k \in program.keys, kind \in program.kinds : DefinePhrase(d, k, kind)
  \/ ExtendPhrase
  \/ \E d \in Dictionaries(tree), k \in program.keys : OpenScope(d, k)
  \/ \E i \in DOMAIN marks : RollbackScope(i) \/ CommitScope(i)

Spec == Init /\ [][Next]_vars
-----------------------------------------------------------------------------
(* The phrases of the tree, oldest first, as the language sees them *)

Position(t, i) == Cardinality({j \in DOMAIN t.items : j <= i})

DictionaryOf(t, root) == IF root = Root THEN 0 ELSE Position(t, root - 1)

(* A chain of earlier links, newest first. *)
Chain(records, last) ==
  LET back[a \in DOMAIN records \cup {0}] == IF a = 0 THEN <<>> ELSE <<a>> \o back[records[a].earlier]
  IN  back[last]

PhraseOf(t, x) ==
  [dict |-> DictionaryOf(t, TreeRoot(t, x.node)), key |-> KeyOf(t, x.node),
   owner |-> x.owner, permanent |-> x.permanent, payload |-> x.bytes - 1]
PhrasesIn(t, order) == [p \in DOMAIN order |-> PhraseOf(t, t.items[order[p]])]
PhrasesOf(t) == PhrasesIn(t, Reverse(Chain(t.items, t.lastItem)))

MarksOf == [i \in DOMAIN marks |-> Cardinality({a \in DOMAIN tree.items : a < marks[i]})]

Log == INSTANCE PhraseLog WITH log <- PhrasesOf(tree), marks <- MarksOf,
         Keys <- UNION {p.keys : p \in Programs}, Kinds <- (UNION {p.kinds : p \in Programs}) \cup {Plain}

(* The radix tree is one way to keep the log of phrases: whatever edges    *)
(* are split, shared and joined again, every definition adds one phrase,   *)
(* a failed one none, and a rollback leaves exactly the older ones.        *)
LogRefinement == Log!LogSpec

-----------------------------------------------------------------------------
(* Properties *)

Addresses(t) == 0..(t.end - 1)

(* Every reference of the tree leads to a record in the used part of the   *)
(* region, and a node is the child of its parent.                          *)
ReferencesLead ==
  /\ tree.end \in 2..program.memory
  /\ marks \in Seq(2..tree.end)
  /\ DOMAIN tree.nodes \cup DOMAIN tree.items \cup DOMAIN tree.keys \subseteq Addresses(tree)
  /\ \A n \in DOMAIN tree.nodes :
       LET x == tree.nodes[n]
       IN  /\ {x.parent, x.smaller, x.greater, x.earlier} \subseteq DOMAIN tree.nodes \cup {0}
           /\ x.item \in DOMAIN tree.items \cup {0}
           /\ x.cell \in DOMAIN tree.keys /\ 0 <= x.fore /\ x.fore <= x.rear /\ x.rear <= Len(tree.keys[x.cell])
           /\ \A c \in Children(tree, n) : tree.nodes[c].parent = n
  /\ \A i \in DOMAIN tree.items :
       LET x == tree.items[i]
       IN  x.node \in DOMAIN tree.nodes /\ {x.prev, x.next, x.earlier} \subseteq DOMAIN tree.items \cup {0}

Newest(phrases, d, k) == Log!NewestIn(phrases, DictionaryOf(tree, d), k)
PopulatedKeys(phrases, d) == {k \in program.keys : Newest(phrases, d, k) # 0}

FoundItem(match) == IF match.node = 0 THEN 0 ELSE Position(tree, tree.nodes[match.node].item)

(* The three matching modes answer what a search of the list of phrases    *)
(* would: the newest phrase of exactly this key, of the shortest and of    *)
(* the longest key the text starts with.                                   *)
MatchesAgree ==
  \A phrases \in {PhrasesOf(tree)} : \A d \in Dictionaries(tree), p \in Probes :
    \A starts \in {{k \in PopulatedKeys(phrases, d) : IsPrefix(k, p)}},
       first \in {MatchFirst(tree, d, p)}, longest \in {MatchLongest(tree, d, p)} :
      /\ FoundItem(MatchExact(tree, d, p)) = Newest(phrases, d, p)
      /\ first.node = 0 <=> starts = {}
      /\ longest.node = 0 <=> starts = {}
      /\ \A k \in starts : first.bits <= Len(k) /\ Len(k) <= longest.bits
      /\ \A match \in {first, longest} :
           match.node # 0 => FoundItem(match) = Newest(phrases, d, SubSeq(p, 1, match.bits))

(* The parser asks for more input when the longest match wants it: it is   *)
(* never told to stop while a phrase begins with all that was read, and is *)
(* told to go on only if some key does.                                    *)
MoreIsRight ==
  \A phrases \in {PhrasesOf(tree)} : \A d \in Dictionaries(tree), p \in Probes :
    \A more \in {MatchLongest(tree, d, p).more} :
        /\ (\E k \in PopulatedKeys(phrases, d) : IsStrictPrefix(p, k)) => more
        /\ more => \E n \in DOMAIN tree.nodes : TreeRoot(tree, n) = d /\ IsStrictPrefix(p, KeyOf(tree, n))

(* Walking with Step from first until it yields 0. *)
Walk(Step(_, _), first) ==
  LET from[n \in DOMAIN tree.nodes \cup {0}] == IF n = 0 THEN <<>> ELSE <<n>> \o from[Step(tree, n)]
  IN  from[first]

KeyBefore(a, b) ==
  \/ IsStrictPrefix(a, b)
  \/ \E i \in 1..Len(a) : i <= Len(b) /\ SubSeq(a, 1, i - 1) = SubSeq(b, 1, i - 1) /\ a[i] < b[i]

KeyBeforeInverse(a, b) == IsStrictPrefix(b, a) \/ (KeyBefore(a, b) /\ ~IsStrictPrefix(a, b))

(* From the root of a dictionary, next and nextInverse visit each of its   *)
(* nodes once, in preorder and in postorder; prev and prevInverse go back. *)
TraversalsVisitOnce ==
  \A d \in Dictionaries(tree) :
    \A mine \in {{n \in DOMAIN tree.nodes : TreeRoot(tree, n) = d}},
       pre \in {Walk(NextNode, d)}, post \in {Walk(NextInverse, Leftmost(tree, d))} :
        /\ ToSet(pre) = mine /\ ToSet(post) = mine
        /\ \A i, j \in DOMAIN pre : i < j => KeyBefore(KeyOf(tree, pre[i]), KeyOf(tree, pre[j]))
        /\ \A i, j \in DOMAIN post : i < j => KeyBeforeInverse(KeyOf(tree, post[i]), KeyOf(tree, post[j]))
        /\ Walk(PrevNode, Rightmost(tree, d)) = Reverse(pre)
        /\ Walk(PrevInverse, d) = Reverse(post)

(* A definition can be undone to the last record, whether it succeeded (and *)
(* opens a scope), failed for want of memory at any of its steps, or failed *)
(* because it would shadow a permanent phrase.                              *)
DefinitionIsUndone ==
  \A d \in Dictionaries(tree), k \in program.keys, kind \in program.kinds :
    Restore(Attempt(tree, d, k, kind).tree, tree.end) = tree

(* What rolling an open scope back would restore is settled when the scope *)
(* is opened: nothing done inside it changes it.                           *)
UndoIsExact ==
  [][\A i \in DOMAIN marks \cap DOMAIN marks' : Restore(tree', marks'[i]) = Restore(tree, marks[i])]_vars

(* The content an item counts as its own is followed by nothing but free   *)
(* or newer memory: no node, key or item lies inside it.                   *)
ContentIsOwn ==
  \A i \in DOMAIN tree.items :
    \A a \in (i + 1)..(i + tree.items[i].bytes) :
      /\ a < tree.end
      /\ a \notin DOMAIN tree.items \cup DOMAIN tree.keys
      /\ a \in DOMAIN tree.nodes => tree.items[i].owner /\ a = i + 1

(* However a program asks, by a key, by the text it reads or by walking     *)
(* through a dictionary, it is told of the phrases of the list            *)
(* (Node.cpp 162-420); and definitions, failed definitions, extensions and   *)
(* rollbacks in any order leave no dangling reference and no content that     *)
(* something else overlays (Item.cpp 90-104, Checkpoint.cpp 14-73).           *)
TreeIsSound ==
  /\ MatchesAgree /\ MoreIsRight /\ TraversalsVisitOnce
  /\ ReferencesLead /\ ContentIsOwn
=============================================================================
