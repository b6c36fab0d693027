--------------------------- MODULE ModuleCacheProofs ---------------------------
(***************************************************************************)
(* Proofs about ModuleCache, for any project, any number of builders, and   *)
(* whatever is edited, crashes or cannot be written.                        *)
(***************************************************************************)
EXTENDS ModuleCache, TLAPS

(***************************************************************************)
(* Types.                                                                   *)
(***************************************************************************)
Module == [file : Sources, stamp : Contents, deps : Stamps, inputs : SUBSET Link,
           base : SUBSET Definition, prefix : SUBSET Definition,
           linked : BOOLEAN, direct : BOOLEAN, content : Contents \cup {NoContent}, next : Nat \ {0}]
Image == [id : Nat, defs : SUBSET Definition, links : SUBSET Link]
Manifest == [stamp : Contents, imageId : Nat, deps : Stamps, inputs : SUBSET Link,
             prefix : SUBSET Definition, linked : BOOLEAN, direct : BOOLEAN]

TypeOK ==
  /\ scene \in Scenes
  /\ disk \in [Files -> Contents]
  /\ nextImage \in Nat \ {0}
  /\ image \in [Sources -> Image \cup {NoEntry}]
  /\ manifest \in [Sources -> Manifest \cup {NoEntry}]
  /\ pc \in [Builders -> PC]
  /\ target \in [Builders -> Files]
  /\ opened \in [Builders -> Contents \cup {NoContent}]
  /\ stack \in [Builders -> Seq(Module)]
  /\ module \in [Builders -> Module \cup {NoModule}]
  /\ fresh \in [Builders -> Image \cup {NoEntry}]
  /\ ctx \in [Builders -> SUBSET Definition]
  /\ linked \in [Builders -> SUBSET Link]

Writing == {"write", "save", "swapImage", "swapManifest", "observe"}
Holding == {"save", "swapImage", "swapManifest"}
Swapping == {"swapImage", "swapManifest"}

(***************************************************************************)
(* The owner of the lock is the only one that swaps files.                  *)
(***************************************************************************)
Locked == \A b \in Builders : pc[b] \in Holding <=> lock = b

(***************************************************************************)
(* The identity of an image is taken once: no other image and no link has   *)
(* the one that is being swapped in.                                        *)
(***************************************************************************)
Taken(links, next) == \A l \in links : l.file \in Sources => l.id \in 1 .. next - 1
Ids ==
  /\ \A f \in Sources : image[f] # NoEntry => image[f].id \in 1 .. nextImage - 1 /\ Taken(image[f].links, nextImage)
  /\ \A f \in Sources : manifest[f] # NoEntry => manifest[f].imageId < nextImage
  /\ \A b \in Builders : Taken(linked[b], nextImage)
FreshOf(b) ==
  /\ fresh[b] \in Image
  /\ fresh[b].id \in 1 .. nextImage - 1 /\ Taken(fresh[b].links, fresh[b].id)
  /\ \A f \in Sources : manifest[f] # NoEntry => manifest[f].imageId # fresh[b].id
  /\ \A f \in Sources : image[f] # NoEntry => Taken(image[f].links, fresh[b].id)
  /\ \A c \in Builders : Taken(linked[c], fresh[b].id)
  /\ pc[b] = "swapManifest" => image[module[b].file] = fresh[b]
FreshIds == \A b \in Builders : pc[b] \in Swapping => FreshOf(b)

(***************************************************************************)
(* What a builder has at each point of its build.                           *)
(***************************************************************************)
Shape(p, t, o, s, m, defs, links) ==
  /\ s \in Seq(Module) /\ defs \in SUBSET Definition /\ links \in SUBSET Link
  /\ p \in {"run", "import", "observe"} => s # <<>>
  /\ p = "import" => t \in Libraries
  /\ p = "opened" => o \in Contents
  /\ s # <<>> => o \in Contents
  /\ p \in {"idle", "opened"} => s = <<>>
  /\ p \in {"opened", "enter"} /\ s = <<>> => t = Root
  /\ p \notin Writing /\ s = <<>> => defs = {} /\ links = {}
  /\ p \in Writing => m \in Module

ShapeOK(b) == Shape(pc[b], target[b], opened[b], stack[b], module[b], ctx[b], linked[b])

Core ==
  /\ TypeOK
  /\ Locked
  /\ Ids
  /\ FreshIds
  /\ \A b \in Builders : ShapeOK(b)

(***************************************************************************)
(* Each open module, with those inside it, names every file that has been   *)
(* read or restored since, and what there was when it began.                *)
(***************************************************************************)
Stamped(m, g) == m.deps[g] # NoContent
Named(m, g) == Stamped(m, g) \/ \E x \in m.inputs \cup m.prefix : x.file = g
NamedFrom(p, s, m, i, g) ==
  \/ Named(s[i], g)
  \/ \E j \in i .. Len(s) : Stamped(s[j], g)
  \/ p \in Writing /\ Stamped(m, g)
EachNames(p, t, s, m, defs, links) ==
  /\ \A i \in 1 .. Len(s) : \A x \in defs \cup links : NamedFrom(p, s, m, i, x.file)
  /\ p \in Writing => \A x \in defs \cup links : Named(m, x.file)
  /\ p = "import" => \A i \in 1 .. Len(s) : Stamped(s[i], t)

Whole(m) == Stamped(m, m.file) /\ (m.direct => m.prefix = {})
ModulesWhole(p, s, m) ==
  /\ \A i \in 1 .. Len(s) : Whole(s[i])
  /\ p \in Writing => Whole(m)

(***************************************************************************)
(* The innermost module, as long as it is a delta, has added nothing to its *)
(* base but definitions of its own, and all else came with loaded images    *)
(* that hold nothing but what their own sources declare.                    *)
(***************************************************************************)
Pure(images, l) ==
  l.file \in Sources /\ images[l.file] # NoEntry /\ images[l.file].id = l.id
    => \A x \in images[l.file].defs : x.file = l.file
DeltaOf(images, m, defs, links) ==
  /\ \A x \in defs \ m.base : x.file = m.file
  /\ \A x \in m.base : \E l \in links : l.file = x.file
  /\ \A l \in links : Pure(images, l)
Inner(p, s, m) == IF p \in Writing THEN m ELSE s[Len(s)]
IsDelta(images, p, s, m, defs, links) ==
  (p \in Writing \/ s # <<>>) /\ Inner(p, s, m).linked =>
    /\ DeltaOf(images, Inner(p, s, m), defs, links)
    /\ Inner(p, s, m).direct
    /\ \A i \in 1 .. Len(s) : s[i].linked /\ s[i].direct
    /\ p = "import" => defs = Inner(p, s, m).base

Building(images, p, t, s, m, defs, links) ==
  /\ EachNames(p, t, s, m, defs, links)
  /\ ModulesWhole(p, s, m)
  /\ IsDelta(images, p, s, m, defs, links)
BuildOK(b) == Building(image, pc[b], target[b], stack[b], module[b], ctx[b], linked[b])

(***************************************************************************)
(* What an image holds is named by the manifest, or the module, it belongs  *)
(* to.                                                                      *)
(***************************************************************************)
Described(images, i, m, f) ==
  /\ Stamped(m, f)
  /\ \A x \in i.defs \cup i.links : Named(m, x.file)
  /\ m.linked => DeltaOf(images, [file |-> f, base |-> {}], i.defs, i.links)
  /\ ~m.linked => i.links = {}
  /\ m.direct => m.prefix = {}
ImagesDescribed ==
  /\ \A f \in Sources : manifest[f] # NoEntry /\ image[f] # NoEntry /\ image[f].id = manifest[f].imageId =>
       Described(image, image[f], manifest[f], f)
  /\ \A b \in Builders : pc[b] \in Swapping => Described(image, fresh[b], module[b], module[b].file)

IInv ==
  /\ Core
  /\ \A b \in Builders : BuildOK(b)
  /\ ImagesDescribed

(***************************************************************************)
(* Two things make a manifest forget a file: a nested module gives up its   *)
(* write-back, and its parent only observes it; and an image is restored    *)
(* into a session that has not loaded what it was made over.                *)
(***************************************************************************)
NothingGivenUp == \A b \in Builders : pc[b] # "observe"
InputsAreLoaded ==
  \A b \in Builders : Entering(b) /\ Nested(b) /\ Restorable(b, target[b]) =>
    \A x \in manifest[target[b]].inputs : \E l \in linked[b] : l.file = x.file
Undisturbed == NothingGivenUp /\ InputsAreLoaded

(* A step of one builder. *)
Builds(b) == Start(b) \/ Enter(b) \/ Execute(b) \/ WriteBack(b) \/ Crash(b)

-----------------------------------------------------------------------------
LEMMA Predecessor ==
  ASSUME NEW n \in Nat, n > 0
  PROVE  n - 1 \in Nat /\ n - 1 <= n
OBVIOUS

LEMMA FrontIs ==
  ASSUME NEW s \in Seq(Module), s # <<>>
  PROVE  /\ Front(s) \in Seq(Module) /\ Len(Front(s)) = Len(s) - 1
         /\ \A i \in 1 .. Len(s) - 1 : Front(s)[i] = s[i]
<1>1. Len(s) \in Nat /\ Len(s) > 0
  OBVIOUS
<1>2. Len(s) - 1 \in Nat /\ Len(s) - 1 <= Len(s)
  BY <1>1, Predecessor
<1>3. \A n \in Nat : n <= Len(s) => Len(SubSeq(s, 1, n)) = n
  OBVIOUS
<1>4. Len(Front(s)) = Len(s) - 1
  BY <1>2, <1>3 DEF Front
<1>5. Front(s) \in Seq(Module) /\ \A i \in 1 .. Len(s) - 1 : Front(s)[i] = s[i]
  BY <1>1 DEF Front
<1> QED
  BY <1>4, <1>5

(* A stack after its last module was replaced, and the stack below it. *)
LEMMA OnTopIs ==
  ASSUME NEW s \in Seq(Module), s # <<>>, NEW m \in Module
  PROVE  /\ OnTop(s, m) \in Seq(Module) /\ OnTop(s, m) # <<>> /\ Len(OnTop(s, m)) = Len(s)
         /\ \A i \in 1 .. Len(s) : OnTop(s, m)[i] = IF i = Len(s) THEN m ELSE s[i]
<1>1. Len(s) \in Nat /\ Len(s) > 0
  OBVIOUS
<1>2. Front(s) \in Seq(Module) /\ Len(Front(s)) = Len(s) - 1
  BY FrontIs
<1>3. \A i \in 1 .. Len(s) - 1 : Front(s)[i] = s[i]
  BY FrontIs
<1>4. Append(Front(s), m) \in Seq(Module) /\ Len(Append(Front(s), m)) = Len(s)
  BY <1>1, <1>2
<1>5. \A i \in 1 .. Len(s) : Append(Front(s), m)[i] = IF i = Len(s) THEN m ELSE s[i]
  BY <1>1, <1>2, <1>3
<1> QED
  BY <1>1, <1>4, <1>5 DEF OnTop

LEMMA LastIs ==
  ASSUME NEW s \in Seq(Module), s # <<>>
  PROVE  Len(s) \in Nat /\ Len(s) > 0 /\ Last(s) = s[Len(s)] /\ Last(s) \in Module
<1>1. Len(s) \in Nat /\ Len(s) > 0
  OBVIOUS
<1>2. Last(s) = s[Len(s)] /\ s[Len(s)] \in Module
  BY <1>1 DEF Last
<1> QED
  BY <1>1, <1>2

(* What a module takes over at a dependency. *)
LEMMA BeforeIs ==
  ASSUME NEW m \in Module, NEW defs
  PROVE  /\ Before(m, defs) \in Module
         /\ Before(m, defs).linked = (m.linked /\ defs = m.base)
         /\ Before(m, defs).file = m.file /\ Before(m, defs).deps = m.deps
         /\ Before(m, defs).inputs = m.inputs /\ Before(m, defs).prefix = m.prefix
         /\ Before(m, defs).direct = m.direct /\ Before(m, defs).base = m.base
<1>1. (m.linked /\ defs = m.base) \in BOOLEAN
  OBVIOUS
<1> QED
  BY <1>1 DEF Before, Module

LEMMA AbsorbIs ==
  ASSUME NEW m \in Module, NEW deps \in Stamps, NEW childLinked \in BOOLEAN, NEW defs \in SUBSET Definition
  PROVE  /\ Absorb(m, deps, childLinked, defs) \in Module
         /\ Absorb(m, deps, childLinked, defs).linked = (m.linked /\ childLinked)
         /\ Absorb(m, deps, childLinked, defs).deps = Merge(m.deps, deps)
         /\ Absorb(m, deps, childLinked, defs).file = m.file
         /\ Absorb(m, deps, childLinked, defs).inputs = m.inputs
         /\ Absorb(m, deps, childLinked, defs).prefix = m.prefix
         /\ Absorb(m, deps, childLinked, defs).direct = m.direct
         /\ Absorb(m, deps, childLinked, defs).base = defs
<1>1. (m.linked /\ childLinked) \in BOOLEAN
  OBVIOUS
<1>2. Merge(m.deps, deps) \in Stamps
  BY DEF Merge, Stamps, Module
<1> QED
  BY <1>1, <1>2 DEF Absorb, After, Module

LEMMA MergeStamps ==
  ASSUME NEW one, NEW two, NEW g \in Files, one[g] # NoContent \/ two[g] # NoContent
  PROVE  Merge(one, two)[g] # NoContent
BY DEF Merge

-----------------------------------------------------------------------------
(* Steps of one builder leave the others as they are. *)
Elsewhere(b) ==
  \A c \in Builders \ {b} :
    /\ pc'[c] = pc[c] /\ target'[c] = target[c] /\ opened'[c] = opened[c] /\ stack'[c] = stack[c]
    /\ module'[c] = module[c] /\ fresh'[c] = fresh[c] /\ ctx'[c] = ctx[c] /\ linked'[c] = linked[c]

LEMMA OthersAreBuilding ==
  ASSUME IInv, image' = image, NEW b \in Builders, Elsewhere(b), NEW c \in Builders \ {b}
  PROVE  BuildOK(c)'
<1>1. BuildOK(c)
  BY DEF IInv
<1>2. Building(image', pc'[c], target'[c], stack'[c], module'[c], ctx'[c], linked'[c])
  BY <1>1 DEF BuildOK, Elsewhere
<1> QED
  BY <1>2 DEF BuildOK

(* A builder that has nothing in memory. *)
LEMMA NothingIsBuilding ==
  ASSUME NEW images, NEW p \in {"idle", "enter", "opened"}, NEW t, NEW m
  PROVE  Building(images, p, t, <<>>, m, {}, {})
<1>1. p \notin Writing
  BY DEF Writing
<1>2. 1 .. Len(<<>>) = {}
  OBVIOUS
<1> QED
  BY <1>1, <1>2 DEF Building, EachNames, ModulesWhole, IsDelta

LEMMA StartStep ==
  ASSUME IInv, NEW b \in Builders, Start(b)
  PROVE  BuildOK(b)'
<1>1. pc'[b] = "enter" /\ target'[b] = Root /\ opened'[b] = opened[b] /\ stack'[b] = stack[b] /\ module'[b] = module[b]
      /\ ctx'[b] = ctx[b] /\ linked'[b] = linked[b]
  BY DEF IInv, Core, TypeOK, Start, builderVars
<1>2. stack[b] = <<>> /\ ctx[b] = {} /\ linked[b] = {}
  BY DEF IInv, Core, BuildOK, Building, ShapeOK, Shape, Start, Writing
<1> QED
  BY <1>1, <1>2, NothingIsBuilding DEF BuildOK

LEMMA LeaveStep ==
  ASSUME IInv, NEW b \in Builders, Leave(b)
  PROVE  BuildOK(b)' /\ Elsewhere(b)
<1>1. /\ pc'[b] = "idle" /\ stack'[b] = <<>> /\ ctx'[b] = {} /\ linked'[b] = {}
      /\ target'[b] = Root /\ opened'[b] = NoContent /\ module'[b] = NoModule
  BY DEF IInv, Core, TypeOK, Leave
<1>2. BuildOK(b)'
  BY <1>1, NothingIsBuilding DEF BuildOK
<1>3. Elsewhere(b)
  BY DEF IInv, Core, TypeOK, Leave, Elsewhere
<1> QED
  BY <1>2, <1>3

LEMMA RootMissStep ==
  ASSUME IInv, NEW b \in Builders, RootMiss(b)
  PROVE  BuildOK(b)'
<1>1. /\ pc'[b] = "opened" /\ target'[b] = target[b] /\ opened'[b] = disk[target[b]] /\ stack'[b] = stack[b]
      /\ module'[b] = module[b] /\ ctx'[b] = ctx[b] /\ linked'[b] = linked[b]
  BY DEF IInv, Core, TypeOK, RootMiss, builderVars
<1>2. stack[b] = <<>> /\ ctx[b] = {} /\ linked[b] = {} /\ target[b] = Root /\ disk[target[b]] \in Contents
  BY DEF IInv, Core, TypeOK, BuildOK, Building, ShapeOK, Shape, RootMiss, Entering, Nested, Writing
<1> QED
  BY <1>1, <1>2, NothingIsBuilding DEF BuildOK

(* What a hit finds on the disk. *)
LEMMA RestorableTypes ==
  ASSUME Core, NEW b \in Builders, NEW f \in Sources, Restorable(b, f)
  PROVE  /\ manifest[f] \in Manifest /\ image[f] \in Image
         /\ image[f].id \in 1 .. nextImage - 1 /\ Taken(image[f].links, nextImage)
<1>1. manifest[f] # NoEntry /\ image[f] # NoEntry
  BY DEF Restorable
<1>2. manifest[f] \in Manifest /\ image[f] \in Image
  BY <1>1 DEF Core, TypeOK
<1>3. image[f].id \in 1 .. nextImage - 1 /\ Taken(image[f].links, nextImage)
  BY <1>1 DEF Core, Ids
<1> QED
  BY <1>2, <1>3

LEMMA RestorableImage ==
  ASSUME IInv, NEW b \in Builders, NEW f \in Sources, Restorable(b, f)
  PROVE  manifest[f] \in Manifest /\ image[f] \in Image /\ Described(image, image[f], manifest[f], f)
<1>1. manifest[f] # NoEntry /\ image[f] # NoEntry /\ image[f].id = manifest[f].imageId
  BY DEF Restorable, ImageIsOwn
<1>2. Described(image, image[f], manifest[f], f)
  BY <1>1 DEF IInv, ImagesDescribed
<1> QED
  BY <1>2, RestorableTypes DEF IInv

(* A library is loaded as its own image; a source's image is there if it is named. *)
LEMMA LinkIsThere ==
  ASSUME Core, NEW b \in Builders, NEW f \in Sources, Restorable(b, f), NEW l \in image[f].links \ linked[b]
  PROVE  l.file \in Libraries \/ (l.file \in Sources /\ image[l.file] # NoEntry /\ image[l.file].id = l.id)
<1>1. image[f] \in Image /\ Taken(image[f].links, nextImage)
  BY RestorableTypes
<1>2. l \in Link /\ l.file \in Files
  BY <1>1 DEF Image, Link
<1>3. ImageId(l.file) = l.id
  BY DEF Restorable, Loadable
<1>4. l.file \in Sources => l.file \notin Libraries
  BY CacheAssumption
<1>5. l.file \in Sources => l.id # 0
  BY <1>1, <1>2 DEF Taken, Core, TypeOK
<1> QED
  BY <1>2, <1>3, <1>4, <1>5 DEF ImageId, Files

LEMMA LoadedTypes ==
  ASSUME Core, NEW b \in Builders, NEW f \in Sources, Restorable(b, f)
  PROVE  Loaded(b, f) \in SUBSET Definition
<1> DEFINE links == image[f].links \ linked[b]
           From(l) == IF l.file \in Libraries THEN Import({}, l.file, disk[l.file]) ELSE image[l.file].defs
           Brought == {From(l) : l \in links}
<1>1. image[f].defs \in SUBSET Definition /\ ctx[b] \in SUBSET Definition
  BY RestorableTypes DEF Core, TypeOK, Image
<1>2. Loaded(b, f) = (UNION Brought) \cup image[f].defs \cup ctx[b]
  BY DEF Loaded
<1>3. ASSUME NEW l \in links
      PROVE  From(l) \in SUBSET Definition
  <2>1. CASE l.file \in Libraries
    <3>1. disk[l.file] \in Contents /\ l.file \in Files
      BY <2>1 DEF Core, TypeOK, Files
    <3> QED
      BY <2>1, <3>1 DEF Import, Definition
  <2>2. CASE l.file \notin Libraries
    <3>1. l.file \in Sources /\ image[l.file] # NoEntry
      BY <2>2, LinkIsThere
    <3>2. image[l.file] \in Image
      BY <3>1 DEF Core, TypeOK
    <3> QED
      BY <2>2, <3>2 DEF Image
  <2> QED
    BY <2>1, <2>2
<1>4. UNION Brought \in SUBSET Definition
  BY <1>3
<1> HIDE DEF Brought
<1> QED
  BY <1>1, <1>2, <1>4

(* A restore brings back what the manifest names, and what was there before. *)
LEMMA LoadedIs ==
  ASSUME IInv, NEW b \in Builders, NEW f \in Sources, Restorable(b, f)
  PROVE  /\ Loaded(b, f) \in SUBSET Definition
         /\ \A x \in Loaded(b, f) : x \in ctx[b] \/ Named(manifest[f], x.file)
         /\ manifest[f].linked =>
              \A x \in Loaded(b, f) : x \in ctx[b] \/ x.file = f \/ \E l \in image[f].links : l.file = x.file
<1> DEFINE links == image[f].links \ linked[b]
           From(l) == IF l.file \in Libraries THEN Import({}, l.file, disk[l.file]) ELSE image[l.file].defs
           Brought == {From(l) : l \in links}
<1>1. image[f] \in Image /\ Described(image, image[f], manifest[f], f) /\ ctx[b] \in SUBSET Definition
  BY RestorableImage DEF IInv, Core, TypeOK
<1>2. Loaded(b, f) = (UNION Brought) \cup image[f].defs \cup ctx[b]
  BY DEF Loaded
<1>3. ASSUME NEW l \in links, NEW x \in From(l)
      PROVE  /\ x \in Definition /\ Named(manifest[f], x.file)
             /\ manifest[f].linked => x.file = l.file
  <2>1. Named(manifest[f], l.file) /\ l \in image[f].links
    BY <1>1 DEF Described
  <2>2. CASE l.file \in Libraries
    <3>1. x = [file |-> l.file, content |-> disk[l.file], over |-> {}]
      BY <2>2 DEF Import
    <3>2. disk[l.file] \in Contents /\ l.file \in Files
      BY <2>2 DEF IInv, Core, TypeOK, Files
    <3> QED
      BY <2>1, <3>1, <3>2 DEF Definition
  <2>3. CASE l.file \notin Libraries
    <3>1. l.file \in Sources /\ image[l.file] # NoEntry /\ image[l.file].id = l.id
      BY <2>3, LinkIsThere DEF IInv
    <3>2. x \in image[l.file].defs /\ image[l.file] \in Image
      BY <2>3, <3>1 DEF IInv, Core, TypeOK
    <3>3. x \in Definition
      BY <3>2 DEF Image
    <3>4. manifest[f].linked /\ Pure(image, l) => x.file = l.file
      BY <3>1, <3>2 DEF Pure
    <3>5. manifest[f].linked => Pure(image, l)
      BY <1>1 DEF Described, DeltaOf
    <3>6. ~manifest[f].linked => image[f].links = {}
      BY <1>1 DEF Described
    <3> QED
      BY <2>1, <3>3, <3>4, <3>5, <3>6
  <2> QED
    BY <2>2, <2>3
<1>4. ASSUME NEW x \in image[f].defs
      PROVE  x \in Definition /\ Named(manifest[f], x.file) /\ (manifest[f].linked => x.file = f)
  <2>1. x \in Definition /\ Named(manifest[f], x.file)
    BY <1>1 DEF Described, Image
  <2>2. manifest[f].linked => x.file = f
    BY <1>1 DEF Described, DeltaOf
  <2> QED
    BY <2>1, <2>2
<1>5. ASSUME NEW x \in Loaded(b, f)
      PROVE  x \in ctx[b] \/ x \in image[f].defs \/ \E l \in links : x \in From(l)
  <2>1. x \in UNION Brought \/ x \in image[f].defs \/ x \in ctx[b]
    <3> HIDE DEF Brought
    <3> QED
      BY <1>2, <1>5
  <2>2. ASSUME x \in UNION Brought
        PROVE  \E l \in links : x \in From(l)
    <3> HIDE DEF From, links
    <3> QED
      BY <2>2
  <2> QED
    BY <2>1, <2>2
<1> HIDE DEF From
<1>6. Loaded(b, f) \in SUBSET Definition
  BY <1>1, <1>3, <1>4, <1>5
<1>7. \A x \in Loaded(b, f) : x \in ctx[b] \/ Named(manifest[f], x.file)
  BY <1>3, <1>4, <1>5
<1>8. manifest[f].linked =>
        \A x \in Loaded(b, f) : x \in ctx[b] \/ x.file = f \/ \E l \in image[f].links : l.file = x.file
  BY <1>3, <1>4, <1>5
<1> QED
  BY <1>6, <1>7, <1>8


-----------------------------------------------------------------------------
(* A module goes on naming what it named as it gains stamps. *)
Keeps(m, more) ==
  /\ more.file = m.file /\ more.inputs = m.inputs /\ more.prefix = m.prefix /\ more.direct = m.direct
  /\ \A g \in Files : Stamped(m, g) => Stamped(more, g)
AllKeep(s, more) ==
  Len(more) = Len(s) /\ \A i \in 1 .. Len(s) : Keeps(s[i], more[i])

LEMMA StillNamed ==
  ASSUME NEW s \in Seq(Module), NEW more \in Seq(Module), AllKeep(s, more), NEW p, p \notin Writing, NEW m,
         NEW q, NEW w, NEW i \in 1 .. Len(s), NEW g \in Files, NamedFrom(p, s, m, i, g)
  PROVE  NamedFrom(q, more, w, i, g)
<1>1. CASE Named(s[i], g)
  BY <1>1 DEF AllKeep, Keeps, Named, NamedFrom
<1>2. CASE \E j \in i .. Len(s) : Stamped(s[j], g)
  <2>1. PICK j \in i .. Len(s) : Stamped(s[j], g)
    BY <1>2
  <2>2. j \in 1 .. Len(s) /\ j \in i .. Len(more)
    BY DEF AllKeep
  <2>3. Stamped(more[j], g)
    BY <2>1, <2>2 DEF AllKeep, Keeps
  <2> QED
    BY <2>2, <2>3 DEF NamedFrom
<1> QED
  BY <1>1, <1>2 DEF NamedFrom

LEMMA StillWhole ==
  ASSUME NEW m \in Module, NEW more, Keeps(m, more), Whole(m)
  PROVE  Whole(more)
<1>1. m.file \in Files
  BY DEF Module, Files
<1> QED
  BY <1>1 DEF Keeps, Whole

(* Only the innermost module changes. *)
LEMMA TopKeeps ==
  ASSUME NEW s \in Seq(Module), s # <<>>, NEW m \in Module, Keeps(s[Len(s)], m)
  PROVE  AllKeep(s, OnTop(s, m)) /\ OnTop(s, m) \in Seq(Module) /\ Len(OnTop(s, m)) = Len(s)
         /\ OnTop(s, m) # <<>> /\ OnTop(s, m)[Len(s)] = m
         /\ \A i \in 1 .. Len(s) : i # Len(s) => OnTop(s, m)[i] = s[i]
<1>1. /\ OnTop(s, m) \in Seq(Module) /\ OnTop(s, m) # <<>> /\ Len(OnTop(s, m)) = Len(s)
      /\ \A i \in 1 .. Len(s) : OnTop(s, m)[i] = IF i = Len(s) THEN m ELSE s[i]
  BY OnTopIs
<1>2. Len(s) \in Nat /\ Len(s) > 0
  BY LastIs
<1>3. ASSUME NEW i \in 1 .. Len(s)
      PROVE  Keeps(s[i], OnTop(s, m)[i])
  <2>1. CASE i = Len(s)
    BY <1>1, <2>1
  <2>2. CASE i # Len(s)
    BY <1>1, <2>2 DEF Keeps
  <2> QED
    BY <2>1, <2>2
<1> QED
  BY <1>1, <1>2, <1>3 DEF AllKeep

(* What a builder with open modules has. *)
LEMMA NestedIs ==
  ASSUME Core, NEW b \in Builders, stack[b] # <<>>
  PROVE  /\ stack[b] \in Seq(Module) /\ Len(stack[b]) \in Nat /\ Len(stack[b]) > 0
         /\ Last(stack[b]) = stack[b][Len(stack[b])] /\ Last(stack[b]) \in Module
         /\ opened[b] \in Contents /\ ctx[b] \in SUBSET Definition /\ linked[b] \in SUBSET Link
         /\ \A i \in 1 .. Len(stack[b]) : stack[b][i] \in Module
         /\ \A x \in ctx[b] \cup linked[b] : x.file \in Files
<1>1. stack[b] \in Seq(Module) /\ ctx[b] \in SUBSET Definition /\ linked[b] \in SUBSET Link
  BY DEF Core, TypeOK
<1>2. opened[b] \in Contents
  BY DEF Core, ShapeOK, Shape
<1>3. Len(stack[b]) \in Nat /\ Len(stack[b]) > 0 /\ Last(stack[b]) = stack[b][Len(stack[b])] /\ Last(stack[b]) \in Module
  BY <1>1, LastIs
<1>4. \A i \in 1 .. Len(stack[b]) : stack[b][i] \in Module
  BY <1>1
<1>5. \A x \in ctx[b] \cup linked[b] : x.file \in Files
  BY <1>1 DEF Definition, Link
<1> QED
  BY <1>1, <1>2, <1>3, <1>4, <1>5

(* The innermost module when no module is being written back. *)
LEMMA InnerIs ==
  ASSUME IInv, NEW b \in Builders, stack[b] # <<>>, pc[b] \notin Writing, Last(stack[b]).linked
  PROVE  /\ DeltaOf(image, Last(stack[b]), ctx[b], linked[b]) /\ Last(stack[b]).direct
         /\ \A i \in 1 .. Len(stack[b]) : stack[b][i].linked /\ stack[b][i].direct
         /\ pc[b] = "import" => ctx[b] = Last(stack[b]).base
<1>1. Inner(pc[b], stack[b], module[b]) = Last(stack[b])
  BY NestedIs DEF IInv, Inner
<1>2. IsDelta(image, pc[b], stack[b], module[b], ctx[b], linked[b])
  BY DEF IInv, BuildOK, Building
<1> QED
  BY <1>1, <1>2 DEF IsDelta

LEMMA HitStep ==
  ASSUME IInv, InputsAreLoaded, NEW b \in Builders, Hit(b)
  PROVE  BuildOK(b)'
<1> DEFINE f == target[b]
           s == stack[b]
           state == Loaded(b, f)
           before == Before(Last(s), ctx[b])
           top == Absorb(before, manifest[f].deps, manifest[f].linked, state)
           more == OnTop(s, top)
           own == [file |-> f, id |-> image[f].id]
           links == linked[b] \cup image[f].links \cup {own}
<1>1. /\ pc[b] = "enter" /\ s # <<>> /\ f \in Sources /\ Restorable(b, f) /\ Entering(b) /\ Nested(b)
      /\ pc[b] \notin Writing
  BY DEF Hit, Entering, Nested, Writing
<1>2. /\ pc'[b] = "run" /\ target'[b] = f /\ opened'[b] = opened[b] /\ module'[b] = module[b]
      /\ stack'[b] = more /\ ctx'[b] = state /\ linked'[b] = links
  BY DEF IInv, Core, TypeOK, Hit
<1>3. manifest[f] \in Manifest /\ image[f] \in Image /\ Described(image, image[f], manifest[f], f)
  BY <1>1, RestorableImage
<1>4. /\ state \in SUBSET Definition
      /\ \A x \in state : x \in ctx[b] \/ Named(manifest[f], x.file)
      /\ manifest[f].linked =>
           \A x \in state : x \in ctx[b] \/ x.file = f \/ \E l \in image[f].links : l.file = x.file
  BY <1>1, LoadedIs
<1>5. /\ s \in Seq(Module) /\ Len(s) \in Nat /\ Len(s) > 0 /\ Last(s) = s[Len(s)] /\ Last(s) \in Module
      /\ opened[b] \in Contents /\ \A i \in 1 .. Len(s) : s[i] \in Module
      /\ \A x \in ctx[b] \cup linked[b] : x.file \in Files
  BY <1>1, NestedIs DEF IInv
<1>6. /\ before \in Module /\ before.linked = (Last(s).linked /\ ctx[b] = Last(s).base)
      /\ before.file = Last(s).file /\ before.deps = Last(s).deps /\ before.inputs = Last(s).inputs
      /\ before.prefix = Last(s).prefix /\ before.direct = Last(s).direct
  BY <1>5, BeforeIs
<1>7. manifest[f].deps \in Stamps /\ manifest[f].linked \in BOOLEAN
  BY <1>3 DEF Manifest
<1>8. /\ top \in Module /\ top.linked = (before.linked /\ manifest[f].linked)
      /\ top.deps = Merge(before.deps, manifest[f].deps) /\ top.file = before.file
      /\ top.inputs = before.inputs /\ top.prefix = before.prefix /\ top.direct = before.direct /\ top.base = state
  BY <1>4, <1>6, <1>7, AbsorbIs
<1> HIDE DEF state, before, top
<1>9. Keeps(s[Len(s)], top)
  BY <1>5, <1>6, <1>8, MergeStamps DEF Keeps, Stamped
<1>10. /\ AllKeep(s, more) /\ more \in Seq(Module) /\ Len(more) = Len(s) /\ more # <<>> /\ more[Len(s)] = top
       /\ \A i \in 1 .. Len(s) : i # Len(s) => more[i] = s[i]
  BY <1>1, <1>5, <1>8, <1>9, TopKeeps
<1> HIDE DEF more
<1>11. \A g \in Files : Stamped(manifest[f], g) => Stamped(top, g)
  BY <1>8, MergeStamps DEF Stamped
<1>12. ASSUME NEW i \in 1 .. Len(s), NEW x \in ctx[b] \cup linked[b]
       PROVE  NamedFrom("run", more, module[b], i, x.file)
  <2>1. NamedFrom(pc[b], s, module[b], i, x.file)
    BY DEF IInv, BuildOK, Building, EachNames
  <2> QED
    BY <2>1, <1>1, <1>5, <1>10, StillNamed
<1>13. ASSUME NEW i \in 1 .. Len(s), NEW g \in Files, Named(manifest[f], g)
       PROVE  NamedFrom("run", more, module[b], i, g)
  <2>1. CASE Stamped(manifest[f], g)
    <3>1. Stamped(more[Len(s)], g)
      BY <2>1, <1>10, <1>11
    <3>2. Len(s) \in i .. Len(more)
      BY <1>5, <1>10
    <3> QED
      BY <3>1, <3>2 DEF NamedFrom
  <2>2. CASE \E x \in manifest[f].inputs : x.file = g
    <3>1. \E l \in linked[b] : l.file = g
      BY <2>2, <1>1 DEF InputsAreLoaded
    <3> QED
      BY <3>1, <1>12
  <2>3. CASE \E x \in manifest[f].prefix : x.file = g
    <3>1. manifest[f].prefix = ctx[b]
      BY <2>3, <1>1, <1>3 DEF Restorable, PrefixHolds, Described
    <3> QED
      BY <2>3, <3>1, <1>12
  <2> QED
    BY <1>13, <2>1, <2>2, <2>3 DEF Named
<1>14. ASSUME NEW i \in 1 .. Len(s), NEW x \in state \cup links
       PROVE  NamedFrom("run", more, module[b], i, x.file)
  <2>1. CASE x \in ctx[b] \cup linked[b]
    BY <2>1, <1>12
  <2>2. CASE x \in state /\ Named(manifest[f], x.file)
    BY <2>2, <1>4, <1>13 DEF Definition
  <2>3. CASE x \in image[f].links
    <3>1. Named(manifest[f], x.file) /\ x.file \in Files
      BY <2>3, <1>3 DEF Described, Image, Link
    <3> QED
      BY <3>1, <1>13
  <2>4. CASE x = own
    <3>1. Named(manifest[f], x.file) /\ x.file \in Files
      BY <2>4, <1>1, <1>3 DEF Described, Named, Files
    <3> QED
      BY <3>1, <1>13
  <2> QED
    BY <1>4, <2>1, <2>2, <2>3, <2>4
<1>15. EachNames("run", f, more, module[b], state, links)
  BY <1>10, <1>14 DEF EachNames, Writing
<1>16. ModulesWhole("run", more, module[b])
  <2>1. \A i \in 1 .. Len(s) : Whole(s[i])
    BY DEF IInv, BuildOK, Building, ModulesWhole
  <2>2. \A i \in 1 .. Len(s) : Whole(more[i])
    BY <2>1, <1>5, <1>10, StillWhole DEF AllKeep
  <2> QED
    BY <2>2, <1>10 DEF ModulesWhole, Writing
<1>17. IsDelta(image, "run", more, module[b], state, links)
  <2>1. Inner("run", more, module[b]) = top
    BY <1>10 DEF Inner, Writing
  <2>2. SUFFICES ASSUME top.linked
                 PROVE  DeltaOf(image, top, state, links) /\ top.direct
                        /\ \A i \in 1 .. Len(more) : more[i].linked /\ more[i].direct
    BY <2>1 DEF IsDelta
  <2>3. Last(s).linked /\ ctx[b] = Last(s).base /\ manifest[f].linked
    BY <2>2, <1>6, <1>8
  <2>4. /\ DeltaOf(image, Last(s), ctx[b], linked[b]) /\ Last(s).direct
        /\ \A i \in 1 .. Len(s) : s[i].linked /\ s[i].direct
    BY <2>3, <1>1, InnerIs
  <2>5. DeltaOf(image, [file |-> f, base |-> {}], image[f].defs, image[f].links)
    BY <2>3, <1>3 DEF Described
  <2>6. \A x \in top.base : \E l \in links : l.file = x.file
    <3>1. SUFFICES ASSUME NEW x \in state
                   PROVE  \E l \in links : l.file = x.file
      BY <1>8
    <3>2. CASE x \in ctx[b]
      BY <3>2, <2>3, <2>4 DEF DeltaOf
    <3>3. CASE x.file = f
      <4>1. own \in links /\ own.file = f
        OBVIOUS
      <4> QED
        BY <3>3, <4>1
    <3>4. CASE \E l \in image[f].links : l.file = x.file
      BY <3>4
    <3> QED
      BY <3>2, <3>3, <3>4, <1>4, <2>3
  <2>7. \A l \in links : Pure(image, l)
    <3>1. Pure(image, own)
      <4>1. \A x \in image[f].defs : x.file = f
        BY <2>5 DEF DeltaOf
      <4> QED
        BY <4>1 DEF Pure
    <3> QED
      BY <3>1, <2>4, <2>5 DEF DeltaOf
  <2>8. \A x \in state \ top.base : x.file = top.file
    BY <1>8
  <2>9. top.direct
    BY <2>4, <1>6, <1>8
  <2>10. \A i \in 1 .. Len(more) : more[i].linked /\ more[i].direct
    BY <2>2, <2>4, <2>9, <1>10
  <2> QED
    BY <2>6, <2>7, <2>8, <2>9, <2>10 DEF DeltaOf
<1>19. Building(image, "run", f, more, module[b], state, links)
  BY <1>15, <1>16, <1>17 DEF Building
<1>20. image' = image
  BY DEF Hit, cacheVars
<1> QED
  BY <1>2, <1>19, <1>20 DEF BuildOK

-----------------------------------------------------------------------------
AllDirect(parents) == \A i \in DOMAIN parents : parents[i].direct /\ parents[i].linked

Begun(b, f, parents, m) ==
  /\ m \in Module /\ m.file = f /\ Stamped(m, f) /\ m.base = ctx[b]
  /\ m.direct = AllDirect(parents) /\ m.linked = m.direct
  /\ m.prefix = IF m.direct THEN {} ELSE ctx[b]
  /\ \A l \in linked[b] : \E x \in m.inputs : x.file = l.file

(* A module that has just begun names what the builder has. *)
LEMMA ModuleOfIs ==
  ASSUME Core, NEW b \in Builders, NEW f \in Sources, NEW parents \in Seq(Module)
  PROVE  Begun(b, f, parents, ModuleOf(b, f, parents))
<1> DEFINE direct == AllDirect(parents)
           inputs == {[file |-> l.file, id |-> ImageId(l.file)] : l \in linked[b]}
           deps == [NoStamps EXCEPT ![f] = disk[f]]
           prefix == IF direct THEN {} ELSE ctx[b]
<1>1. direct \in BOOLEAN
  BY DEF AllDirect
<1>2. f \in Files /\ disk[f] \in Contents /\ disk[f] # NoContent /\ ctx[b] \in SUBSET Definition /\ linked[b] \in SUBSET Link
  BY CacheAssumption DEF Core, TypeOK, Files
<1>3. deps \in Stamps /\ deps[f] # NoContent
  BY <1>2 DEF NoStamps, Stamps
<1>4. inputs \in SUBSET Link /\ \A l \in linked[b] : \E x \in inputs : x.file = l.file
  <2>1. ASSUME NEW l \in linked[b]
        PROVE  [file |-> l.file, id |-> ImageId(l.file)] \in Link
    <3>1. l.file \in Files
      BY <1>2 DEF Link
    <3>2. CASE l.file \in Libraries
      BY <3>1, <3>2, CacheAssumption DEF ImageId, Link, Core, TypeOK
    <3>3. CASE l.file \notin Libraries
      BY <3>1, <3>3 DEF ImageId, Link, Core, TypeOK, Image, Files
    <3> QED
      BY <3>2, <3>3
  <2>2. inputs \in SUBSET Link
    BY <2>1
  <2>3. ASSUME NEW l \in linked[b]
        PROVE  \E x \in inputs : x.file = l.file
    <3>1. [file |-> l.file, id |-> ImageId(l.file)] \in inputs
      OBVIOUS
    <3> HIDE DEF inputs
    <3> QED
      BY <3>1
  <2> QED
    BY <2>2, <2>3
<1>5. prefix \in SUBSET Definition
  BY <1>2
<1>6. ModuleOf(b, f, parents) =
        [file |-> f, stamp |-> disk[f], deps |-> deps, inputs |-> inputs, base |-> ctx[b], prefix |-> prefix,
         linked |-> direct, direct |-> direct, content |-> NoContent, next |-> 1]
  BY DEF ModuleOf, AllDirect
<1> HIDE DEF direct, inputs, deps, prefix
<1>7. ModuleOf(b, f, parents) \in Module
  BY <1>1, <1>2, <1>3, <1>4, <1>5, <1>6 DEF Module
<1>8. /\ ModuleOf(b, f, parents).file = f /\ ModuleOf(b, f, parents).base = ctx[b]
      /\ ModuleOf(b, f, parents).direct = direct /\ ModuleOf(b, f, parents).linked = direct
      /\ ModuleOf(b, f, parents).prefix = prefix /\ ModuleOf(b, f, parents).inputs = inputs
      /\ ModuleOf(b, f, parents).deps = deps
  BY <1>6
<1> QED
  BY <1>3, <1>4, <1>7, <1>8 DEF direct, prefix, Stamped, Begun

LEMMA PushIs ==
  ASSUME NEW s \in Seq(Module), NEW m \in Module
  PROVE  /\ Append(s, m) \in Seq(Module) /\ Append(s, m) # <<>> /\ Len(Append(s, m)) = Len(s) + 1
         /\ Append(s, m)[Len(s) + 1] = m /\ \A i \in 1 .. Len(s) : Append(s, m)[i] = s[i]
OBVIOUS

LEMMA PushedNames ==
  ASSUME NEW s \in Seq(Module), NEW m \in Module, NEW i \in 1 .. Len(s), NEW g, NEW w,
         NamedFrom("run", s, w, i, g)
  PROVE  NamedFrom("run", Append(s, m), w, i, g)
<1>1. /\ Len(Append(s, m)) = Len(s) + 1 /\ \A j \in 1 .. Len(s) : Append(s, m)[j] = s[j]
      /\ Len(s) \in Nat
  BY PushIs
<1>2. CASE Named(s[i], g)
  BY <1>1, <1>2 DEF NamedFrom
<1>3. CASE \E j \in i .. Len(s) : Stamped(s[j], g)
  <2>1. PICK j \in i .. Len(s) : Stamped(s[j], g)
    BY <1>3
  <2>2. j \in 1 .. Len(s) /\ j \in i .. Len(Append(s, m))
    BY <1>1
  <2> QED
    BY <1>1, <2>1, <2>2 DEF NamedFrom
<1> QED
  BY <1>2, <1>3 DEF NamedFrom, Writing

LEMMA MissStep ==
  ASSUME IInv, NEW b \in Builders, Miss(b)
  PROVE  BuildOK(b)'
<1> DEFINE f == target[b]
           s == stack[b]
           before == Before(Last(s), ctx[b])
           parents == OnTop(s, before)
           child == ModuleOf(b, f, parents)
           more == Append(parents, child)
<1>1. pc[b] = "enter" /\ s # <<>> /\ f \in Sources /\ pc[b] \notin Writing
  BY DEF Miss, Entering, Nested, Writing
<1>2. /\ pc'[b] = "run" /\ target'[b] = f /\ opened'[b] = opened[b] /\ module'[b] = module[b]
      /\ stack'[b] = more /\ ctx'[b] = ctx[b] /\ linked'[b] = linked[b] /\ image' = image
  BY DEF IInv, Core, TypeOK, Miss, cacheVars
<1>3. /\ s \in Seq(Module) /\ Len(s) \in Nat /\ Len(s) > 0 /\ Last(s) = s[Len(s)] /\ Last(s) \in Module
      /\ opened[b] \in Contents /\ \A i \in 1 .. Len(s) : s[i] \in Module
      /\ \A x \in ctx[b] \cup linked[b] : x.file \in Files
  BY <1>1, NestedIs DEF IInv
<1>4. /\ before \in Module /\ before.linked = (Last(s).linked /\ ctx[b] = Last(s).base)
      /\ before.file = Last(s).file /\ before.deps = Last(s).deps /\ before.inputs = Last(s).inputs
      /\ before.prefix = Last(s).prefix /\ before.direct = Last(s).direct
  BY <1>3, BeforeIs
<1> HIDE DEF before
<1>5. Keeps(s[Len(s)], before)
  BY <1>3, <1>4 DEF Keeps, Stamped
<1>6. /\ AllKeep(s, parents) /\ parents \in Seq(Module) /\ Len(parents) = Len(s) /\ parents[Len(s)] = before
      /\ \A i \in 1 .. Len(s) : i # Len(s) => parents[i] = s[i]
  BY <1>1, <1>3, <1>4, <1>5, TopKeeps
<1> HIDE DEF parents
<1>7. /\ child \in Module /\ child.file = f /\ Stamped(child, f) /\ child.base = ctx[b]
      /\ child.direct = AllDirect(parents)
      /\ child.linked = child.direct /\ child.prefix = IF child.direct THEN {} ELSE ctx[b]
      /\ \A l \in linked[b] : \E x \in child.inputs : x.file = l.file
  <2>1. Begun(b, f, parents, child)
    BY <1>1, <1>6, ModuleOfIs DEF IInv
  <2> HIDE DEF child
  <2> QED
    BY <2>1 DEF Begun
<1> HIDE DEF child
<1>8. /\ more \in Seq(Module) /\ more # <<>> /\ Len(more) = Len(s) + 1 /\ more[Len(s) + 1] = child
      /\ \A i \in 1 .. Len(s) : more[i] = parents[i]
  BY <1>6, <1>7, PushIs
<1>9. ASSUME NEW i \in 1 .. Len(s), NEW x \in ctx[b] \cup linked[b]
      PROVE  NamedFrom("run", more, module[b], i, x.file)
  <2>1. NamedFrom(pc[b], s, module[b], i, x.file)
    BY DEF IInv, BuildOK, Building, EachNames
  <2>2. NamedFrom("run", parents, module[b], i, x.file)
    BY <2>1, <1>1, <1>3, <1>6, StillNamed
  <2> QED
    BY <2>2, <1>6, <1>7, PushedNames
<1> HIDE DEF more
<1>10. ASSUME child.direct
       PROVE  /\ Last(s).linked /\ DeltaOf(image, Last(s), ctx[b], linked[b]) /\ ctx[b] = Last(s).base
              /\ \A i \in 1 .. Len(s) : parents[i].direct /\ parents[i].linked
  <2>1. \A i \in 1 .. Len(s) : parents[i].direct /\ parents[i].linked
    <3>1. AllDirect(parents)
      BY <1>7, <1>10
    <3>2. DOMAIN parents = 1 .. Len(s)
      BY <1>6
    <3> QED
      BY <3>1, <3>2 DEF AllDirect
  <2>2. before.linked
    BY <2>1, <1>3, <1>6
  <2> QED
    BY <2>1, <2>2, <1>1, <1>4, InnerIs
<1>11. ASSUME child.direct
       PROVE  \A x \in ctx[b] : \E l \in linked[b] : l.file = x.file
  BY <1>10, <1>11 DEF DeltaOf
<1>12. ASSUME NEW x \in ctx[b] \cup linked[b]
       PROVE  Named(child, x.file)
  <2>1. CASE x \in linked[b]
    BY <2>1, <1>7 DEF Named
  <2>2. CASE x \in ctx[b] /\ child.direct
    BY <2>2, <1>7, <1>11 DEF Named
  <2>3. CASE x \in ctx[b] /\ ~child.direct
    BY <2>3, <1>7 DEF Named
  <2> QED
    BY <2>1, <2>2, <2>3
<1>13. EachNames("run", f, more, module[b], ctx[b], linked[b])
  <2>1. ASSUME NEW i \in 1 .. Len(more), NEW x \in ctx[b] \cup linked[b]
        PROVE  NamedFrom("run", more, module[b], i, x.file)
    <3>1. CASE i \in 1 .. Len(s)
      BY <3>1, <1>9
    <3>2. CASE i = Len(s) + 1
      BY <3>2, <1>8, <1>12 DEF NamedFrom
    <3> QED
      BY <3>1, <3>2, <1>3, <1>8
  <2> QED
    BY <2>1 DEF EachNames, Writing
<1>14. ModulesWhole("run", more, module[b])
  <2>1. \A i \in 1 .. Len(s) : Whole(s[i])
    BY DEF IInv, BuildOK, Building, ModulesWhole
  <2>2. \A i \in 1 .. Len(s) : Whole(more[i])
    BY <2>1, <1>3, <1>6, <1>8, StillWhole DEF AllKeep
  <2>3. Whole(child)
    BY <1>7 DEF Whole
  <2>4. \A i \in 1 .. Len(more) : i \in 1 .. Len(s) \/ i = Len(s) + 1
    BY <1>3, <1>8
  <2> QED
    BY <2>2, <2>3, <2>4, <1>8 DEF ModulesWhole, Writing
<1>15. IsDelta(image, "run", more, module[b], ctx[b], linked[b])
  <2>1. Inner("run", more, module[b]) = child
    BY <1>8 DEF Inner, Writing
  <2>2. SUFFICES ASSUME child.linked
                 PROVE  DeltaOf(image, child, ctx[b], linked[b]) /\ child.direct
                        /\ \A i \in 1 .. Len(more) : more[i].linked /\ more[i].direct
    BY <2>1 DEF IsDelta
  <2>3. child.direct
    BY <2>2, <1>7
  <2>4. DeltaOf(image, child, ctx[b], linked[b])
    BY <2>3, <1>7, <1>10, <1>11 DEF DeltaOf
  <2>5. \A i \in 1 .. Len(more) : i \in 1 .. Len(s) \/ i = Len(s) + 1
    BY <1>3, <1>8
  <2>6. \A i \in 1 .. Len(more) : more[i].linked /\ more[i].direct
    BY <2>2, <2>3, <2>5, <1>8, <1>10
  <2> QED
    BY <2>3, <2>4, <2>6
<1> QED
  BY <1>2, <1>13, <1>14, <1>15 DEF BuildOK, Building

LEMMA BeginRootStep ==
  ASSUME IInv, NEW b \in Builders, BeginRoot(b)
  PROVE  BuildOK(b)'
<1> DEFINE none == <<>>
           root == ModuleOf(b, Root, none)
           more == <<root>>
<1>1. /\ pc[b] = "opened" /\ target[b] = Root /\ opened[b] \in Contents
      /\ ctx[b] = {} /\ linked[b] = {}
  BY DEF IInv, Core, BuildOK, Building, ShapeOK, Shape, BeginRoot, Writing
<1>2. /\ pc'[b] = "run" /\ target'[b] = target[b] /\ opened'[b] = opened[b] /\ module'[b] = module[b]
      /\ stack'[b] = more /\ ctx'[b] = {} /\ linked'[b] = {} /\ image' = image
  BY <1>1 DEF IInv, Core, TypeOK, BeginRoot, cacheVars
<1>3. none \in Seq(Module) /\ Root \in Sources /\ AllDirect(none)
  BY CacheAssumption DEF AllDirect
<1> HIDE DEF none
<1>4. Begun(b, Root, none, root)
  BY <1>3, ModuleOfIs DEF IInv
<1> HIDE DEF root
<1>5. /\ root.direct /\ root.linked /\ root.prefix = {} /\ root.base = {}
      /\ root \in Module /\ root.file = Root /\ Stamped(root, Root)
  BY <1>1, <1>3, <1>4 DEF Begun
<1>6. more # <<>> /\ Len(more) = 1 /\ more[1] = root /\ 1 .. Len(more) = {1} /\ more \in Seq(Module)
  BY <1>5
<1> HIDE DEF more
<1>8. EachNames("run", target[b], more, module[b], {}, {})
  BY DEF EachNames, Writing
<1>9. ModulesWhole("run", more, module[b])
  BY <1>4, <1>5, <1>6 DEF ModulesWhole, Whole, Writing
<1>10. IsDelta(image, "run", more, module[b], {}, {})
  BY <1>4, <1>5, <1>6 DEF IsDelta, Inner, DeltaOf, Writing
<1> QED
  BY <1>2, <1>8, <1>9, <1>10 DEF BuildOK, Building

-----------------------------------------------------------------------------
(* The innermost module goes on, and what is new is stamped in it. *)
LEMMA OnTopIsBuilding ==
  ASSUME IInv, NEW b \in Builders, stack[b] # <<>>, pc[b] \notin Writing,
         NEW m \in Module, Keeps(stack[b][Len(stack[b])], m), NEW p \in {"run", "enter"}, NEW t, NEW w,
         NEW defs \in SUBSET Definition, NEW links \in SUBSET Link,
         \A x \in (defs \cup links) \ (ctx[b] \cup linked[b]) : Stamped(m, x.file),
         m.linked => Last(stack[b]).linked /\ DeltaOf(image, m, defs, links)
  PROVE  Building(image, p, t, OnTop(stack[b], m), w, defs, links)
<1> DEFINE s == stack[b]
           more == OnTop(s, m)
<1>1. /\ s \in Seq(Module) /\ Len(s) \in Nat /\ Len(s) > 0 /\ Last(s) = s[Len(s)] /\ Last(s) \in Module
      /\ opened[b] \in Contents /\ \A i \in 1 .. Len(s) : s[i] \in Module
  BY NestedIs DEF IInv
<1>2. /\ AllKeep(s, more) /\ more \in Seq(Module) /\ Len(more) = Len(s) /\ more # <<>> /\ more[Len(s)] = m
      /\ \A i \in 1 .. Len(s) : i # Len(s) => more[i] = s[i]
  BY <1>1, TopKeeps
<1> HIDE DEF more
<1>3. p \notin Writing /\ p # "import" /\ p # "opened" /\ p # "idle"
  BY DEF Writing
<1>4. ASSUME NEW i \in 1 .. Len(s), NEW x \in defs \cup links
      PROVE  NamedFrom(p, more, w, i, x.file)
  <2>0. x.file \in Files
    BY DEF Definition, Link
  <2>1. CASE x \in ctx[b] \cup linked[b]
    <3>1. NamedFrom(pc[b], s, module[b], i, x.file)
      BY <2>1 DEF IInv, BuildOK, Building, EachNames
    <3> QED
      BY <3>1, <2>0, <1>1, <1>2, StillNamed
  <2>2. CASE x \notin ctx[b] \cup linked[b]
    <3>1. Stamped(more[Len(s)], x.file)
      BY <2>2, <1>2
    <3>2. Len(s) \in i .. Len(more)
      BY <1>1, <1>2
    <3> QED
      BY <3>1, <3>2 DEF NamedFrom
  <2> QED
    BY <2>1, <2>2
<1>5. EachNames(p, t, more, w, defs, links)
  BY <1>2, <1>3, <1>4 DEF EachNames
<1>6. ModulesWhole(p, more, w)
  <2>1. \A i \in 1 .. Len(s) : Whole(s[i])
    BY DEF IInv, BuildOK, Building, ModulesWhole
  <2>2. \A i \in 1 .. Len(s) : Whole(more[i])
    BY <2>1, <1>1, <1>2, StillWhole DEF AllKeep
  <2> QED
    BY <2>2, <1>2, <1>3 DEF ModulesWhole
<1>7. IsDelta(image, p, more, w, defs, links)
  <2>1. Inner(p, more, w) = m
    BY <1>2, <1>3 DEF Inner
  <2>2. SUFFICES ASSUME m.linked
                 PROVE  DeltaOf(image, m, defs, links) /\ m.direct
                        /\ \A i \in 1 .. Len(more) : more[i].linked /\ more[i].direct
    BY <2>1, <1>3 DEF IsDelta
  <2>3. Last(s).direct /\ \A i \in 1 .. Len(s) : s[i].linked /\ s[i].direct
    BY <2>2, InnerIs
  <2>4. m.direct
    BY <2>3, <1>1 DEF Keeps
  <2> QED
    BY <2>2, <2>3, <2>4, <1>2
<1> QED
  BY <1>5, <1>6, <1>7 DEF Building, more

LEMMA ReachStep ==
  ASSUME IInv, NEW b \in Builders, Reach(b)
  PROVE  BuildOK(b)'
<1> DEFINE s == stack[b]
           m == [Last(s) EXCEPT !.next = Last(s).next + 1]
           t == IncludesOf(Top(b))[Top(b).next]
<1>1. pc[b] = "run" /\ pc[b] \notin Writing /\ s # <<>>
  BY DEF Reach, Writing, IInv, Core, BuildOK, Building, ShapeOK, Shape
<1>2. /\ pc'[b] = "enter" /\ target'[b] = t /\ opened'[b] = opened[b] /\ module'[b] = module[b]
      /\ stack'[b] = OnTop(s, m) /\ ctx'[b] = ctx[b] /\ linked'[b] = linked[b] /\ image' = image
  <2>1. stack' = [stack EXCEPT ![b] = OnTop(@, m)] /\ stack \in [Builders -> Seq(Module)]
    BY DEF IInv, Core, TypeOK, Reach, Top
  <2>2. stack'[b] = OnTop(s, m)
    BY <2>1
  <2>3. /\ pc'[b] = "enter" /\ target'[b] = t /\ opened'[b] = opened[b] /\ module'[b] = module[b]
        /\ ctx'[b] = ctx[b] /\ linked'[b] = linked[b] /\ image' = image
    BY DEF IInv, Core, TypeOK, Reach, cacheVars
  <2> QED
    BY <2>2, <2>3
<1>3. /\ Last(s) = s[Len(s)] /\ Last(s) \in Module /\ ctx[b] \in SUBSET Definition /\ linked[b] \in SUBSET Link
  BY <1>1, NestedIs DEF IInv
<1>4. /\ m \in Module /\ m.file = Last(s).file /\ m.inputs = Last(s).inputs /\ m.prefix = Last(s).prefix
      /\ m.direct = Last(s).direct /\ m.deps = Last(s).deps /\ m.linked = Last(s).linked /\ m.base = Last(s).base
  BY <1>3 DEF Module
<1> HIDE DEF m
<1>5. Keeps(s[Len(s)], m)
  BY <1>3, <1>4 DEF Keeps, Stamped
<1>6. m.linked => Last(s).linked /\ DeltaOf(image, m, ctx[b], linked[b])
  <2>1. SUFFICES ASSUME Last(s).linked
                 PROVE  DeltaOf(image, m, ctx[b], linked[b])
    BY <1>4
  <2>2. DeltaOf(image, Last(s), ctx[b], linked[b])
    BY <2>1, <1>1, InnerIs
  <2> QED
    BY <2>2, <1>4 DEF DeltaOf
<1>7. Building(image, "enter", t, OnTop(s, m), module[b], ctx[b], linked[b])
  BY <1>1, <1>3, <1>4, <1>5, <1>6, OnTopIsBuilding
<1> QED
  BY <1>2, <1>7 DEF BuildOK

(* A declaration of the innermost module's own file. *)
LEMMA DefinedIs ==
  ASSUME NEW defs \in SUBSET Definition, NEW f \in Files, NEW c \in Contents
  PROVE  /\ Define(defs, f, c) \in SUBSET Definition
         /\ \A x \in Define(defs, f, c) : x \in defs \/ x.file = f
<1> DEFINE new == [file |-> f, content |-> c, over |-> Visible(defs)]
<1>1. Visible(defs) \in SUBSET (Files \X Contents)
  BY DEF Visible, Definition
<1>2. new \in Definition /\ new.file = f
  BY <1>1 DEF Definition
<1>3. Define(defs, f, c) = defs \cup {new}
  BY DEF Define
<1> HIDE DEF new
<1> QED
  BY <1>2, <1>3

LEMMA ReadStep ==
  ASSUME IInv, NEW b \in Builders, Read(b)
  PROVE  BuildOK(b)'
<1> DEFINE s == stack[b]
           f == Last(s).file
           c == IF scene.replaces /\ Len(s) = 1 THEN opened[b] ELSE disk[f]
           m == [Last(s) EXCEPT !.content = c]
           defs == IF f \in scene.declaresFirst THEN Define(ctx[b], f, c) ELSE ctx[b]
<1>1. pc[b] = "run" /\ pc[b] \notin Writing /\ s # <<>>
  BY DEF Read, Writing, IInv, Core, BuildOK, Building, ShapeOK, Shape
<1>2. /\ pc'[b] = "run" /\ target'[b] = target[b] /\ opened'[b] = opened[b] /\ module'[b] = module[b]
      /\ stack'[b] = OnTop(s, m) /\ ctx'[b] = defs /\ linked'[b] = linked[b] /\ image' = image
  BY <1>1 DEF IInv, Core, TypeOK, Read, Top, cacheVars
<1>3. /\ Last(s) = s[Len(s)] /\ Last(s) \in Module /\ ctx[b] \in SUBSET Definition /\ linked[b] \in SUBSET Link
      /\ opened[b] \in Contents /\ Len(s) \in Nat /\ Len(s) > 0
  BY <1>1, NestedIs DEF IInv
<1>4. f \in Sources /\ f \in Files /\ c \in Contents
  BY <1>3 DEF Module, Files, IInv, Core, TypeOK
<1> HIDE DEF c
<1>5. /\ m \in Module /\ m.file = f /\ m.inputs = Last(s).inputs /\ m.prefix = Last(s).prefix
      /\ m.direct = Last(s).direct /\ m.deps = Last(s).deps /\ m.linked = Last(s).linked /\ m.base = Last(s).base
  BY <1>3, <1>4 DEF Module
<1> HIDE DEF m
<1>6. Keeps(s[Len(s)], m)
  BY <1>3, <1>5 DEF Keeps, Stamped
<1>7. defs \in SUBSET Definition /\ \A x \in defs : x \in ctx[b] \/ x.file = f
  BY <1>3, <1>4, DefinedIs
<1> HIDE DEF defs
<1>8. Stamped(m, f)
  <2>1. Whole(s[Len(s)])
    BY <1>3 DEF IInv, BuildOK, Building, ModulesWhole
  <2> QED
    BY <2>1, <1>3, <1>5 DEF Whole, Stamped
<1>9. m.linked => Last(s).linked /\ DeltaOf(image, m, defs, linked[b])
  <2>1. SUFFICES ASSUME Last(s).linked
                 PROVE  DeltaOf(image, m, defs, linked[b])
    BY <1>5
  <2>2. DeltaOf(image, Last(s), ctx[b], linked[b])
    BY <2>1, <1>1, InnerIs
  <2> QED
    BY <2>2, <1>5, <1>7 DEF DeltaOf
<1>10. \A x \in (defs \cup linked[b]) \ (ctx[b] \cup linked[b]) : Stamped(m, x.file)
  BY <1>7, <1>8
<1>11. Building(image, "run", target[b], OnTop(s, m), module[b], defs, linked[b])
  BY <1>1, <1>3, <1>5, <1>6, <1>7, <1>9, <1>10, OnTopIsBuilding
<1> QED
  BY <1>2, <1>11 DEF BuildOK

LEMMA LoadImportStep ==
  ASSUME IInv, NEW b \in Builders, LoadImport(b)
  PROVE  BuildOK(b)'
<1> DEFINE s == stack[b]
           l == target[b]
           link == [file |-> l, id |-> disk[l]]
           state == IF link \in linked[b] THEN ctx[b] ELSE Import(ctx[b], l, disk[l])
           m == After(Last(s), state)
           links == linked[b] \cup {link}
<1>1. pc[b] = "import" /\ pc[b] \notin Writing /\ s # <<>> /\ l \in Libraries
  BY DEF LoadImport, Writing, IInv, Core, BuildOK, Building, ShapeOK, Shape
<1>2. /\ pc'[b] = "run" /\ target'[b] = l /\ opened'[b] = opened[b] /\ module'[b] = module[b]
      /\ stack'[b] = OnTop(s, m) /\ ctx'[b] = state /\ linked'[b] = links /\ image' = image
  BY DEF IInv, Core, TypeOK, LoadImport, cacheVars
<1>3. /\ Last(s) = s[Len(s)] /\ Last(s) \in Module /\ ctx[b] \in SUBSET Definition /\ linked[b] \in SUBSET Link
      /\ Len(s) \in Nat /\ Len(s) > 0
  BY <1>1, NestedIs DEF IInv
<1>4. l \in Files /\ disk[l] \in Contents /\ disk[l] \in Nat /\ l \notin Sources
  BY <1>1, CacheAssumption DEF Files, IInv, Core, TypeOK
<1>5. link \in Link /\ link.file = l /\ links \in SUBSET Link
  BY <1>3, <1>4 DEF Link
<1>6. state \in SUBSET Definition /\ \A x \in state : x \in ctx[b] \/ x.file = l
  <2> DEFINE new == [file |-> l, content |-> disk[l], over |-> {}]
  <2>1. new \in Definition /\ new.file = l
    BY <1>4 DEF Definition
  <2>2. state = ctx[b] \/ state = ctx[b] \cup {new}
    BY DEF Import
  <2> HIDE DEF new
  <2> QED
    BY <2>1, <2>2, <1>3
<1> HIDE DEF link, state
<1>7. /\ m \in Module /\ m.file = Last(s).file /\ m.inputs = Last(s).inputs /\ m.prefix = Last(s).prefix
      /\ m.direct = Last(s).direct /\ m.deps = Last(s).deps /\ m.linked = Last(s).linked /\ m.base = state
  BY <1>3, <1>6 DEF Module, After
<1> HIDE DEF m
<1>8. Keeps(s[Len(s)], m)
  BY <1>3, <1>7 DEF Keeps, Stamped
<1>9. Stamped(m, l)
  <2>1. Stamped(s[Len(s)], l)
    BY <1>1, <1>3 DEF IInv, BuildOK, Building, EachNames
  <2> QED
    BY <2>1, <1>3, <1>7 DEF Stamped
<1>10. m.linked => Last(s).linked /\ DeltaOf(image, m, state, links)
  <2>1. SUFFICES ASSUME Last(s).linked
                 PROVE  DeltaOf(image, m, state, links)
    BY <1>7
  <2>2. DeltaOf(image, Last(s), ctx[b], linked[b]) /\ ctx[b] = Last(s).base
    BY <2>1, <1>1, InnerIs
  <2>3. \A x \in state : \E k \in links : k.file = x.file
    <3>1. SUFFICES ASSUME NEW x \in state
                   PROVE  \E k \in links : k.file = x.file
      OBVIOUS
    <3>2. CASE x \in ctx[b]
      BY <3>2, <2>2 DEF DeltaOf
    <3>3. CASE x.file = l
      BY <3>3, <1>5
    <3> QED
      BY <3>2, <3>3, <1>6
  <2>4. Pure(image, link)
    BY <1>4, <1>5 DEF Pure
  <2> QED
    BY <2>2, <2>3, <2>4, <1>7 DEF DeltaOf
<1>11. \A x \in (state \cup links) \ (ctx[b] \cup linked[b]) : Stamped(m, x.file)
  BY <1>5, <1>6, <1>9
<1> HIDE DEF links
<1>12. Building(image, "run", l, OnTop(s, m), module[b], state, links)
  BY <1>1, <1>3, <1>5, <1>6, <1>7, <1>8, <1>10, <1>11, OnTopIsBuilding
<1> QED
  BY <1>2, <1>12 DEF BuildOK

(* A stamp is added to a module. *)
StampedAs(m, l, more) ==
  /\ more \in Module /\ Keeps(m, more) /\ Stamped(more, l)
  /\ more.linked = m.linked /\ more.base = m.base

LEMMA StampedIs ==
  ASSUME NEW m \in Module, NEW l \in Files, NEW c \in Contents
  PROVE  StampedAs(m, l, [m EXCEPT !.deps[l] = c])
<1> DEFINE deps == [m.deps EXCEPT ![l] = c]
           more == [m EXCEPT !.deps[l] = c]
<1>1. m.deps \in Stamps /\ c # NoContent
  BY CacheAssumption DEF Module
<1>2. deps \in Stamps /\ deps[l] = c /\ \A g \in Files : m.deps[g] # NoContent => deps[g] # NoContent
  BY <1>1 DEF Stamps
<1>3. more = [m EXCEPT !.deps = deps]
  OBVIOUS
<1> HIDE DEF deps, more
<1>4. more = [file |-> m.file, stamp |-> m.stamp, deps |-> deps, inputs |-> m.inputs, base |-> m.base,
              prefix |-> m.prefix, linked |-> m.linked, direct |-> m.direct, content |-> m.content, next |-> m.next]
  BY <1>3 DEF Module
<1>5. more \in Module
  BY <1>2, <1>4 DEF Module
<1>6. /\ more.file = m.file /\ more.inputs = m.inputs /\ more.prefix = m.prefix /\ more.direct = m.direct
      /\ more.linked = m.linked /\ more.base = m.base /\ more.deps = deps
  BY <1>4
<1>7. Keeps(m, more) /\ Stamped(more, l)
  BY <1>1, <1>2, <1>6 DEF Keeps, Stamped
<1>8. StampedAs(m, l, more)
  BY <1>5, <1>6, <1>7 DEF StampedAs
<1> QED
  BY <1>8 DEF more

LEMMA BeginImportStep ==
  ASSUME IInv, NEW b \in Builders, BeginImport(b)
  PROVE  BuildOK(b)'
<1> DEFINE s == stack[b]
           l == target[b]
           stamped == [i \in DOMAIN s |-> [s[i] EXCEPT !.deps[l] = disk[l]]]
           m == Before(Last(stamped), ctx[b])
           more == OnTop(stamped, m)
<1>1. pc[b] = "enter" /\ pc[b] \notin Writing /\ l \in Libraries /\ s # <<>>
  <2>1. pc[b] = "enter" /\ pc[b] \notin Writing /\ l \in Libraries
    BY DEF BeginImport, Writing
  <2>2. s = <<>> => l = Root
    BY <2>1 DEF IInv, Core, BuildOK, Building, ShapeOK, Shape
  <2> QED
    BY <2>1, <2>2, CacheAssumption
<1>2. /\ pc'[b] = "import" /\ target'[b] = l /\ opened'[b] = opened[b] /\ module'[b] = module[b]
      /\ stack'[b] = more /\ ctx'[b] = ctx[b] /\ linked'[b] = linked[b] /\ image' = image
  BY DEF IInv, Core, TypeOK, BeginImport, cacheVars
<1>3. /\ s \in Seq(Module) /\ Last(s) = s[Len(s)] /\ Last(s) \in Module
      /\ opened[b] \in Contents /\ Len(s) \in Nat /\ Len(s) > 0 /\ \A i \in 1 .. Len(s) : s[i] \in Module
      /\ \A x \in ctx[b] \cup linked[b] : x.file \in Files
  BY <1>1, NestedIs DEF IInv
<1>4. l \in Files /\ disk[l] \in Contents /\ disk[l] # NoContent
  BY <1>1, CacheAssumption DEF Files, IInv, Core, TypeOK
<1>5. ASSUME NEW i \in 1 .. Len(s)
      PROVE  /\ stamped[i] \in Module /\ Keeps(s[i], stamped[i]) /\ Stamped(stamped[i], l)
             /\ stamped[i].linked = s[i].linked /\ stamped[i].base = s[i].base
  <2>1. stamped[i] = [s[i] EXCEPT !.deps[l] = disk[l]] /\ s[i] \in Module
    BY <1>3
  <2>2. StampedAs(s[i], l, stamped[i])
    BY <2>1, <1>4, StampedIs
  <2> QED
    BY <2>2 DEF StampedAs
<1>6. stamped \in Seq(Module) /\ Len(stamped) = Len(s) /\ stamped # <<>>
  <2>1. DOMAIN s = 1 .. Len(s)
    BY <1>3
  <2>2. stamped \in [1 .. Len(s) -> Module]
    BY <2>1, <1>5
  <2> HIDE DEF stamped
  <2>3. stamped \in Seq(Module) /\ Len(stamped) = Len(s)
    BY <2>2, <1>3
  <2> QED
    BY <2>3, <1>3
<1> HIDE DEF stamped
<1>7. Last(stamped) = stamped[Len(s)] /\ Last(stamped) \in Module
  BY <1>6, LastIs
<1>8. /\ m \in Module /\ m.linked = (Last(stamped).linked /\ ctx[b] = Last(stamped).base)
      /\ m.file = Last(stamped).file /\ m.deps = Last(stamped).deps /\ m.inputs = Last(stamped).inputs
      /\ m.prefix = Last(stamped).prefix /\ m.direct = Last(stamped).direct /\ m.base = Last(stamped).base
  BY <1>7, BeforeIs
<1> HIDE DEF m
<1>9. /\ more \in Seq(Module) /\ Len(more) = Len(s) /\ more # <<>> /\ more[Len(s)] = m
      /\ \A i \in 1 .. Len(s) : i # Len(s) => more[i] = stamped[i]
  <2>1. Keeps(stamped[Len(stamped)], m)
    BY <1>6, <1>7, <1>8 DEF Keeps, Stamped
  <2> QED
    BY <2>1, <1>6, <1>8, TopKeeps
<1> HIDE DEF more
<1>10. ASSUME NEW i \in 1 .. Len(s)
       PROVE  Keeps(s[i], more[i]) /\ Stamped(more[i], l)
  <2>1. CASE i = Len(s)
    <3>1. Keeps(s[i], stamped[i]) /\ Stamped(stamped[i], l)
      BY <1>5
    <3> QED
      BY <3>1, <2>1, <1>7, <1>8, <1>9 DEF Keeps, Stamped
  <2>2. CASE i # Len(s)
    BY <2>2, <1>5, <1>9
  <2> QED
    BY <2>1, <2>2
<1>11. AllKeep(s, more)
  BY <1>9, <1>10 DEF AllKeep
<1>12. ASSUME NEW i \in 1 .. Len(s), NEW x \in ctx[b] \cup linked[b]
       PROVE  NamedFrom("import", more, module[b], i, x.file)
  <2>1. NamedFrom(pc[b], s, module[b], i, x.file)
    BY DEF IInv, BuildOK, Building, EachNames
  <2> QED
    BY <2>1, <1>1, <1>3, <1>9, <1>11, StillNamed
<1>13. EachNames("import", l, more, module[b], ctx[b], linked[b])
  BY <1>9, <1>10, <1>12 DEF EachNames, Writing
<1>14. ModulesWhole("import", more, module[b])
  <2>1. \A i \in 1 .. Len(s) : Whole(s[i])
    BY DEF IInv, BuildOK, Building, ModulesWhole
  <2>2. \A i \in 1 .. Len(s) : Whole(more[i])
    BY <2>1, <1>3, <1>10, StillWhole
  <2> QED
    BY <2>2, <1>9 DEF ModulesWhole, Writing
<1>15. IsDelta(image, "import", more, module[b], ctx[b], linked[b])
  <2>1. Inner("import", more, module[b]) = m
    BY <1>9 DEF Inner, Writing
  <2>2. SUFFICES ASSUME m.linked
                 PROVE  DeltaOf(image, m, ctx[b], linked[b]) /\ m.direct
                        /\ (\A i \in 1 .. Len(more) : more[i].linked /\ more[i].direct)
                        /\ ctx[b] = m.base
    BY <2>1 DEF IsDelta
  <2>3. Last(s).linked /\ ctx[b] = Last(s).base
    <3>1. Len(s) \in 1 .. Len(s)
      BY <1>3
    <3>2. stamped[Len(s)].linked = Last(s).linked /\ stamped[Len(s)].base = Last(s).base
      BY <3>1, <1>3, <1>5
    <3>3. Last(stamped).linked /\ ctx[b] = Last(stamped).base
      BY <2>2, <1>8
    <3> QED
      BY <3>2, <3>3, <1>7
  <2>4. DeltaOf(image, Last(s), ctx[b], linked[b]) /\ Last(s).direct
        /\ \A i \in 1 .. Len(s) : s[i].linked /\ s[i].direct
    BY <2>3, <1>1, InnerIs
  <2>5. m.file = Last(s).file /\ m.base = Last(s).base /\ m.direct = Last(s).direct
    BY <1>3, <1>5, <1>7, <1>8 DEF Keeps
  <2>6. DeltaOf(image, m, ctx[b], linked[b])
    BY <2>4, <2>5 DEF DeltaOf
  <2>7. \A i \in 1 .. Len(s) : stamped[i].linked /\ stamped[i].direct
    BY <2>4, <1>5 DEF Keeps
  <2>8. \A i \in 1 .. Len(more) : more[i].linked /\ more[i].direct
    BY <2>2, <2>4, <2>5, <2>7, <1>9
  <2> QED
    BY <2>3, <2>4, <2>5, <2>6, <2>8
<1> QED
  BY <1>2, <1>13, <1>14, <1>15 DEF BuildOK, Building

-----------------------------------------------------------------------------
(* The innermost module leaves the stack and is written back. *)
LEMMA FinishStep ==
  ASSUME IInv, NEW b \in Builders, Finish(b)
  PROVE  BuildOK(b)'
<1> DEFINE s == stack[b]
           top == Last(s)
           f == top.file
           m == IF Len(s) = 1 THEN [top EXCEPT !.deps[f] = disk[f]] ELSE top
           defs == IF f \in scene.declaresFirst THEN ctx[b] ELSE Define(ctx[b], f, top.content)
           more == Front(s)
<1>1. pc[b] = "run" /\ pc[b] \notin Writing /\ s # <<>> /\ top.content # NoContent
  BY DEF Finish, Top, Writing, IInv, Core, BuildOK, Building, ShapeOK, Shape
<1>2. /\ pc'[b] = "write" /\ target'[b] = target[b] /\ opened'[b] = opened[b] /\ module'[b] = m
      /\ stack'[b] = more /\ ctx'[b] = defs /\ linked'[b] = linked[b] /\ image' = image
  BY DEF IInv, Core, TypeOK, Finish, Top, cacheVars
<1>3. /\ s \in Seq(Module) /\ top = s[Len(s)] /\ top \in Module /\ ctx[b] \in SUBSET Definition
      /\ linked[b] \in SUBSET Link /\ \A i \in 1 .. Len(s) : s[i] \in Module
      /\ opened[b] \in Contents /\ Len(s) \in Nat /\ Len(s) > 0
      /\ \A x \in ctx[b] \cup linked[b] : x.file \in Files
  BY <1>1, NestedIs DEF IInv
<1>4. f \in Sources /\ f \in Files /\ disk[f] \in Contents /\ top.content \in Contents
  BY <1>1, <1>3 DEF Module, Files, IInv, Core, TypeOK
<1>5. m \in Module /\ Keeps(top, m) /\ m.linked = top.linked /\ m.base = top.base
  <2>1. CASE Len(s) = 1
    <3>1. StampedAs(top, f, m)
      BY <2>1, <1>3, <1>4, StampedIs
    <3> QED
      BY <3>1 DEF StampedAs
  <2>2. CASE Len(s) # 1
    BY <2>2, <1>3 DEF Keeps
  <2> QED
    BY <2>1, <2>2
<1>6. defs \in SUBSET Definition /\ \A x \in defs : x \in ctx[b] \/ x.file = f
  BY <1>3, <1>4, DefinedIs
<1> HIDE DEF m, defs
<1>7. /\ more \in Seq(Module) /\ Len(more) = Len(s) - 1 /\ \A i \in 1 .. Len(s) - 1 : more[i] = s[i]
  BY <1>1, <1>3, FrontIs
<1> HIDE DEF more
<1>8. m.file = f /\ Stamped(m, f) /\ Whole(m)
  <2>1. Whole(s[Len(s)])
    BY <1>3 DEF IInv, BuildOK, Building, ModulesWhole
  <2>2. Whole(m)
    BY <2>1, <1>3, <1>5, StillWhole
  <2> QED
    BY <2>2, <1>5 DEF Whole, Keeps
<1>9. ASSUME NEW i \in 1 .. Len(s), NEW x \in defs \cup linked[b]
      PROVE  Named(s[i], x.file) \/ (\E j \in i .. Len(s) - 1 : Stamped(s[j], x.file)) \/ Stamped(m, x.file)
  <2>1. CASE x \in ctx[b] \cup linked[b]
    <3>1. NamedFrom(pc[b], s, module[b], i, x.file)
      BY <2>1 DEF IInv, BuildOK, Building, EachNames
    <3>2. Named(s[i], x.file) \/ \E j \in i .. Len(s) : Stamped(s[j], x.file)
      BY <3>1, <1>1 DEF NamedFrom
    <3>3. ASSUME NEW j \in i .. Len(s), Stamped(s[j], x.file)
          PROVE  j \in i .. Len(s) - 1 \/ Stamped(m, x.file)
      <4>1. CASE j = Len(s)
        BY <4>1, <3>3, <2>1, <1>3, <1>5 DEF Keeps
      <4>2. CASE j # Len(s)
        BY <4>2, <3>3, <1>3
      <4> QED
        BY <4>1, <4>2
    <3> QED
      BY <3>2, <3>3
  <2>2. CASE x.file = f
    BY <2>2, <1>8
  <2> QED
    BY <2>1, <2>2, <1>6
<1>10. \A x \in defs \cup linked[b] : Named(m, x.file)
  <2>1. SUFFICES ASSUME NEW x \in defs \cup linked[b]
                 PROVE  Named(m, x.file)
    OBVIOUS
  <2>2. x.file \in Files
    BY <1>3, <1>6 DEF Definition, Link
  <2>3. Len(s) \in 1 .. Len(s) /\ Len(s) .. Len(s) - 1 = {}
    BY <1>3
  <2>4. Named(s[Len(s)], x.file) \/ Stamped(m, x.file)
    BY <2>3, <1>9
  <2> QED
    BY <2>2, <2>4, <1>3, <1>5 DEF Named, Keeps
<1>11. \A i \in 1 .. Len(more) : \A x \in defs \cup linked[b] : NamedFrom("write", more, m, i, x.file)
  <2>1. SUFFICES ASSUME NEW i \in 1 .. Len(more), NEW x \in defs \cup linked[b]
                 PROVE  NamedFrom("write", more, m, i, x.file)
    OBVIOUS
  <2>2. i \in 1 .. Len(s) /\ more[i] = s[i] /\ \A j \in i .. Len(s) - 1 : more[j] = s[j]
    BY <1>3, <1>7
  <2>3. Named(s[i], x.file) \/ (\E j \in i .. Len(s) - 1 : Stamped(s[j], x.file)) \/ Stamped(m, x.file)
    BY <2>2, <1>9
  <2> QED
    BY <2>2, <2>3, <1>7 DEF NamedFrom, Writing
<1>12. EachNames("write", target[b], more, m, defs, linked[b])
  BY <1>10, <1>11 DEF EachNames
<1>13. ModulesWhole("write", more, m)
  <2>1. \A i \in 1 .. Len(s) : Whole(s[i])
    BY DEF IInv, BuildOK, Building, ModulesWhole
  <2>2. \A i \in 1 .. Len(more) : Whole(more[i])
    BY <2>1, <1>3, <1>7
  <2> QED
    BY <2>2, <1>8 DEF ModulesWhole
<1>14. IsDelta(image, "write", more, m, defs, linked[b])
  <2>1. Inner("write", more, m) = m
    BY DEF Inner, Writing
  <2>2. SUFFICES ASSUME m.linked
                 PROVE  DeltaOf(image, m, defs, linked[b]) /\ m.direct
                        /\ \A i \in 1 .. Len(more) : more[i].linked /\ more[i].direct
    BY <2>1 DEF IsDelta
  <2>3. DeltaOf(image, top, ctx[b], linked[b]) /\ top.direct
        /\ \A i \in 1 .. Len(s) : s[i].linked /\ s[i].direct
    BY <2>2, <1>1, <1>5, InnerIs
  <2>4. DeltaOf(image, m, defs, linked[b])
    BY <2>3, <1>5, <1>6, <1>8 DEF DeltaOf
  <2>5. m.direct
    BY <2>3, <1>5 DEF Keeps
  <2>6. \A i \in 1 .. Len(more) : more[i].linked /\ more[i].direct
    BY <2>3, <1>3, <1>7
  <2> QED
    BY <2>4, <2>5, <2>6
<1> QED
  BY <1>2, <1>12, <1>13, <1>14 DEF BuildOK, Building

(* A write-back goes on, whatever it has reached. *)
LEMMA WritingStep ==
  ASSUME NEW images, NEW p \in Writing, NEW q \in Writing, NEW t, NEW s, NEW m, NEW defs, NEW links,
         Building(images, p, t, s, m, defs, links)
  PROVE  Building(images, q, t, s, m, defs, links)
<1>1. q # "run" /\ q # "import" /\ q # "opened" /\ q # "idle" /\ q # "enter"
      /\ p # "run" /\ p # "import" /\ p # "opened" /\ p # "idle" /\ p # "enter"
  BY DEF Writing
<1>3. EachNames(q, t, s, m, defs, links)
  BY <1>1 DEF Building, EachNames, NamedFrom
<1>4. ModulesWhole(q, s, m)
  BY DEF Building, ModulesWhole
<1>5. IsDelta(images, q, s, m, defs, links)
  BY <1>1 DEF Building, IsDelta, Inner
<1> QED
  BY <1>3, <1>4, <1>5 DEF Building

(* The manifest is in place: the context links the new image, and the       *)
(* parent takes over its dependencies.                                      *)
LEMMA SwapManifestStep ==
  ASSUME IInv, NEW b \in Builders, SwapManifest(b)
  PROVE  BuildOK(b)'
<1> DEFINE s == stack[b]
           m == module[b]
           own == [file |-> m.file, id |-> fresh[b].id]
           links == linked[b] \cup {own}
           top == Absorb(Last(s), m.deps, m.linked, ctx[b])
           more == OnTop(s, top)
<1>1. pc[b] = "swapManifest" /\ pc[b] \in Writing /\ pc[b] \in Swapping /\ image' = image
  BY DEF SwapManifest, Writing, Swapping
<1>2. CASE ~Nested(b)
  <2>1. Leave(b)
    BY <1>2 DEF SwapManifest
  <2> QED
    BY <2>1, LeaveStep
<1>3. CASE Nested(b)
  <2>1. s # <<>>
    BY <1>3 DEF Nested
  <2>2. /\ pc'[b] = "run" /\ target'[b] = target[b] /\ opened'[b] = opened[b] /\ module'[b] = NoModule
        /\ stack'[b] = more /\ ctx'[b] = ctx[b] /\ linked'[b] = links
    BY <1>3 DEF IInv, Core, TypeOK, SwapManifest
  <2>3. /\ s \in Seq(Module) /\ Last(s) = s[Len(s)] /\ Last(s) \in Module /\ ctx[b] \in SUBSET Definition
        /\ linked[b] \in SUBSET Link /\ \A i \in 1 .. Len(s) : s[i] \in Module
        /\ opened[b] \in Contents /\ Len(s) \in Nat /\ Len(s) > 0
        /\ \A x \in ctx[b] \cup linked[b] : x.file \in Files
    BY <2>1, NestedIs DEF IInv
  <2>4. m \in Module /\ Whole(m) /\ Stamped(m, m.file)
    BY <1>1 DEF IInv, Core, BuildOK, Building, ShapeOK, Shape, ModulesWhole, Whole
  <2>5. m.file \in Sources /\ m.file \in Files /\ m.deps \in Stamps /\ m.linked \in BOOLEAN
    BY <2>4 DEF Module, Files
  <2>6. fresh[b] \in Image /\ image[m.file] = fresh[b] /\ Described(image, fresh[b], m, m.file)
    BY <1>1 DEF IInv, Core, FreshIds, FreshOf, ImagesDescribed
  <2>7. /\ top \in Module /\ top.linked = (Last(s).linked /\ m.linked)
        /\ top.deps = Merge(Last(s).deps, m.deps) /\ top.file = Last(s).file /\ top.inputs = Last(s).inputs
        /\ top.prefix = Last(s).prefix /\ top.direct = Last(s).direct /\ top.base = ctx[b]
    BY <2>3, <2>5, AbsorbIs
  <2> HIDE DEF top
  <2>8. Keeps(s[Len(s)], top)
    BY <2>3, <2>7, MergeStamps DEF Keeps, Stamped
  <2>9. \A g \in Files : Stamped(m, g) => Stamped(top, g)
    BY <2>7, MergeStamps DEF Stamped
  <2>10. /\ AllKeep(s, more) /\ more \in Seq(Module) /\ Len(more) = Len(s) /\ more # <<>> /\ more[Len(s)] = top
         /\ \A i \in 1 .. Len(s) : i # Len(s) => more[i] = s[i]
    BY <2>1, <2>3, <2>7, <2>8, TopKeeps
  <2> HIDE DEF more
  <2>11. own.file = m.file /\ links = linked[b] \cup {own}
    OBVIOUS
  <2> HIDE DEF own, links
  <2>12. ASSUME NEW i \in 1 .. Len(s), NEW g \in Files, Stamped(m, g)
         PROVE  NamedFrom("run", more, NoModule, i, g)
    <3>1. Stamped(more[Len(s)], g)
      BY <2>9, <2>10, <2>12
    <3>2. Len(s) \in i .. Len(more)
      BY <2>3, <2>10
    <3> QED
      BY <3>1, <3>2 DEF NamedFrom
  <2>13. ASSUME NEW i \in 1 .. Len(s), NEW x \in ctx[b] \cup links
         PROVE  NamedFrom("run", more, NoModule, i, x.file)
    <3>1. CASE x \in ctx[b] \cup linked[b]
      <4>1. NamedFrom(pc[b], s, m, i, x.file) /\ x.file \in Files
        BY <3>1, <2>3 DEF IInv, BuildOK, Building, EachNames
      <4>2. CASE Stamped(m, x.file)
        BY <4>1, <4>2, <2>12
      <4>3. CASE ~Stamped(m, x.file)
        <5>1. NamedFrom("run", s, m, i, x.file)
          BY <4>1, <4>3 DEF NamedFrom
        <5>2. "run" \notin Writing
          BY DEF Writing
        <5> QED
          BY <4>1, <5>1, <5>2, <2>3, <2>10, StillNamed
      <4> QED
        BY <4>2, <4>3
    <3>2. CASE x = own
      BY <3>2, <2>4, <2>5, <2>11, <2>12
    <3> QED
      BY <3>1, <3>2, <2>11
  <2>14. EachNames("run", target[b], more, NoModule, ctx[b], links)
    BY <2>10, <2>13 DEF EachNames, Writing
  <2>15. ModulesWhole("run", more, NoModule)
    <3>1. \A i \in 1 .. Len(s) : Whole(s[i])
      BY DEF IInv, BuildOK, Building, ModulesWhole
    <3>2. \A i \in 1 .. Len(s) : Whole(more[i])
      BY <3>1, <2>3, <2>10, StillWhole DEF AllKeep
    <3> QED
      BY <3>2, <2>10 DEF ModulesWhole, Writing
  <2>16. IsDelta(image, "run", more, NoModule, ctx[b], links)
    <3>1. Inner("run", more, NoModule) = top
      BY <2>10 DEF Inner, Writing
    <3>2. SUFFICES ASSUME top.linked
                   PROVE  DeltaOf(image, top, ctx[b], links) /\ top.direct
                          /\ \A i \in 1 .. Len(more) : more[i].linked /\ more[i].direct
      BY <3>1 DEF IsDelta
    <3>3. Last(s).linked /\ m.linked
      BY <3>2, <2>7
    <3>4. DeltaOf(image, m, ctx[b], linked[b]) /\ \A i \in 1 .. Len(s) : s[i].linked /\ s[i].direct
      <4>1. IsDelta(image, pc[b], s, m, ctx[b], linked[b]) /\ Inner(pc[b], s, m) = m
        BY <1>1 DEF IInv, BuildOK, Building, Inner
      <4> QED
        BY <4>1, <3>3, <1>1 DEF IsDelta
    <3>5. \A x \in ctx[b] : \E l \in links : l.file = x.file
      BY <3>4, <2>11 DEF DeltaOf
    <3>6. Pure(image, own)
      <4>1. \A x \in fresh[b].defs : x.file = m.file
        BY <3>3, <2>6 DEF Described, DeltaOf
      <4> QED
        BY <4>1, <2>6, <2>11 DEF Pure
    <3>7. DeltaOf(image, top, ctx[b], links)
      BY <3>4, <3>5, <3>6, <2>7, <2>11 DEF DeltaOf
    <3>8. top.direct
      BY <3>4, <2>3, <2>7
    <3>9. \A i \in 1 .. Len(more) : more[i].linked /\ more[i].direct
      BY <3>2, <3>4, <3>8, <2>10
    <3> QED
      BY <3>7, <3>8, <3>9
  <2>18. Building(image, "run", target[b], more, NoModule, ctx[b], links)
    BY <2>14, <2>15, <2>16 DEF Building
  <2> QED
    BY <2>2, <2>18, <1>1 DEF BuildOK
<1> QED
  BY <1>2, <1>3

-----------------------------------------------------------------------------
(* What a builder has, step by step. *)
LEMMA LeaveShape ==
  ASSUME Core, NEW b \in Builders, Leave(b)
  PROVE  ShapeOK(b)'
<1>1. pc'[b] = "idle" /\ stack'[b] = <<>> /\ ctx'[b] = {} /\ linked'[b] = {}
  BY DEF Core, TypeOK, Leave
<1> QED
  BY <1>1 DEF ShapeOK, Shape, Writing

LEMMA OnTopTypes ==
  ASSUME NEW s \in Seq(Module), s # <<>>, NEW m \in Module
  PROVE  OnTop(s, m) \in Seq(Module) /\ OnTop(s, m) # <<>>
BY OnTopIs

LEMMA StampedStack ==
  ASSUME NEW s \in Seq(Module), NEW f \in Files, NEW c \in Contents
  PROVE  /\ [i \in DOMAIN s |-> [s[i] EXCEPT !.deps[f] = c]] \in Seq(Module)
         /\ Len([i \in DOMAIN s |-> [s[i] EXCEPT !.deps[f] = c]]) = Len(s)
<1> DEFINE stamped == [i \in DOMAIN s |-> [s[i] EXCEPT !.deps[f] = c]]
<1>1. DOMAIN s = 1 .. Len(s) /\ Len(s) \in Nat
  OBVIOUS
<1>2. ASSUME NEW i \in 1 .. Len(s)
      PROVE  stamped[i] \in Module
  <2>1. stamped[i] = [s[i] EXCEPT !.deps[f] = c] /\ s[i] \in Module
    BY <1>1
  <2>2. StampedAs(s[i], f, stamped[i])
    BY <2>1, StampedIs
  <2> QED
    BY <2>2 DEF StampedAs
<1>3. stamped \in [1 .. Len(s) -> Module]
  BY <1>1, <1>2
<1> HIDE DEF stamped
<1>4. stamped \in Seq(Module) /\ Len(stamped) = Len(s)
  BY <1>1, <1>3
<1> QED
  BY <1>4 DEF stamped

LEMMA NestedShape ==
  ASSUME Core, NEW b \in Builders, Hit(b) \/ Miss(b) \/ BeginImport(b)
  PROVE  ShapeOK(b)'
<1> DEFINE s == stack[b]
           f == target[b]
           before == Before(Last(s), ctx[b])
<1>1. pc[b] = "enter" /\ s # <<>>
  <2>1. pc[b] = "enter" /\ (~BeginImport(b) => s # <<>>) /\ (BeginImport(b) => f \in Libraries)
    BY DEF Hit, Miss, BeginImport, Entering, Nested
  <2>2. s = <<>> => f = Root
    BY <2>1 DEF Core, ShapeOK, Shape
  <2> QED
    BY <2>1, <2>2, CacheAssumption
<1>2. /\ s \in Seq(Module) /\ Last(s) \in Module /\ ctx[b] \in SUBSET Definition /\ linked[b] \in SUBSET Link
      /\ opened[b] \in Contents
  BY <1>1, NestedIs
<1>3. before \in Module
  BY <1>2, BeforeIs
<1>4. CASE Hit(b)
  <2> DEFINE state == Loaded(b, f)
             top == Absorb(before, manifest[f].deps, manifest[f].linked, state)
             own == [file |-> f, id |-> image[f].id]
  <2>1. f \in Sources /\ f \in Files /\ Restorable(b, f)
    BY <1>4 DEF Hit, Entering, Files
  <2>2. manifest[f] \in Manifest /\ image[f] \in Image
    BY <2>1, RestorableTypes
  <2>3. state \in SUBSET Definition
    BY <2>1, LoadedTypes
  <2>4. manifest[f].deps \in Stamps /\ manifest[f].linked \in BOOLEAN
    BY <2>2 DEF Manifest
  <2> HIDE DEF before, state
  <2>5. top \in Module
    BY <1>3, <2>3, <2>4, AbsorbIs
  <2>6. own \in Link /\ image[f].links \in SUBSET Link
    BY <2>1, <2>2 DEF Link, Image
  <2>7. /\ pc'[b] = "run" /\ opened'[b] = opened[b] /\ stack'[b] = OnTop(s, top) /\ ctx'[b] = state
        /\ linked'[b] = linked[b] \cup image[f].links \cup {own}
    BY <1>4 DEF Core, TypeOK, Hit, before, state
  <2> HIDE DEF top, own
  <2>8. OnTop(s, top) \in Seq(Module) /\ OnTop(s, top) # <<>>
    BY <1>1, <1>2, <2>5, OnTopTypes
  <2> QED
    BY <1>2, <2>3, <2>6, <2>7, <2>8 DEF ShapeOK, Shape, Writing
<1>5. CASE Miss(b)
  <2> DEFINE parents == OnTop(s, before)
             child == ModuleOf(b, f, parents)
  <2>1. parents \in Seq(Module)
    BY <1>1, <1>2, <1>3, OnTopTypes
  <2>2. /\ pc'[b] = "run" /\ opened'[b] = opened[b] /\ stack'[b] = Append(parents, child) /\ ctx'[b] = ctx[b]
        /\ linked'[b] = linked[b]
    BY <1>5 DEF Core, TypeOK, Miss
  <2> HIDE DEF parents
  <2>3. child \in Module
    <3>1. f \in Sources
      BY <1>5 DEF Miss, Entering
    <3>2. Begun(b, f, parents, child)
      BY <2>1, <3>1, ModuleOfIs
    <3> HIDE DEF child
    <3> QED
      BY <3>2 DEF Begun
  <2> HIDE DEF child
  <2>4. Append(parents, child) \in Seq(Module) /\ Append(parents, child) # <<>>
    BY <2>1, <2>3, PushIs
  <2> QED
    BY <1>2, <2>2, <2>4 DEF ShapeOK, Shape, Writing
<1>6. CASE BeginImport(b)
  <2> DEFINE stamped == [i \in DOMAIN s |-> [s[i] EXCEPT !.deps[f] = disk[f]]]
             top == Before(Last(stamped), ctx[b])
  <2>1. f \in Libraries /\ f \in Files /\ disk[f] \in Contents
    BY <1>6 DEF BeginImport, Files, Core, TypeOK
  <2>2. stamped \in Seq(Module) /\ Len(stamped) = Len(s)
    BY <1>2, <2>1, StampedStack
  <2>3. /\ pc'[b] = "import" /\ target'[b] = f /\ opened'[b] = opened[b] /\ stack'[b] = OnTop(stamped, top) /\ ctx'[b] = ctx[b]
        /\ linked'[b] = linked[b]
    BY <1>6 DEF Core, TypeOK, BeginImport
  <2> HIDE DEF stamped
  <2>4. stamped # <<>> /\ Last(stamped) \in Module
    <3>1. Len(s) > 0
      BY <1>1, <1>2, LastIs
    <3>2. stamped # <<>>
      BY <2>2, <3>1
    <3> QED
      BY <2>2, <3>2, LastIs
  <2>5. top \in Module
    BY <2>4, BeforeIs
  <2> HIDE DEF top
  <2>6. OnTop(stamped, top) \in Seq(Module) /\ OnTop(stamped, top) # <<>>
    BY <2>2, <2>4, <2>5, OnTopTypes
  <2> QED
    BY <1>2, <2>1, <2>3, <2>6 DEF ShapeOK, Shape, Writing
<1> QED
  BY <1>4, <1>5, <1>6

LEMMA ExecuteShape ==
  ASSUME Core, NEW b \in Builders, Read(b) \/ Reach(b) \/ LoadImport(b) \/ Finish(b)
  PROVE  ShapeOK(b)'
<1> DEFINE s == stack[b]
           f == Last(s).file
<1>1. s # <<>>
  BY DEF Read, Reach, LoadImport, Finish, Core, ShapeOK, Shape
<1>2. /\ s \in Seq(Module) /\ Last(s) \in Module /\ ctx[b] \in SUBSET Definition /\ linked[b] \in SUBSET Link
      /\ opened[b] \in Contents
  BY <1>1, NestedIs
<1>3. f \in Files /\ disk[f] \in Contents
  BY <1>2 DEF Module, Files, Core, TypeOK
<1>4. CASE Read(b)
  <2> DEFINE c == IF scene.replaces /\ Len(s) = 1 THEN opened[b] ELSE disk[f]
             m == [Last(s) EXCEPT !.content = c]
             defs == IF f \in scene.declaresFirst THEN Define(ctx[b], f, c) ELSE ctx[b]
  <2>1. c \in Contents
    BY <1>2, <1>3
  <2>2. /\ pc'[b] = "run" /\ opened'[b] = opened[b] /\ stack'[b] = OnTop(s, m) /\ ctx'[b] = defs /\ linked'[b] = linked[b]
    BY <1>4 DEF Core, TypeOK, Read, Top
  <2> HIDE DEF c
  <2>3. m \in Module
    BY <1>2, <2>1 DEF Module
  <2>4. defs \in SUBSET Definition
    BY <1>2, <1>3, <2>1, DefinedIs
  <2> HIDE DEF m, defs
  <2>5. OnTop(s, m) \in Seq(Module) /\ OnTop(s, m) # <<>>
    BY <1>1, <1>2, <2>3, OnTopTypes
  <2> QED
    BY <1>2, <2>2, <2>4, <2>5 DEF ShapeOK, Shape, Writing
<1>5. CASE Reach(b)
  <2> DEFINE m == [Last(s) EXCEPT !.next = Last(s).next + 1]
  <2>1. stack' = [stack EXCEPT ![b] = OnTop(@, m)] /\ stack \in [Builders -> Seq(Module)]
    BY <1>5 DEF Core, TypeOK, Reach, Top
  <2>2. stack'[b] = OnTop(s, m)
    BY <2>1
  <2>3. pc'[b] = "enter" /\ opened'[b] = opened[b] /\ ctx'[b] = ctx[b] /\ linked'[b] = linked[b]
    BY <1>5 DEF Core, TypeOK, Reach
  <2>4. m \in Module
    BY <1>2 DEF Module
  <2> HIDE DEF m
  <2>5. OnTop(s, m) \in Seq(Module) /\ OnTop(s, m) # <<>>
    BY <1>1, <1>2, <2>4, OnTopTypes
  <2> QED
    BY <1>2, <2>2, <2>3, <2>5 DEF ShapeOK, Shape, Writing
<1>6. CASE LoadImport(b)
  <2> DEFINE l == target[b]
             link == [file |-> l, id |-> disk[l]]
             state == IF link \in linked[b] THEN ctx[b] ELSE Import(ctx[b], l, disk[l])
             m == After(Last(s), state)
  <2>1. l \in Files /\ disk[l] \in Contents /\ disk[l] \in Nat
    BY <1>6, CacheAssumption DEF LoadImport, Core, ShapeOK, Shape, TypeOK, Files
  <2>2. link \in Link /\ state \in SUBSET Definition
    BY <1>2, <2>1 DEF Link, Definition, Import
  <2>3. /\ pc'[b] = "run" /\ opened'[b] = opened[b] /\ stack'[b] = OnTop(s, m) /\ ctx'[b] = state
        /\ linked'[b] = linked[b] \cup {link}
    BY <1>6 DEF Core, TypeOK, LoadImport
  <2> HIDE DEF link, state
  <2>4. m \in Module
    BY <1>2, <2>2 DEF Module, After
  <2> HIDE DEF m
  <2>5. OnTop(s, m) \in Seq(Module) /\ OnTop(s, m) # <<>>
    BY <1>1, <1>2, <2>4, OnTopTypes
  <2> QED
    BY <1>2, <2>2, <2>3, <2>5 DEF ShapeOK, Shape, Writing
<1>7. CASE Finish(b)
  <2> DEFINE top == Last(s)
             m == IF Len(s) = 1 THEN [top EXCEPT !.deps[f] = disk[f]] ELSE top
             defs == IF f \in scene.declaresFirst THEN ctx[b] ELSE Define(ctx[b], f, top.content)
  <2>1. /\ pc'[b] = "write" /\ opened'[b] = opened[b] /\ module'[b] = m /\ stack'[b] = Front(s) /\ ctx'[b] = defs
        /\ linked'[b] = linked[b] /\ top.content # NoContent
    BY <1>7 DEF Core, TypeOK, Finish, Top
  <2>2. top.content \in Contents
    BY <1>2, <2>1 DEF Module
  <2>3. m \in Module
    <3>1. StampedAs(top, f, [top EXCEPT !.deps[f] = disk[f]])
      BY <1>2, <1>3, StampedIs
    <3> QED
      BY <1>2, <3>1 DEF StampedAs
  <2>4. defs \in SUBSET Definition
    BY <1>2, <1>3, <2>2, DefinedIs
  <2> HIDE DEF m, defs
  <2>5. Front(s) \in Seq(Module)
    BY <1>1, <1>2, FrontIs
  <2> QED
    BY <1>2, <2>1, <2>3, <2>4, <2>5 DEF ShapeOK, Shape, Writing
<1> QED
  BY <1>4, <1>5, <1>6, <1>7

LEMMA WritingShape ==
  ASSUME Core, NEW b \in Builders,
         CheckInputs(b) \/ Save(b) \/ SwapImage(b) \/ SwapManifest(b) \/ (GiveUp(b) /\ pc[b] \in Writing) \/ Observe(b)
  PROVE  ShapeOK(b)'
<1>1. pc[b] \in Writing /\ ShapeOK(b) /\ module[b] \in Module
  BY DEF CheckInputs, Save, SwapImage, SwapManifest, Observe, Writing, Core, ShapeOK, Shape
<1>2. CASE Leave(b)
  BY <1>2, LeaveShape
<1>3. CASE CheckInputs(b) \/ Save(b) \/ SwapImage(b) \/ (GiveUp(b) /\ Nested(b))
  <2>1. /\ pc'[b] \in {"save", "swapImage", "swapManifest", "observe"} /\ (pc'[b] = "observe" => stack[b] # <<>>)
        /\ target'[b] = target[b] /\ opened'[b] = opened[b] /\ stack'[b] = stack[b] /\ module'[b] = module[b] /\ ctx'[b] = ctx[b] /\ linked'[b] = linked[b]
    BY <1>3 DEF Core, TypeOK, CheckInputs, Save, SwapImage, GiveUp, Nested
  <2> QED
    BY <1>1, <2>1 DEF ShapeOK, Shape, Writing
<1>4. CASE SwapManifest(b) /\ Nested(b)
  <2> DEFINE m == module[b]
             s == stack[b]
             top == Absorb(Last(s), m.deps, m.linked, ctx[b])
             own == [file |-> m.file, id |-> fresh[b].id]
  <2>1. s # <<>>
    BY <1>4 DEF Nested
  <2>2. /\ s \in Seq(Module) /\ Last(s) \in Module /\ ctx[b] \in SUBSET Definition /\ linked[b] \in SUBSET Link
        /\ opened[b] \in Contents
    BY <2>1, NestedIs
  <2>3. m.deps \in Stamps /\ m.linked \in BOOLEAN /\ m.file \in Files
    BY <1>1 DEF Module, Files
  <2>4. top \in Module
    BY <2>2, <2>3, AbsorbIs
  <2>5. own \in Link
    BY <1>4, <2>3 DEF SwapManifest, Swapping, Core, FreshIds, FreshOf, Image, Link
  <2>6. /\ pc'[b] = "run" /\ opened'[b] = opened[b] /\ stack'[b] = OnTop(s, top) /\ ctx'[b] = ctx[b]
        /\ linked'[b] = linked[b] \cup {own}
    BY <1>4 DEF Core, TypeOK, SwapManifest
  <2> HIDE DEF top, own
  <2>7. OnTop(s, top) \in Seq(Module) /\ OnTop(s, top) # <<>>
    BY <2>1, <2>2, <2>4, OnTopTypes
  <2> QED
    BY <2>2, <2>5, <2>6, <2>7 DEF ShapeOK, Shape, Writing
<1>5. CASE Observe(b)
  <2> DEFINE s == stack[b]
             f == module[b].file
             stamped == [i \in DOMAIN s |-> [s[i] EXCEPT !.deps[f] = disk[f]]]
  <2>1. s \in Seq(Module) /\ f \in Files /\ disk[f] \in Contents
    BY <1>1 DEF Module, Files, Core, TypeOK
  <2>2. stamped \in Seq(Module) /\ Len(stamped) = Len(s)
    BY <2>1, StampedStack
  <2>3. /\ pc'[b] = "run" /\ opened'[b] = opened[b] /\ stack'[b] = stamped /\ ctx'[b] = ctx[b] /\ linked'[b] = linked[b]
    BY <1>5 DEF Core, TypeOK, Observe
  <2> HIDE DEF stamped
  <2>4. s # <<>> /\ opened[b] \in Contents
    BY <1>1, <1>5 DEF Observe, ShapeOK, Shape
  <2>5. stamped # <<>>
    BY <2>1, <2>2, <2>4
  <2>6. ctx[b] \in SUBSET Definition /\ linked[b] \in SUBSET Link
    BY DEF Core, TypeOK
  <2> QED
    BY <2>2, <2>3, <2>4, <2>5, <2>6 DEF ShapeOK, Shape, Writing
<1> QED
  BY <1>2, <1>3, <1>4, <1>5 DEF SwapManifest, GiveUp

LEMMA ShapeStep ==
  ASSUME Core, NEW b \in Builders, Builds(b)
  PROVE  ShapeOK(b)'
<1>1. CASE Leave(b)
  BY <1>1, LeaveShape
<1>2. CASE Start(b) \/ RootMiss(b)
  <2>1. /\ pc'[b] \in {"enter", "opened"} /\ target'[b] = Root /\ stack'[b] = <<>> /\ ctx'[b] = {} /\ linked'[b] = {}
        /\ (pc'[b] = "opened" => opened'[b] \in Contents)
    <3>1. CASE Start(b)
      BY <3>1 DEF Core, TypeOK, ShapeOK, Shape, Start, Writing
    <3>2. CASE RootMiss(b)
      <4>1. pc[b] = "enter" /\ stack[b] = <<>> /\ target[b] = Root /\ ctx[b] = {} /\ linked[b] = {}
        BY <3>2 DEF Core, ShapeOK, Shape, RootMiss, Entering, Nested, Writing
      <4>2. pc'[b] = "opened" /\ target'[b] = target[b] /\ opened'[b] = disk[target[b]] /\ stack'[b] = stack[b]
            /\ ctx'[b] = ctx[b] /\ linked'[b] = linked[b]
        BY <3>2 DEF Core, TypeOK, RootMiss
      <4>3. disk[target[b]] \in Contents
        BY DEF Core, TypeOK
      <4> QED
        BY <4>1, <4>2, <4>3
    <3> QED
      BY <1>2, <3>1, <3>2
  <2> QED
    BY <2>1 DEF ShapeOK, Shape, Writing
<1>3. CASE BeginRoot(b)
  <2> DEFINE none == <<>>
             root == ModuleOf(b, Root, none)
  <2>1. pc[b] = "opened" /\ target[b] = Root /\ opened[b] \in Contents /\ ctx[b] = {} /\ linked[b] = {}
    BY <1>3 DEF Core, ShapeOK, Shape, BeginRoot, Writing
  <2>2. pc'[b] = "run" /\ opened'[b] = opened[b] /\ stack'[b] = <<root>> /\ ctx'[b] = {} /\ linked'[b] = {}
    BY <1>3, <2>1 DEF Core, TypeOK, BeginRoot
  <2>3. none \in Seq(Module) /\ Root \in Sources
    BY CacheAssumption
  <2> HIDE DEF none
  <2>4. Begun(b, Root, none, root)
    BY <2>3, ModuleOfIs
  <2> HIDE DEF root
  <2>5. <<root>> \in Seq(Module) /\ <<root>> # <<>>
    BY <2>4 DEF Begun
  <2> QED
    BY <2>1, <2>2, <2>5 DEF ShapeOK, Shape, Writing
<1>4. CASE Hit(b) \/ Miss(b) \/ BeginImport(b)
  BY <1>4, NestedShape
<1>5. CASE Read(b) \/ Reach(b) \/ LoadImport(b) \/ Finish(b)
  BY <1>5, ExecuteShape
<1>6. CASE CheckInputs(b) \/ Save(b) \/ SwapImage(b) \/ SwapManifest(b) \/ Observe(b)
  BY <1>6, WritingShape
<1>7. CASE Refuse(b) \/ WriteFails(b)
  <2>1. GiveUp(b) /\ pc[b] \in Writing
    BY <1>7 DEF Refuse, WriteFails, Writing
  <2> QED
    BY <2>1, WritingShape
<1>8. CASE RootHit(b) \/ Crash(b)
  BY <1>8, <1>1 DEF RootHit, Crash
<1> QED
  BY <1>2, <1>3, <1>4, <1>5, <1>6, <1>7, <1>8 DEF Builds, Enter, Execute, WriteBack


-----------------------------------------------------------------------------
(* The image that is swapped in is nobody's link yet. *)
LEMMA PureIsKept ==
  ASSUME IInv, NEW b \in Builders, SwapImage(b), NEW links, Taken(links, fresh[b].id), NEW l \in links, Pure(image, l)
  PROVE  Pure(image', l)
<1> DEFINE f == module[b].file
<1>1. pc[b] \in Swapping /\ image' = [image EXCEPT ![f] = fresh[b]]
  BY DEF SwapImage, Swapping
<1>2. fresh[b] \in Image /\ f \in Sources
  BY <1>1 DEF IInv, Core, FreshIds, FreshOf, BuildOK, Building, ShapeOK, Shape, Swapping, Writing, Module
<1>3. CASE l.file = f
  <2>1. image'[l.file] = fresh[b] /\ l.id \in 1 .. fresh[b].id - 1
    BY <1>1, <1>2, <1>3 DEF Taken, IInv, Core, TypeOK
  <2>2. fresh[b].id # l.id
    BY <2>1, <1>2 DEF Image
  <2> QED
    BY <2>1, <2>2 DEF Pure
<1>4. CASE l.file # f
  <2>1. l.file \in Sources => image'[l.file] = image[l.file]
    BY <1>1, <1>4 DEF IInv, Core, TypeOK
  <2> QED
    BY <2>1 DEF Pure
<1> QED
  BY <1>3, <1>4

LEMMA SwapImageBuilding ==
  ASSUME IInv, NEW b \in Builders, SwapImage(b), NEW c \in Builders
  PROVE  Building(image', pc[c], target[c], stack[c], module[c], ctx[c], linked[c])
<1>1. Building(image, pc[c], target[c], stack[c], module[c], ctx[c], linked[c])
  BY DEF IInv, BuildOK
<1>2. Taken(linked[c], fresh[b].id)
  BY DEF IInv, Core, FreshIds, FreshOf, SwapImage, Swapping
<1>3. \A l \in linked[c] : Pure(image, l) => Pure(image', l)
  BY <1>2, PureIsKept
<1>4. IsDelta(image', pc[c], stack[c], module[c], ctx[c], linked[c])
  BY <1>1, <1>3 DEF Building, IsDelta, DeltaOf
<1> QED
  BY <1>1, <1>4 DEF Building

(* Each builder changes what is its own. *)
Owned(b) ==
  /\ pc' = [pc EXCEPT ![b] = pc'[b]] /\ target' = [target EXCEPT ![b] = target'[b]]
  /\ opened' = [opened EXCEPT ![b] = opened'[b]] /\ stack' = [stack EXCEPT ![b] = stack'[b]]
  /\ module' = [module EXCEPT ![b] = module'[b]] /\ fresh' = [fresh EXCEPT ![b] = fresh'[b]]
  /\ ctx' = [ctx EXCEPT ![b] = ctx'[b]] /\ linked' = [linked EXCEPT ![b] = linked'[b]]

LEMMA UpdateIs ==
  ASSUME NEW S, NEW T, NEW F \in [S -> T], NEW b \in S, NEW v
  PROVE  [F EXCEPT ![b] = v] = [F EXCEPT ![b] = [F EXCEPT ![b] = v][b]]
OBVIOUS

LEMMA LeaveIsOwned ==
  ASSUME Core, NEW b \in Builders, Leave(b)
  PROVE  Owned(b)
BY UpdateIs DEF Core, TypeOK, Leave, Owned

LEMMA GiveUpIsOwned ==
  ASSUME Core, NEW b \in Builders, GiveUp(b)
  PROVE  Owned(b) /\ scene' = scene /\ disk' = disk
<1>1. CASE Nested(b)
  BY <1>1 DEF Core, TypeOK, GiveUp, Owned, diskVars
<1>2. CASE ~Nested(b)
  BY <1>2, LeaveIsOwned DEF GiveUp, diskVars
<1> QED
  BY <1>1, <1>2

LEMMA OwnedStep ==
  ASSUME Core, NEW b \in Builders, Builds(b)
  PROVE  Owned(b) /\ scene' = scene /\ disk' = disk
<1>1. CASE Start(b)
  BY <1>1 DEF Core, TypeOK, Start, Owned, diskVars
<1>2. CASE Hit(b)
  BY <1>2 DEF Core, TypeOK, Hit, Owned, diskVars
<1>3. CASE RootHit(b)
  BY <1>3, LeaveIsOwned DEF RootHit, diskVars
<1>4. CASE Miss(b)
  BY <1>4 DEF Core, TypeOK, Miss, Owned, diskVars
<1>5. CASE RootMiss(b)
  BY <1>5 DEF Core, TypeOK, RootMiss, Owned, diskVars
<1>6. CASE BeginRoot(b)
  BY <1>6 DEF Core, TypeOK, BeginRoot, Owned, diskVars
<1>7. CASE Read(b)
  BY <1>7 DEF Core, TypeOK, Read, Owned, diskVars
<1>8. CASE Reach(b)
  BY <1>8 DEF Core, TypeOK, Reach, Owned, diskVars
<1>9. CASE BeginImport(b)
  BY <1>9 DEF Core, TypeOK, BeginImport, Owned, diskVars
<1>10. CASE LoadImport(b)
  BY <1>10 DEF Core, TypeOK, LoadImport, Owned, diskVars
<1>11. CASE Finish(b)
  BY <1>11 DEF Core, TypeOK, Finish, Owned, diskVars
<1>12. CASE CheckInputs(b)
  BY <1>12 DEF Core, TypeOK, CheckInputs, Owned, diskVars
<1>13. CASE Save(b)
  BY <1>13 DEF Core, TypeOK, Save, Owned, diskVars
<1>14. CASE SwapImage(b)
  BY <1>14 DEF Core, TypeOK, SwapImage, Owned, diskVars
<1>15. CASE SwapManifest(b)
  <2>1. CASE Nested(b)
    BY <1>15, <2>1 DEF Core, TypeOK, SwapManifest, Owned, diskVars
  <2>2. CASE ~Nested(b)
    BY <1>15, <2>2, LeaveIsOwned DEF SwapManifest, diskVars
  <2> QED
    BY <2>1, <2>2
<1>16. CASE Refuse(b) \/ WriteFails(b)
  BY <1>16, GiveUpIsOwned DEF Refuse, WriteFails
<1>17. CASE Observe(b)
  BY <1>17 DEF Core, TypeOK, Observe, Owned, diskVars
<1>18. CASE Crash(b)
  BY <1>18, LeaveIsOwned DEF Crash, diskVars
<1> QED
  BY <1>1, <1>2, <1>3, <1>4, <1>5, <1>6, <1>7, <1>8, <1>9, <1>10, <1>11, <1>12, <1>13, <1>14, <1>15, <1>16, <1>17, <1>18
  DEF Builds, Enter, Execute, WriteBack

LEMMA ElsewhereIs ==
  ASSUME Core, NEW b \in Builders, Owned(b)
  PROVE  Elsewhere(b)
BY DEF Core, TypeOK, Owned, Elsewhere

(* A builder of which no module may be given up leaves when its root is. *)
LEMMA GiveUpStep ==
  ASSUME IInv, NothingGivenUp', NEW b \in Builders, GiveUp(b)
  PROVE  Leave(b) /\ ~Nested(b)
<1>1. ASSUME Nested(b)
      PROVE  FALSE
  <2>1. pc'[b] = "observe"
    BY <1>1 DEF IInv, Core, TypeOK, GiveUp
  <2> QED
    BY <2>1 DEF NothingGivenUp
<1> QED
  BY <1>1 DEF GiveUp

LEMMA BuilderStep ==
  ASSUME IInv, Undisturbed, Undisturbed', NEW b \in Builders, Builds(b)
  PROVE  \A c \in Builders : BuildOK(c)'
<1>0. Owned(b) /\ Elsewhere(b)
  BY OwnedStep, ElsewhereIs DEF IInv
<1>1. CASE SwapImage(b)
  <2>1. ASSUME NEW c \in Builders \ {b}
        PROVE  BuildOK(c)'
    <3>1. Building(image', pc[c], target[c], stack[c], module[c], ctx[c], linked[c])
      BY <1>1, SwapImageBuilding
    <3> QED
      BY <3>1, <1>0 DEF BuildOK, Elsewhere
  <2>2. BuildOK(b)'
    <3>1. /\ pc[b] = "swapImage" /\ pc'[b] = "swapManifest" /\ target' = target /\ opened' = opened /\ stack' = stack
          /\ module' = module /\ ctx' = ctx /\ linked' = linked
      BY <1>1 DEF IInv, Core, TypeOK, SwapImage
    <3>2. Building(image', pc[b], target[b], stack[b], module[b], ctx[b], linked[b])
      BY <1>1, SwapImageBuilding
    <3>3. pc[b] \in Writing /\ pc'[b] \in Writing
      BY <3>1 DEF Writing
    <3>4. Building(image', pc'[b], target[b], stack[b], module[b], ctx[b], linked[b])
      BY <3>2, <3>3, WritingStep
    <3> QED
      BY <3>1, <3>4 DEF BuildOK
  <2> QED
    BY <2>1, <2>2
<1>2. CASE ~SwapImage(b)
  <2>1. image' = image /\ BuildOK(b)'
    <3>1. CASE Start(b)
      BY <3>1, StartStep DEF Start, cacheVars
    <3>2. CASE Hit(b)
      BY <3>2, HitStep DEF Hit, cacheVars, Undisturbed
    <3>3. CASE RootHit(b)
      BY <3>3, LeaveStep DEF RootHit, cacheVars
    <3>4. CASE Miss(b)
      BY <3>4, MissStep DEF Miss, cacheVars
    <3>5. CASE RootMiss(b)
      BY <3>5, RootMissStep DEF RootMiss, cacheVars
    <3>6. CASE BeginRoot(b)
      BY <3>6, BeginRootStep DEF BeginRoot, cacheVars
    <3>7. CASE Read(b)
      BY <3>7, ReadStep DEF Read, cacheVars
    <3>8. CASE Reach(b)
      BY <3>8, ReachStep DEF Reach, cacheVars
    <3>9. CASE BeginImport(b)
      BY <3>9, BeginImportStep DEF BeginImport, cacheVars
    <3>10. CASE LoadImport(b)
      BY <3>10, LoadImportStep DEF LoadImport, cacheVars
    <3>11. CASE Finish(b)
      BY <3>11, FinishStep DEF Finish, cacheVars
    <3>12. CASE CheckInputs(b) \/ Save(b)
      <4>1. /\ pc[b] \in Writing /\ pc'[b] \in Writing /\ target' = target /\ opened' = opened /\ stack' = stack
            /\ module' = module /\ ctx' = ctx /\ linked' = linked /\ image' = image
        BY <3>12 DEF IInv, Core, TypeOK, CheckInputs, Save, Writing, cacheVars
      <4>2. Building(image, pc[b], target[b], stack[b], module[b], ctx[b], linked[b])
        BY DEF IInv, BuildOK
      <4>3. Building(image, pc'[b], target[b], stack[b], module[b], ctx[b], linked[b])
        BY <4>1, <4>2, WritingStep
      <4> QED
        BY <4>1, <4>3 DEF BuildOK
    <3>13. CASE SwapManifest(b)
      BY <3>13, SwapManifestStep DEF SwapManifest
    <3>14. CASE Refuse(b) \/ WriteFails(b)
      <4>1. GiveUp(b)
        BY <3>14 DEF Refuse, WriteFails
      <4> QED
        BY <4>1, GiveUpStep, LeaveStep DEF GiveUp, cacheVars, Undisturbed
    <3>15. CASE Observe(b)
      BY <3>15 DEF Observe, Undisturbed, NothingGivenUp
    <3>16. CASE Crash(b)
      BY <3>16, LeaveStep DEF Crash, cacheVars
    <3> QED
      BY <1>2, <3>1, <3>2, <3>3, <3>4, <3>5, <3>6, <3>7, <3>8, <3>9, <3>10, <3>11, <3>12, <3>13, <3>14, <3>15, <3>16
      DEF Builds, Enter, Execute, WriteBack
  <2>2. \A c \in Builders \ {b} : BuildOK(c)'
    BY <1>0, <2>1, OthersAreBuilding
  <2> QED
    BY <2>1, <2>2
<1> QED
  BY <1>1, <1>2

-----------------------------------------------------------------------------
(* The types. *)
LEMMA OwnTypes ==
  ASSUME Core, NEW b \in Builders, Builds(b)
  PROVE  /\ pc'[b] \in PC /\ target'[b] \in Files /\ opened'[b] \in Contents \cup {NoContent}
         /\ module'[b] \in Module \cup {NoModule} /\ fresh'[b] \in Image \cup {NoEntry}
<1> DEFINE Same == module'[b] = module[b] /\ fresh'[b] = fresh[b] /\ target'[b] = target[b] /\ opened'[b] = opened[b]
<1>1. /\ pc[b] \in PC /\ target[b] \in Files /\ opened[b] \in Contents \cup {NoContent}
      /\ module[b] \in Module \cup {NoModule} /\ fresh[b] \in Image \cup {NoEntry} /\ Root \in Files
      /\ linked[b] \in SUBSET Link /\ ctx[b] \in SUBSET Definition
  BY CacheAssumption DEF Core, TypeOK, Files
<1>2. ASSUME Leave(b)
      PROVE  /\ pc'[b] \in PC /\ target'[b] \in Files /\ opened'[b] \in Contents \cup {NoContent}
             /\ module'[b] \in Module \cup {NoModule} /\ fresh'[b] \in Image \cup {NoEntry}
  <2>1. pc'[b] = "idle" /\ target'[b] = Root /\ opened'[b] = NoContent /\ module'[b] = NoModule /\ fresh'[b] = NoEntry
    BY <1>2 DEF Core, TypeOK, Leave
  <2> QED
    BY <2>1, <1>1 DEF PC
<1>3. CASE Start(b)
  <2>1. pc'[b] = "enter" /\ target'[b] = Root /\ opened'[b] = opened[b] /\ module'[b] = module[b] /\ fresh'[b] = fresh[b]
    BY <1>3 DEF Core, TypeOK, Start
  <2> QED
    BY <2>1, <1>1 DEF PC
<1>4. CASE Hit(b) \/ Miss(b) \/ BeginRoot(b) \/ Read(b) \/ BeginImport(b) \/ LoadImport(b) \/ CheckInputs(b) \/ SwapImage(b)
  <2>1. Same /\ pc'[b] \in PC
    BY <1>4, <1>1 DEF Core, TypeOK, Hit, Miss, BeginRoot, Read, BeginImport, LoadImport, CheckInputs, SwapImage, PC
  <2> QED
    BY <2>1, <1>1
<1>5. CASE RootHit(b) \/ Crash(b)
  BY <1>5, <1>2 DEF RootHit, Crash
<1>6. CASE RootMiss(b)
  <2>1. pc'[b] = "opened" /\ target'[b] = target[b] /\ opened'[b] = disk[target[b]] /\ module'[b] = module[b]
        /\ fresh'[b] = fresh[b]
    BY <1>6 DEF Core, TypeOK, RootMiss
  <2>2. disk[target[b]] \in Contents
    BY <1>1 DEF Core, TypeOK
  <2> QED
    BY <2>1, <2>2, <1>1 DEF PC
<1>7. CASE Reach(b)
  <2> DEFINE m == Last(stack[b])
  <2>1. pc[b] = "run" /\ stack[b] # <<>> /\ m.content # NoContent /\ m.next <= Len(IncludesOf(m))
    BY <1>7 DEF Reach, Top, Core, ShapeOK, Shape
  <2>2. m \in Module
    BY <2>1, NestedIs
  <2>3. m.file \in Sources /\ m.content \in Contents /\ m.next \in Nat \ {0}
    BY <2>1, <2>2 DEF Module
  <2>4. scene \in Scenes
    BY DEF Core, TypeOK
  <2>5. IncludesOf(m) \in Seq(Files)
    <3>1. scene.includes \in [Sources -> [Contents -> Seq(Files)]]
      BY <2>4, ScenesAssumption
    <3> QED
      BY <3>1, <2>3 DEF IncludesOf
  <2>6. IncludesOf(m)[m.next] \in Files
    <3> HIDE DEF m
    <3> QED
      BY <2>1, <2>3, <2>5
  <2>7. pc'[b] = "enter" /\ target'[b] = IncludesOf(m)[m.next] /\ opened'[b] = opened[b] /\ module'[b] = module[b]
        /\ fresh'[b] = fresh[b]
    BY <1>7 DEF Core, TypeOK, Reach, Top
  <2> QED
    BY <2>6, <2>7, <1>1 DEF PC
<1>8. CASE Finish(b)
  <2>1. pc'[b] = "write" /\ target'[b] = target[b] /\ opened'[b] = opened[b] /\ fresh'[b] = fresh[b]
    BY <1>8 DEF Core, TypeOK, Finish
  <2>2. module'[b] \in Module
    BY <1>8, <2>1, ShapeStep DEF ShapeOK, Shape, Writing
  <2> QED
    BY <2>1, <2>2, <1>1 DEF PC
<1>9. CASE Save(b)
  <2> DEFINE m == module[b]
             defs == IF m.linked THEN ctx[b] \ m.base ELSE ctx[b]
             links == IF m.linked THEN linked[b] ELSE {}
  <2>1. pc'[b] = "swapImage" /\ target'[b] = target[b] /\ opened'[b] = opened[b] /\ module'[b] = module[b]
        /\ fresh'[b] = [id |-> nextImage, defs |-> defs, links |-> links]
    BY <1>9 DEF Core, TypeOK, Save
  <2>2. nextImage \in Nat /\ defs \in SUBSET Definition /\ links \in SUBSET Link
    BY <1>1 DEF Core, TypeOK
  <2>3. fresh'[b] \in Image
    BY <2>1, <2>2 DEF Image
  <2> QED
    BY <2>1, <2>3, <1>1 DEF PC
<1>10. CASE SwapManifest(b)
  <2>1. CASE Nested(b)
    <3>1. pc'[b] = "run" /\ target'[b] = target[b] /\ opened'[b] = opened[b] /\ module'[b] = NoModule /\ fresh'[b] = NoEntry
      BY <1>10, <2>1 DEF Core, TypeOK, SwapManifest
    <3> QED
      BY <3>1, <1>1 DEF PC
  <2>2. CASE ~Nested(b)
    BY <1>10, <2>2, <1>2 DEF SwapManifest
  <2> QED
    BY <2>1, <2>2
<1>11. CASE Refuse(b) \/ WriteFails(b)
  <2>1. GiveUp(b)
    BY <1>11 DEF Refuse, WriteFails
  <2>2. CASE Nested(b)
    <3>1. pc'[b] = "observe" /\ target'[b] = target[b] /\ opened'[b] = opened[b] /\ module'[b] = module[b] /\ fresh'[b] = NoEntry
      BY <2>1, <2>2 DEF Core, TypeOK, GiveUp
    <3> QED
      BY <3>1, <1>1 DEF PC
  <2>3. CASE ~Nested(b)
    BY <2>1, <2>3, <1>2 DEF GiveUp
  <2> QED
    BY <2>2, <2>3
<1>12. CASE Observe(b)
  <2>1. pc'[b] = "run" /\ target'[b] = target[b] /\ opened'[b] = opened[b] /\ module'[b] = NoModule /\ fresh'[b] = fresh[b]
    BY <1>12 DEF Core, TypeOK, Observe
  <2> QED
    BY <2>1, <1>1 DEF PC
<1> QED
  BY <1>3, <1>4, <1>5, <1>6, <1>7, <1>8, <1>9, <1>10, <1>11, <1>12 DEF Builds, Enter, Execute, WriteBack

(* What a step does to the cache. *)
LEMMA CacheStep ==
  ASSUME Core, NEW b \in Builders, Builds(b)
  PROVE  /\ SwapImage(b) \/ image' = image
         /\ SwapManifest(b) \/ manifest' = manifest
         /\ Save(b) \/ nextImage' = nextImage
BY DEF Builds, Enter, Execute, WriteBack, Start, Hit, RootHit, Miss, RootMiss, BeginRoot, Read, Reach, BeginImport, LoadImport,
       Finish, CheckInputs, Save, SwapImage, SwapManifest, Refuse, WriteFails, GiveUp, Observe, Crash, cacheVars

LEMMA TypeStep ==
  ASSUME Core, NEW b \in Builders, Builds(b)
  PROVE  TypeOK'
<1>1. Owned(b) /\ scene' = scene /\ disk' = disk
  BY OwnedStep
<1>2. /\ stack'[b] \in Seq(Module) /\ ctx'[b] \in SUBSET Definition /\ linked'[b] \in SUBSET Link
  BY ShapeStep DEF ShapeOK, Shape
<1>3. /\ pc'[b] \in PC /\ target'[b] \in Files /\ opened'[b] \in Contents \cup {NoContent}
      /\ module'[b] \in Module \cup {NoModule} /\ fresh'[b] \in Image \cup {NoEntry}
  BY OwnTypes
<1>4. scene' \in Scenes /\ disk' \in [Files -> Contents]
  BY <1>1 DEF Core, TypeOK
<1>5. nextImage' \in Nat \ {0}
  <2>1. CASE Save(b)
    BY <2>1 DEF Core, TypeOK, Save
  <2>2. CASE ~Save(b)
    BY <2>2, CacheStep DEF Core, TypeOK
  <2> QED
    BY <2>1, <2>2
<1>6. image' \in [Sources -> Image \cup {NoEntry}]
  <2>1. CASE SwapImage(b)
    <3>1. image' = [image EXCEPT ![module[b].file] = fresh[b]] /\ fresh[b] \in Image
      BY <2>1 DEF SwapImage, Swapping, Core, FreshIds, FreshOf
    <3> QED
      BY <3>1 DEF Core, TypeOK
  <2>2. CASE ~SwapImage(b)
    BY <2>2, CacheStep DEF Core, TypeOK
  <2> QED
    BY <2>1, <2>2
<1>7. manifest' \in [Sources -> Manifest \cup {NoEntry}]
  <2>1. CASE SwapManifest(b)
    <3> DEFINE m == module[b]
               new == [stamp |-> m.stamp, imageId |-> fresh[b].id, deps |-> m.deps,
                       inputs |-> m.inputs, prefix |-> m.prefix, linked |-> m.linked, direct |-> m.direct]
    <3>1. manifest' = [manifest EXCEPT ![m.file] = new]
      BY <2>1 DEF SwapManifest
    <3>2. m \in Module /\ fresh[b] \in Image
      BY <2>1 DEF SwapManifest, Swapping, Writing, Core, FreshIds, FreshOf, ShapeOK, Shape
    <3>3. new \in Manifest
      BY <3>2 DEF Module, Image, Manifest
    <3> HIDE DEF new
    <3> QED
      BY <3>1, <3>3 DEF Core, TypeOK
  <2>2. CASE ~SwapManifest(b)
    BY <2>2, CacheStep DEF Core, TypeOK
  <2> QED
    BY <2>1, <2>2
<1>8. /\ pc' \in [Builders -> PC] /\ target' \in [Builders -> Files] /\ opened' \in [Builders -> Contents \cup {NoContent}]
  BY <1>1, <1>3 DEF Owned, Core, TypeOK
<1>9. /\ module' \in [Builders -> Module \cup {NoModule}] /\ fresh' \in [Builders -> Image \cup {NoEntry}]
  BY <1>1, <1>3 DEF Owned, Core, TypeOK
<1>10. /\ stack' \in [Builders -> Seq(Module)] /\ ctx' \in [Builders -> SUBSET Definition] /\ linked' \in [Builders -> SUBSET Link]
  BY <1>1, <1>2 DEF Owned, Core, TypeOK
<1> QED
  BY <1>4, <1>5, <1>6, <1>7, <1>8, <1>9, <1>10 DEF TypeOK

(* The lock. *)
LEMMA LockedStep ==
  ASSUME Core, NEW b \in Builders, Builds(b)
  PROVE  Locked'
<1>1. \A c \in Builders \ {b} : pc'[c] = pc[c]
  BY OwnedStep, ElsewhereIs DEF Elsewhere
<1>2. Locked /\ NoBuilder \notin Builders
  BY CacheAssumption DEF Core
<1>3. CASE lock' = lock /\ (pc'[b] \in Holding <=> pc[b] \in Holding)
  BY <1>1, <1>2, <1>3 DEF Locked
<1>4. CASE lock = NoBuilder /\ lock' = b /\ pc'[b] \in Holding
  BY <1>1, <1>2, <1>4 DEF Locked
<1>5. CASE lock' = Released(b) /\ pc'[b] \notin Holding
  <2>1. CASE lock = b
    BY <1>1, <1>2, <1>5, <2>1 DEF Locked, Released
  <2>2. CASE lock # b
    BY <1>1, <1>2, <1>5, <2>2 DEF Locked, Released
  <2> QED
    BY <2>1, <2>2
<1>6. ASSUME Leave(b)
      PROVE  pc'[b] \notin Holding
  BY <1>6 DEF Core, TypeOK, Leave, Holding
<1>7. CASE Start(b) \/ Hit(b) \/ Miss(b) \/ RootMiss(b) \/ BeginRoot(b) \/ Read(b) \/ Reach(b) \/ BeginImport(b) \/ LoadImport(b)
           \/ Finish(b) \/ Save(b) \/ SwapImage(b) \/ Observe(b)
  <2>1. lock' = lock /\ (pc'[b] \in Holding <=> pc[b] \in Holding)
    BY <1>7 DEF Start, Hit, Miss, RootMiss, BeginRoot, Read, Reach, BeginImport, LoadImport, Finish, Save, SwapImage, Observe,
                Entering, Core, TypeOK, Holding
  <2> QED
    BY <2>1, <1>3
<1>8. CASE RootHit(b)
  BY <1>8, <1>3, <1>6 DEF RootHit, Entering, Holding
<1>9. CASE CheckInputs(b)
  BY <1>9, <1>4 DEF CheckInputs, Core, TypeOK, Holding
<1>10. CASE SwapManifest(b)
  <2>1. lock = b /\ lock' = Released(b)
    BY <1>2, <1>10 DEF SwapManifest, Locked, Holding, Released
  <2>2. pc'[b] \notin Holding
    BY <1>6, <1>10 DEF SwapManifest, Core, TypeOK, Holding
  <2> QED
    BY <2>1, <2>2, <1>5
<1>11. CASE Refuse(b) \/ WriteFails(b) \/ Crash(b)
  <2>1. lock' = Released(b) /\ pc'[b] \notin Holding
    BY <1>6, <1>11 DEF Refuse, WriteFails, Crash, GiveUp, Core, TypeOK, Holding
  <2> QED
    BY <2>1, <1>5
<1> QED
  BY <1>7, <1>8, <1>9, <1>10, <1>11 DEF Builds, Enter, Execute, WriteBack

-----------------------------------------------------------------------------
(* The identities. *)
LEMMA TakenMore ==
  ASSUME NEW links, NEW n \in Nat, NEW k \in Nat, n <= k, Taken(links, n)
  PROVE  Taken(links, k)
BY DEF Taken

LEMMA SwappingStep ==
  ASSUME Core, NEW b \in Builders, Builds(b), pc'[b] \in Swapping
  PROVE  Save(b) \/ SwapImage(b)
<1>1. ~Leave(b)
  BY DEF Core, TypeOK, Leave, Swapping
<1> QED
  BY <1>1 DEF Builds, Enter, Execute, WriteBack, Start, Hit, RootHit, Miss, RootMiss, BeginRoot, Read, Reach, BeginImport,
     LoadImport, Finish, CheckInputs, SwapManifest, Refuse, WriteFails, GiveUp, Observe, Crash, Entering, Core, TypeOK, Swapping

(* A builder gains the link of a library, or, while nobody else holds the lock, that of an image that was there. *)
LEMMA LinkedStep ==
  ASSUME Core, NEW b \in Builders, Builds(b), NEW l \in linked'[b]
  PROVE  l \in linked[b] \/ (l.file \in Sources => l.id \in 1 .. nextImage - 1 /\ lock \in {NoBuilder, b})
<1>1. CASE Leave(b)
  BY <1>1 DEF Core, TypeOK, Leave
<1>2. CASE Hit(b)
  <2> DEFINE f == target[b]
  <2>1. linked'[b] = linked[b] \cup image[f].links \cup {[file |-> f, id |-> image[f].id]} /\ lock = NoBuilder
        /\ f \in Sources /\ Restorable(b, f)
    BY <1>2 DEF Core, TypeOK, Hit, Entering
  <2>2. image[f].id \in 1 .. nextImage - 1 /\ Taken(image[f].links, nextImage)
    BY <2>1, RestorableTypes
  <2> QED
    BY <2>1, <2>2 DEF Taken
<1>3. CASE LoadImport(b)
  <2>1. linked'[b] = linked[b] \cup {[file |-> target[b], id |-> disk[target[b]]]}
    BY <1>3 DEF Core, TypeOK, LoadImport
  <2>2. target[b] \notin Sources
    BY <1>3, CacheAssumption DEF LoadImport, Core, ShapeOK, Shape
  <2> QED
    BY <2>1, <2>2
<1>4. CASE SwapManifest(b) /\ Nested(b)
  <2>1. linked'[b] = linked[b] \cup {[file |-> module[b].file, id |-> fresh[b].id]}
    BY <1>4 DEF Core, TypeOK, SwapManifest
  <2>2. lock = b /\ fresh[b].id \in 1 .. nextImage - 1
    BY <1>4 DEF SwapManifest, Core, Locked, FreshIds, FreshOf, Holding, Swapping
  <2> QED
    BY <2>1, <2>2
<1>5. CASE linked' = linked
  BY <1>5
<1> QED
  BY <1>1, <1>2, <1>3, <1>4, <1>5 DEF Builds, Enter, Execute, WriteBack, Start, RootHit, Miss, RootMiss, BeginRoot, Read, Reach,
     BeginImport, Finish, CheckInputs, Save, SwapImage, SwapManifest, Refuse, WriteFails, GiveUp, Observe, Crash

LEMMA IdsStep ==
  ASSUME Core, NEW b \in Builders, Builds(b), TypeOK'
  PROVE  Ids'
<1>1. nextImage \in Nat \ {0} /\ nextImage' \in Nat \ {0} /\ nextImage <= nextImage'
  <2>1. nextImage \in Nat \ {0} /\ nextImage' \in Nat \ {0}
    BY DEF Core, TypeOK
  <2>2. nextImage' = nextImage \/ nextImage' = nextImage + 1
    BY CacheStep DEF Save
  <2> QED
    BY <2>1, <2>2
<1>2. ASSUME NEW f \in Sources, image'[f] # NoEntry
      PROVE  image'[f].id \in 1 .. nextImage' - 1 /\ Taken(image'[f].links, nextImage')
  <2>1. image'[f] = image[f] \/ (SwapImage(b) /\ image'[f] = fresh[b])
    BY CacheStep DEF SwapImage, Core, TypeOK
  <2>2. CASE image'[f] = image[f]
    <3>1. image[f].id \in 1 .. nextImage - 1 /\ Taken(image[f].links, nextImage)
      BY <1>2, <2>2 DEF Core, Ids
    <3> QED
      BY <3>1, <2>2, <1>1, TakenMore
  <2>3. CASE SwapImage(b) /\ image'[f] = fresh[b]
    <3>1. fresh[b].id \in 1 .. nextImage - 1 /\ Taken(fresh[b].links, fresh[b].id) /\ fresh[b].id \in Nat
      BY <2>3 DEF SwapImage, Swapping, Core, FreshIds, FreshOf, Image
    <3>2. fresh[b].id <= nextImage'
      BY <3>1, <1>1
    <3> QED
      BY <3>1, <3>2, <2>3, <1>1, TakenMore
  <2> QED
    BY <2>1, <2>2, <2>3
<1>3. ASSUME NEW f \in Sources, manifest'[f] # NoEntry
      PROVE  manifest'[f].imageId < nextImage'
  <2>1. manifest'[f] = manifest[f] \/ (SwapManifest(b) /\ manifest'[f].imageId = fresh[b].id)
    BY CacheStep DEF SwapManifest, Core, TypeOK
  <2>2. CASE manifest'[f] = manifest[f]
    <3>1. manifest[f].imageId < nextImage /\ manifest[f].imageId \in Nat
      BY <1>3, <2>2 DEF Core, Ids, TypeOK, Manifest
    <3> QED
      BY <3>1, <2>2, <1>1
  <2>3. CASE SwapManifest(b) /\ manifest'[f].imageId = fresh[b].id
    <3>1. fresh[b].id \in 1 .. nextImage - 1
      BY <2>3 DEF SwapManifest, Swapping, Core, FreshIds, FreshOf
    <3> QED
      BY <3>1, <2>3, <1>1
  <2> QED
    BY <2>1, <2>2, <2>3
<1>4. ASSUME NEW c \in Builders
      PROVE  Taken(linked'[c], nextImage')
  <2>1. Taken(linked[c], nextImage)
    BY DEF Core, Ids
  <2>2. CASE c = b
    <3>1. Taken(linked'[b], nextImage)
      BY <2>1, <2>2, LinkedStep DEF Taken
    <3> QED
      BY <3>1, <2>2, <1>1, TakenMore
  <2>3. CASE c # b
    <3>1. linked'[c] = linked[c]
      BY <2>3, OwnedStep, ElsewhereIs DEF Elsewhere
    <3> QED
      BY <3>1, <2>1, <1>1, TakenMore
  <2> QED
    BY <2>2, <2>3
<1> QED
  BY <1>2, <1>3, <1>4 DEF Ids

LEMMA FreshIdsStep ==
  ASSUME Core, NEW b \in Builders, Builds(b), TypeOK'
  PROVE  FreshIds'
<1>0. Owned(b) /\ Elsewhere(b)
  BY OwnedStep, ElsewhereIs
<1>1. SUFFICES ASSUME NEW c \in Builders, pc'[c] \in Swapping
               PROVE  FreshOf(c)'
  BY DEF FreshIds, FreshOf
<1>2. CASE c # b
  <2>1. pc'[c] = pc[c] /\ fresh'[c] = fresh[c] /\ module'[c] = module[c] /\ \A d \in Builders \ {b} : linked'[d] = linked[d]
    BY <1>0, <1>2 DEF Elsewhere
  <2>2. FreshOf(c) /\ lock = c
    BY <1>1, <2>1 DEF Core, FreshIds, FreshOf, Locked, Swapping, Holding
  <2>3. pc[b] \notin Holding /\ lock # b /\ lock # NoBuilder
    BY <1>2, <2>2, CacheAssumption DEF Core, Locked
  <2>4. image' = image /\ manifest' = manifest /\ nextImage' = nextImage
    BY <2>3, CacheStep DEF Save, SwapImage, SwapManifest, Holding
  <2>5. ASSUME NEW d \in Builders
        PROVE  Taken(linked'[d], fresh[c].id)
    <3>1. CASE d = b
      BY <2>2, <2>3, <3>1, LinkedStep DEF FreshOf, Taken
    <3>2. CASE d # b
      BY <2>1, <2>2, <3>2 DEF FreshOf
    <3> QED
      BY <3>1, <3>2
  <2> QED
    BY <2>1, <2>2, <2>4, <2>5 DEF FreshOf
<1>3. CASE c = b /\ Save(b)
  <2> DEFINE m == module[b]
             defs == IF m.linked THEN ctx[b] \ m.base ELSE ctx[b]
             links == IF m.linked THEN linked[b] ELSE {}
  <2>1. /\ fresh'[b] = [id |-> nextImage, defs |-> defs, links |-> links] /\ nextImage' = nextImage + 1 /\ pc'[b] = "swapImage"
        /\ image' = image /\ manifest' = manifest /\ linked' = linked
    BY <1>3 DEF Core, TypeOK, Save
  <2>2. nextImage \in Nat \ {0} /\ ctx[b] \in SUBSET Definition /\ linked[b] \in SUBSET Link
    BY DEF Core, TypeOK
  <2>3. /\ \A f \in Sources : image[f] # NoEntry => Taken(image[f].links, nextImage)
        /\ \A f \in Sources : manifest[f] # NoEntry => manifest[f].imageId < nextImage /\ manifest[f].imageId \in Nat
        /\ \A d \in Builders : Taken(linked[d], nextImage)
    BY DEF Core, Ids, TypeOK, Manifest
  <2>4. fresh'[b] \in Image /\ fresh'[b].id = nextImage /\ fresh'[b].links = links
    BY <2>1, <2>2 DEF Image
  <2>5. Taken(links, nextImage)
    BY <2>3 DEF Taken
  <2> HIDE DEF links, defs
  <2>6. nextImage \in 1 .. nextImage' - 1
    BY <2>1, <2>2
  <2>7. \A f \in Sources : manifest[f] # NoEntry => manifest[f].imageId # nextImage
    BY <2>2, <2>3
  <2> QED
    BY <1>3, <2>1, <2>3, <2>4, <2>5, <2>6, <2>7 DEF FreshOf
<1>4. CASE c = b /\ SwapImage(b)
  <2>1. FreshOf(b)
    BY <1>4 DEF Core, FreshIds, FreshOf, SwapImage, Swapping
  <2>2. image' = [image EXCEPT ![module[b].file] = fresh[b]] /\ manifest' = manifest /\ nextImage' = nextImage
        /\ fresh' = fresh /\ linked' = linked /\ module' = module
    BY <1>4 DEF SwapImage
  <2>3. module[b].file \in Sources
    BY <1>4 DEF Core, ShapeOK, Shape, SwapImage, Writing, Module
  <2>4. image'[module[b].file] = fresh[b] /\ \A f \in Sources : image'[f] = image[f] \/ image'[f] = fresh[b]
    BY <2>2, <2>3 DEF Core, TypeOK
  <2> QED
    BY <1>4, <2>1, <2>2, <2>4 DEF FreshOf
<1> QED
  BY <1>1, <1>2, <1>3, <1>4, SwappingStep

-----------------------------------------------------------------------------
(* What an image holds stays named. *)
DescribedAll(images, manifests) ==
  \A f \in Sources : manifests[f] # NoEntry /\ images[f] # NoEntry /\ images[f].id = manifests[f].imageId =>
    Described(images, images[f], manifests[f], f)

LEMMA SavedIsDescribed ==
  ASSUME IInv, NEW b \in Builders, Save(b)
  PROVE  Described(image, fresh'[b], module[b], module[b].file)
<1> DEFINE m == module[b]
           defs == IF m.linked THEN ctx[b] \ m.base ELSE ctx[b]
           links == IF m.linked THEN linked[b] ELSE {}
           own == [file |-> m.file, base |-> {}]
<1>1. fresh'[b] = [id |-> nextImage, defs |-> defs, links |-> links]
  BY DEF IInv, Core, TypeOK, Save
<1>2. pc[b] \in Writing
  BY DEF Save, Writing
<1>3. Building(image, pc[b], target[b], stack[b], m, ctx[b], linked[b])
  BY DEF IInv, BuildOK
<1>4. Stamped(m, m.file) /\ (m.direct => m.prefix = {}) /\ m.linked \in BOOLEAN
  <2>1. m \in Module
    BY <1>2 DEF IInv, Core, ShapeOK, Shape
  <2> QED
    BY <2>1, <1>2, <1>3 DEF Building, ModulesWhole, Whole, Module
<1>5. \A x \in ctx[b] \cup linked[b] : Named(m, x.file)
  BY <1>2, <1>3 DEF Building, EachNames
<1>6. m.linked => DeltaOf(image, m, ctx[b], linked[b])
  BY <1>2, <1>3 DEF Building, IsDelta, Inner
<1>7. fresh'[b].defs = defs /\ fresh'[b].links = links
  BY <1>1
<1>8. defs \subseteq ctx[b] /\ links \subseteq linked[b] /\ (~m.linked => links = {})
  OBVIOUS
<1>9. m.linked => defs = ctx[b] \ m.base /\ links = linked[b]
  OBVIOUS
<1>10. own.file = m.file /\ own.base = {}
  OBVIOUS
<1> HIDE DEF own, defs, links
<1>11. m.linked => DeltaOf(image, own, defs, links)
  BY <1>6, <1>9, <1>10 DEF DeltaOf
<1>12. \A x \in defs \cup links : Named(m, x.file)
  BY <1>5, <1>8
<1> QED
  BY <1>4, <1>7, <1>8, <1>11, <1>12 DEF Described, own

LEMMA KeptDescribed ==
  ASSUME IInv, NEW b \in Builders, SwapImage(b), NEW i \in Image, Taken(i.links, fresh[b].id), NEW m, NEW f,
         Described(image, i, m, f)
  PROVE  Described(image', i, m, f)
<1>1. \A l \in i.links : Pure(image, l) => Pure(image', l)
  BY PureIsKept
<1> QED
  BY <1>1 DEF Described, DeltaOf

LEMMA DescribedStep ==
  ASSUME IInv, NEW b \in Builders, Builds(b)
  PROVE  ImagesDescribed'
<1>0. Elsewhere(b) /\ Locked /\ DescribedAll(image, manifest)
  BY OwnedStep, ElsewhereIs DEF IInv, Core, ImagesDescribed, DescribedAll
<1>1. DescribedAll(image', manifest')
  <2>1. CASE SwapImage(b)
    <3> DEFINE f == module[b].file
    <3>1. /\ image' = [image EXCEPT ![f] = fresh[b]] /\ manifest' = manifest /\ f \in Sources /\ pc[b] \in Swapping
      BY <2>1 DEF SwapImage, Swapping, Writing, IInv, Core, BuildOK, Building, ShapeOK, Shape, Module
    <3>2. FreshOf(b)
      BY <3>1 DEF IInv, Core, FreshIds
    <3>3. SUFFICES ASSUME NEW g \in Sources, manifest[g] # NoEntry, image'[g] # NoEntry, image'[g].id = manifest[g].imageId
                   PROVE  Described(image', image'[g], manifest[g], g)
      BY <3>1 DEF DescribedAll
    <3>4. CASE g = f
      <4>1. image'[g] = fresh[b]
        BY <3>1, <3>4 DEF IInv, Core, TypeOK
      <4> QED
        BY <3>2, <3>3, <4>1 DEF FreshOf
    <3>5. CASE g # f
      <4>1. image'[g] = image[g]
        BY <3>1, <3>5 DEF IInv, Core, TypeOK
      <4>2. image[g] \in Image /\ Taken(image[g].links, fresh[b].id) /\ Described(image, image[g], manifest[g], g)
        BY <3>2, <3>3, <4>1, <1>0 DEF FreshOf, DescribedAll, IInv, Core, TypeOK
      <4> QED
        BY <2>1, <4>1, <4>2, KeptDescribed
    <3> QED
      BY <3>4, <3>5
  <2>2. CASE SwapManifest(b)
    <3> DEFINE m == module[b]
               new == [stamp |-> m.stamp, imageId |-> fresh[b].id, deps |-> m.deps,
                       inputs |-> m.inputs, prefix |-> m.prefix, linked |-> m.linked, direct |-> m.direct]
    <3>1. /\ manifest' = [manifest EXCEPT ![m.file] = new] /\ image' = image /\ pc[b] \in Swapping /\ pc[b] = "swapManifest"
      BY <2>2 DEF SwapManifest, Swapping
    <3>2. FreshOf(b) /\ Described(image, fresh[b], m, m.file) /\ m.file \in Sources
      BY <3>1 DEF IInv, Core, FreshIds, ImagesDescribed, BuildOK, Building, ShapeOK, Shape, Writing, Module
    <3>3. /\ new.deps = m.deps /\ new.inputs = m.inputs /\ new.prefix = m.prefix /\ new.linked = m.linked
          /\ new.direct = m.direct
      OBVIOUS
    <3> HIDE DEF new
    <3>4. Described(image, fresh[b], new, m.file)
      BY <3>2, <3>3 DEF Described, Named, Stamped
    <3>5. image[m.file] = fresh[b]
      BY <3>1, <3>2 DEF FreshOf
    <3>6. manifest'[m.file] = new /\ \A g \in Sources : g # m.file => manifest'[g] = manifest[g]
      BY <3>1, <3>2 DEF IInv, Core, TypeOK
    <3> QED
      BY <1>0, <3>1, <3>4, <3>5, <3>6 DEF DescribedAll
  <2>3. CASE ~SwapImage(b) /\ ~SwapManifest(b)
    BY <1>0, <2>3, CacheStep DEF IInv
  <2> QED
    BY <2>1, <2>2, <2>3
<1>2. ASSUME NEW c \in Builders, pc'[c] \in Swapping
      PROVE  Described(image', fresh'[c], module'[c], module'[c].file)
  <2>1. CASE c # b
    <3>1. pc'[c] = pc[c] /\ fresh'[c] = fresh[c] /\ module'[c] = module[c]
      BY <1>0, <2>1 DEF Elsewhere
    <3>2. Described(image, fresh[c], module[c], module[c].file)
      BY <1>2, <3>1 DEF IInv, ImagesDescribed
    <3>3. ~SwapImage(b)
      BY <1>0, <1>2, <2>1, <3>1 DEF Locked, SwapImage, Swapping, Holding
    <3> QED
      BY <3>1, <3>2, <3>3, CacheStep DEF IInv
  <2>2. CASE c = b /\ Save(b)
    <3>1. module' = module /\ image' = image
      BY <2>2 DEF Save
    <3> QED
      BY <2>2, <3>1, SavedIsDescribed
  <2>3. CASE c = b /\ SwapImage(b)
    <3>1. module' = module /\ fresh' = fresh /\ pc[b] \in Swapping
      BY <2>3 DEF SwapImage, Swapping
    <3>2. fresh[b] \in Image /\ Taken(fresh[b].links, fresh[b].id) /\ Described(image, fresh[b], module[b], module[b].file)
      BY <3>1 DEF IInv, Core, FreshIds, FreshOf, ImagesDescribed
    <3> QED
      BY <2>3, <3>1, <3>2, KeptDescribed
  <2> QED
    BY <1>2, <2>1, <2>2, <2>3, SwappingStep DEF IInv
<1> QED
  BY <1>1, <1>2 DEF ImagesDescribed, DescribedAll

-----------------------------------------------------------------------------
LEMMA InitCore == Init => Core
<1> SUFFICES ASSUME Init PROVE Core
  OBVIOUS
<1>1. TypeOK
  <2>1. <<>> \in Seq(Module) /\ "idle" \in PC /\ Root \in Files /\ InitialContent \in Contents
    BY CacheAssumption DEF PC, Files
  <2> QED
    BY <2>1 DEF Init, TypeOK
<1>2. Locked
  BY CacheAssumption DEF Init, Locked, Holding
<1>3. Ids /\ FreshIds
  BY DEF Init, Ids, FreshIds, Taken, Swapping
<1>4. ASSUME NEW b \in Builders
      PROVE  ShapeOK(b)
  <2>1. /\ pc[b] = "idle" /\ stack[b] = <<>> /\ ctx[b] = {} /\ linked[b] = {}
    BY DEF Init
  <2> QED
    BY <2>1 DEF ShapeOK, Shape, Writing
<1> QED
  BY <1>1, <1>2, <1>3, <1>4 DEF Core

LEMMA InitIInv == Init => IInv
<1> SUFFICES ASSUME Init PROVE IInv
  OBVIOUS
<1>1. ImagesDescribed
  BY DEF Init, ImagesDescribed, Swapping
<1>2. ASSUME NEW b \in Builders
      PROVE  BuildOK(b)
  <2>1. /\ pc[b] = "idle" /\ target[b] = Root /\ stack[b] = <<>> /\ module[b] = NoModule
        /\ ctx[b] = {} /\ linked[b] = {}
    BY DEF Init
  <2> QED
    BY <2>1, NothingIsBuilding DEF BuildOK
<1> QED
  BY <1>1, <1>2, InitCore DEF IInv

LEMMA StepCore == Core /\ [Next]_vars => Core'
<1> SUFFICES ASSUME Core, [Next]_vars
             PROVE  Core'
  OBVIOUS
<1>1. CASE \E b \in Builders : Builds(b)
  <2>1. PICK b \in Builders : Builds(b)
    BY <1>1
  <2>2. TypeOK' /\ Locked' /\ ShapeOK(b)'
    BY <2>1, TypeStep, LockedStep, ShapeStep
  <2>3. Ids' /\ FreshIds'
    BY <2>1, <2>2, IdsStep, FreshIdsStep
  <2>4. ASSUME NEW c \in Builders \ {b}
        PROVE  ShapeOK(c)'
    <3>1. Elsewhere(b) /\ ShapeOK(c)
      BY <2>1, OwnedStep, ElsewhereIs DEF Core
    <3> QED
      BY <3>1 DEF Elsewhere, ShapeOK
  <2> QED
    BY <2>2, <2>3, <2>4 DEF Core
<1>2. CASE (\E f \in Files, c \in Contents : Edit(f, c)) \/ UNCHANGED vars
  <2>1. /\ disk' \in [Files -> Contents] /\ scene' = scene /\ nextImage' = nextImage /\ image' = image /\ manifest' = manifest
        /\ lock' = lock /\ pc' = pc /\ target' = target /\ opened' = opened /\ stack' = stack /\ module' = module
        /\ fresh' = fresh /\ ctx' = ctx /\ linked' = linked
    <3>1. disk \in [Files -> Contents]
      BY DEF Core, TypeOK
    <3>2. CASE \E f \in Files, c \in Contents : Edit(f, c)
      BY <3>1, <3>2 DEF Edit, cacheVars, builderVars
    <3>3. CASE UNCHANGED vars
      BY <3>1, <3>3 DEF vars
    <3> QED
      BY <1>2, <3>2, <3>3
  <2>2. TypeOK' /\ Locked' /\ Ids'
    BY <2>1 DEF Core, TypeOK, Locked, Ids
  <2>3. FreshIds'
    BY <2>1 DEF Core, FreshIds, FreshOf
  <2>4. \A b \in Builders : ShapeOK(b)'
    BY <2>1 DEF Core, ShapeOK
  <2> QED
    BY <2>2, <2>3, <2>4 DEF Core
<1> QED
  BY <1>1, <1>2 DEF Next, Builds

LEMMA StepIInv == IInv /\ Undisturbed /\ Undisturbed' /\ [Next]_vars => IInv'
<1> SUFFICES ASSUME IInv, Undisturbed, Undisturbed', [Next]_vars
             PROVE  IInv'
  OBVIOUS
<1>0. Core'
  BY StepCore DEF IInv
<1>1. CASE \E b \in Builders : Builds(b)
  <2>1. PICK b \in Builders : Builds(b)
    BY <1>1
  <2>2. (\A c \in Builders : BuildOK(c)') /\ ImagesDescribed'
    BY <2>1, BuilderStep, DescribedStep
  <2> QED
    BY <2>2, <1>0 DEF IInv
<1>2. CASE (\E f \in Files, c \in Contents : Edit(f, c)) \/ UNCHANGED vars
  <2>1. /\ image' = image /\ manifest' = manifest /\ pc' = pc /\ target' = target /\ stack' = stack /\ module' = module
        /\ fresh' = fresh /\ ctx' = ctx /\ linked' = linked
    BY <1>2 DEF Edit, cacheVars, builderVars, vars
  <2>2. ImagesDescribed'
    BY <2>1 DEF IInv, ImagesDescribed
  <2>3. \A b \in Builders : BuildOK(b)'
    BY <2>1 DEF IInv, BuildOK
  <2> QED
    BY <1>0, <2>2, <2>3 DEF IInv
<1> QED
  BY <1>1, <1>2 DEF Next, Builds

(***************************************************************************)
(* Whatever is edited, crashes or cannot be written: the types, one writer  *)
(* at a time, and an image identity that nothing on disk or in memory has   *)
(* when it is swapped in.                                                   *)
(***************************************************************************)
THEOREM CoreInvariance == Spec => []Core
<1>1. Init => Core
  BY InitCore
<1>2. Core /\ [Next]_vars => Core'
  BY StepCore
<1> QED
  BY <1>1, <1>2, PTL DEF Spec

(* The types of everything on disk and in memory. *)
THEOREM TypeCorrect == Spec => []TypeOK
<1>1. Core => TypeOK
  BY DEF Core
<1> QED
  BY <1>1, CoreInvariance, PTL

(***************************************************************************)
(* As long as no nested module gives up its write-back and no image is      *)
(* restored over a state it was not made for, what each builder has in      *)
(* memory, and each image on disk, is named by its module or manifest.      *)
(***************************************************************************)
THEOREM Invariance == Spec /\ []Undisturbed => []IInv
<1>1. Init => IInv
  BY InitIInv
<1>2. IInv /\ Undisturbed /\ Undisturbed' /\ [Next]_vars => IInv'
  BY StepIInv
<1> QED
  BY <1>1, <1>2, PTL DEF Spec

(* A manifest lists every file its image was made from, whatever is edited
   and whoever dies: what may leave one incomplete is only a nested
   write-back that is given up, or an image restored over a state that has
   not loaded what it was made over. *)
THEOREM ManifestsAreComplete == Spec /\ []Undisturbed => []ManifestIsComplete
<1>1. IInv => ManifestIsComplete
  <2> SUFFICES ASSUME IInv, NEW f \in Sources, manifest[f] # NoEntry, ImageIsOwn(f),
                      NEW x \in image[f].defs \cup image[f].links
               PROVE  Named(manifest[f], x.file)
    BY DEF ManifestIsComplete, Named, Stamped
  <2>1. Described(image, image[f], manifest[f], f)
    BY DEF IInv, ImagesDescribed, ImageIsOwn
  <2> QED
    BY <2>1 DEF Described
<1> QED
  BY <1>1, Invariance, PTL
=============================================================================
