----------------------------- MODULE ModuleCache -----------------------------
(***************************************************************************)
(* The project's source-module cache.  A build executes the root file;     *)
(* every source file it reaches, by include, is restored from its own      *)
(* image when its manifest is still valid, and is otherwise executed and   *)
(* written back.  Builders are processes (or sessions) that share one      *)
(* cache directory; files are edited under them.                           *)
(*                                                                         *)
(* A stamp (size, mtime, hash) is the file's content.  A language state is *)
(* the set of definitions in it: what a file declares, with the content it *)
(* declared it from and what was visible to it.  An image is its identity, *)
(* the definitions it stores and the images it links.                      *)
(***************************************************************************)
EXTENDS Integers, Sequences, SequencesExt, FiniteSets

CONSTANTS Builders,
          Sources,       \* .rl files
          Libraries,     \* .rli files that no builder writes
          Contents,      \* what a file may contain
          Root,          \* the file a build executes
          InitialContent,
          NoContent, NoEntry, NoBuilder, NoModule,
          Scenes         \* the projects that are built and what may happen to them

Files == Sources \cup Libraries

ASSUME CacheAssumption ==
    /\ Sources \cap Libraries = {}
    /\ Root \in Sources
    /\ InitialContent \in Contents
    /\ Contents \subseteq Nat
    /\ NoContent \notin Contents
    /\ NoBuilder \notin Builders

(* includes: the files and libraries a source reaches, in order, for each of
   its contents; declaresFirst: the sources that declare before they include;
   builders: who builds it; files, contents, edits, images: bounds on what is
   edited, to what, how often, and on image identities; quiet: files are
   edited between builds only; replaces: an edit renames a new file over the
   old one; crashes: a builder may die; writesFail: an encoding, a write or a
   rename may fail.                                                          *)
ASSUME ScenesAssumption ==
    \A scene \in Scenes :
      /\ scene.includes \in [Sources -> [Contents -> Seq(Files)]]
      /\ scene.declaresFirst \subseteq Sources
      /\ scene.builders \subseteq Builders
      /\ scene.files \subseteq Files /\ scene.contents \subseteq Contents
      /\ {scene.edits, scene.images} \subseteq Nat
      /\ {scene.quiet, scene.replaces, scene.crashes, scene.writesFail} \subseteq BOOLEAN

VARIABLES
    scene,     \* the project, chosen once
    disk,      \* what each file contains
    edits,     \* bound: edits so far
    nextImage, \* the next image identity
    image,     \* the .rli of each source
    manifest,  \* the .manifest of each source
    lock,      \* who holds the directory lock exclusively
    pc,        \* where each builder is
    target,    \* the file it is entering
    opened,    \* the content behind the root's open stream
    stack,     \* ProjectCacheState::modules
    module,    \* the module being written back
    fresh,     \* the image in its temporary file
    ctx,       \* the definitions in the builder's context
    linked     \* the images its context has loaded, as links

vars == <<scene, disk, edits, nextImage, image, manifest, lock, pc, target, opened,
          stack, module, fresh, ctx, linked>>
builderVars == <<pc, target, opened, stack, module, fresh, ctx, linked>>
diskVars == <<scene, disk, edits>>
cacheVars == <<nextImage, image, manifest>>

Link == [file : Files, id : Nat]
Definition == [file : Files, content : Contents, over : SUBSET (Files \X Contents)]
Stamps == [Files -> Contents \cup {NoContent}]
PC == {"idle", "enter", "opened", "run", "import", "write", "save",
       "swapImage", "swapManifest", "observe"}

NoStamps == [f \in Files |-> NoContent]

Init ==
    /\ scene \in Scenes
    /\ disk = [f \in Files |-> InitialContent]
    /\ edits = 0
    /\ nextImage = 1
    /\ image = [f \in Sources |-> NoEntry]
    /\ manifest = [f \in Sources |-> NoEntry]
    /\ lock = NoBuilder
    /\ pc = [b \in Builders |-> "idle"]
    /\ target = [b \in Builders |-> Root]
    /\ opened = [b \in Builders |-> NoContent]
    /\ stack = [b \in Builders |-> <<>>]
    /\ module = [b \in Builders |-> NoModule]
    /\ fresh = [b \in Builders |-> NoEntry]
    /\ ctx = [b \in Builders |-> {}]
    /\ linked = [b \in Builders |-> {}]

-----------------------------------------------------------------------------
(* What a file declares in a given context. *)
Visible(defs) == {<<d.file, d.content>> : d \in defs}
Define(defs, f, c) == defs \cup {[file |-> f, content |-> c, over |-> Visible(defs)]}
Import(defs, f, c) == defs \cup {[file |-> f, content |-> c, over |-> {}]}

(* The image of f as the file system has it; a library is its own image.   *)
ImageId(f) == IF f \in Libraries THEN disk[f]
              ELSE IF image[f] = NoEntry THEN 0 ELSE image[f].id

(* sameStamp of every dependency and of every input image. *)
StampsHold(stamps) == \A f \in Files : stamps[f] # NoContent => disk[f] = stamps[f]
ImagesHold(inputs) == \A l \in inputs : ImageId(l.file) = l.id

(* loadImage follows the links of an image, except those the context has,  *)
(* and checks the identity of what it finds.                               *)
Loadable(b, f) == \A l \in image[f].links \ linked[b] : ImageId(l.file) = l.id
Loaded(b, f) ==
    LET missing == image[f].links \ linked[b]
    IN  (UNION {IF l.file \in Libraries
                THEN Import({}, l.file, disk[l.file])
                ELSE image[l.file].defs : l \in missing})
          \cup image[f].defs \cup ctx[b]

ImageIsOwnFault(f) == TRUE
(* The manifest names the image beside it: an interrupted replacement, or  *)
(* an image of another build, is a miss.                                   *)
ImageIsOwn(f) == image[f] # NoEntry /\ image[f].id = manifest[f].imageId

DependenciesHold(f) == StampsHold(manifest[f].deps)

(* An image that stores what it was entered with only suits that state. *)
PrefixHolds(b, f) == manifest[f].direct \/ manifest[f].prefix = ctx[b]

(* restoreCacheModule: the conditions of a hit. *)
Restorable(b, f) ==
    /\ manifest[f] # NoEntry
    /\ disk[f] = manifest[f].stamp
    /\ ImageIsOwn(f)
    /\ image[f] # NoEntry
    /\ DependenciesHold(f)
    /\ ImagesHold(manifest[f].inputs)
    /\ PrefixHolds(b, f)
    /\ Loadable(b, f)

(* beforeCacheDependency: a module with state of its own since the last    *)
(* dependency can no longer be an append-only delta.                       *)
Before(m, defs) == [m EXCEPT !.linked = @ /\ defs = m.base]
(* afterCacheDependency: what follows is the module's own state again.     *)
After(m, defs) == [m EXCEPT !.base = defs]

Merge(stamps, more) ==
    [g \in Files |-> IF stamps[g] # NoContent THEN stamps[g] ELSE more[g]]

AbsorbFault(m, deps, childLinked, defs) ==
    After([m EXCEPT !.linked = @ /\ childLinked], defs)
(* The parent of a finished child gains the child's dependencies (insert:  *)
(* a stamp it has already stays); a standalone child makes it standalone.  *)
Absorb(m, deps, childLinked, defs) ==
    After([m EXCEPT !.deps = Merge(@, deps), !.linked = @ /\ childLinked], defs)

InputsHold(m) ==
    /\ disk[m.file] = m.stamp
    /\ StampsHold(m.deps)
    /\ ImagesHold(m.inputs)

OnTop(s, m) == Append(Front(s), m)
Top(b) == Last(stack[b])

(* What beginCacheModule records of a source it is about to execute: its   *)
(* stamp, the images loaded so far with their present stamps, and, when a  *)
(* parent has state of its own already, the state it is entered with.      *)
ModuleOf(b, f, parents) ==
    LET direct == \A i \in DOMAIN parents : parents[i].direct /\ parents[i].linked
    IN  [file |-> f, stamp |-> disk[f],
         deps |-> [NoStamps EXCEPT ![f] = disk[f]],
         inputs |-> {[file |-> l.file, id |-> ImageId(l.file)] : l \in linked[b]},
         base |-> ctx[b],
         prefix |-> IF direct THEN {} ELSE ctx[b],
         linked |-> direct, direct |-> direct,
         content |-> NoContent, next |-> 1]

-----------------------------------------------------------------------------
ReleasedFault(b) == lock
(* The descriptor of the lock is closed on every way out. *)
Released(b) == IF lock = b THEN NoBuilder ELSE lock

Active == {b \in Builders : pc[b] # "idle"}

(* A builder loads the project's root file into a new session.             *)
Start(b) ==
    /\ pc[b] = "idle"
    /\ b \in scene.builders
    /\ nextImage + Cardinality(scene.files \cap Sources) * (Cardinality(Active) + 1) <= scene.images + 1
    /\ pc' = [pc EXCEPT ![b] = "enter"]
    /\ target' = [target EXCEPT ![b] = Root]
    /\ UNCHANGED <<diskVars, cacheVars, lock, opened, stack, module, fresh,
                   ctx, linked>>

(* The end of a build, or of the process: nothing of it stays in memory.   *)
Leave(b) ==
    /\ pc' = [pc EXCEPT ![b] = "idle"]
    /\ target' = [target EXCEPT ![b] = Root]
    /\ opened' = [opened EXCEPT ![b] = NoContent]
    /\ stack' = [stack EXCEPT ![b] = <<>>]
    /\ module' = [module EXCEPT ![b] = NoModule]
    /\ fresh' = [fresh EXCEPT ![b] = NoEntry]
    /\ ctx' = [ctx EXCEPT ![b] = {}]
    /\ linked' = [linked EXCEPT ![b] = {}]

Entering(b) == pc[b] = "enter" /\ target[b] \in Sources /\ lock = NoBuilder
Nested(b) == stack[b] # <<>>

(* A nested hit: the image takes the place of the file's execution. *)
Hit(b) ==
    LET f == target[b]
        state == Loaded(b, f)
    IN  /\ Entering(b) /\ Nested(b) /\ Restorable(b, f)
        /\ ctx' = [ctx EXCEPT ![b] = state]
        /\ linked' = [linked EXCEPT ![b] =
                        @ \cup image[f].links \cup {[file |-> f, id |-> image[f].id]}]
        /\ stack' = [stack EXCEPT ![b] =
                       OnTop(@, Absorb(Before(Last(@), ctx[b]), manifest[f].deps,
                                       manifest[f].linked, state))]
        /\ pc' = [pc EXCEPT ![b] = "run"]
        /\ UNCHANGED <<diskVars, cacheVars, lock, target, opened, module, fresh>>

(* A hit for the root: the whole build is one restore. *)
RootHit(b) ==
    /\ Entering(b) /\ ~Nested(b) /\ Restorable(b, target[b])
    /\ Leave(b)
    /\ UNCHANGED <<diskVars, cacheVars, lock>>

(* A nested miss: the child is stamped, then opened. *)
Miss(b) ==
    /\ Entering(b) /\ Nested(b) /\ ~Restorable(b, target[b])
    /\ stack' = [stack EXCEPT ![b] =
          LET parents == OnTop(@, Before(Last(@), ctx[b]))
          IN  Append(parents, ModuleOf(b, target[b], parents))]
    /\ pc' = [pc EXCEPT ![b] = "run"]
    /\ UNCHANGED <<diskVars, cacheVars, lock, target, opened, module, fresh,
                   ctx, linked>>

(* A miss for the root: it is opened, then stamped. *)
RootMiss(b) ==
    /\ Entering(b) /\ ~Nested(b) /\ ~Restorable(b, target[b])
    /\ opened' = [opened EXCEPT ![b] = disk[target[b]]]
    /\ pc' = [pc EXCEPT ![b] = "opened"]
    /\ UNCHANGED <<diskVars, cacheVars, lock, target, stack, module, fresh,
                   ctx, linked>>

BeginRoot(b) ==
    /\ pc[b] = "opened"
    /\ stack' = [stack EXCEPT ![b] = <<ModuleOf(b, target[b], <<>>)>>]
    /\ pc' = [pc EXCEPT ![b] = "run"]
    /\ UNCHANGED <<diskVars, cacheVars, lock, target, opened, module, fresh,
                   ctx, linked>>

-----------------------------------------------------------------------------
(* The stream is read: an edit in place shows through it, a file renamed   *)
(* over the one that was opened does not.                                  *)
Read(b) ==
    LET f == Top(b).file
        c == IF scene.replaces /\ Len(stack[b]) = 1 THEN opened[b] ELSE disk[f]
    IN  /\ pc[b] = "run"
        /\ Top(b).content = NoContent
        /\ stack' = [stack EXCEPT ![b] = OnTop(@, [Last(@) EXCEPT !.content = c])]
        /\ ctx' = [ctx EXCEPT ![b] = IF f \in scene.declaresFirst THEN Define(@, f, c)
                                                            ELSE @]
        /\ UNCHANGED <<diskVars, cacheVars, lock, pc, target, opened, module,
                       fresh, linked>>

IncludesOf(m) == scene.includes[m.file][m.content]

(* The next include or engine import of the source being executed. *)
Reach(b) ==
    /\ pc[b] = "run"
    /\ Top(b).content # NoContent
    /\ Top(b).next <= Len(IncludesOf(Top(b)))
    /\ target' = [target EXCEPT ![b] = IncludesOf(Top(b))[Top(b).next]]
    /\ stack' = [stack EXCEPT ![b] = OnTop(@, [Top(b) EXCEPT !.next = Top(b).next + 1])]
    /\ pc' = [pc EXCEPT ![b] = "enter"]
    /\ UNCHANGED <<diskVars, cacheVars, lock, opened, module, fresh, ctx,
                   linked>>

(* beginCacheImageDependency: every active module depends on the library.  *)
BeginImport(b) ==
    LET l == target[b]
        stamped(s) == [i \in DOMAIN s |-> [s[i] EXCEPT !.deps[l] = disk[l]]]
    IN  /\ pc[b] = "enter"
        /\ l \in Libraries
        /\ stack' = [stack EXCEPT ![b] =
                       LET s == stamped(@) IN OnTop(s, Before(Last(s), ctx[b]))]
        /\ pc' = [pc EXCEPT ![b] = "import"]
        /\ UNCHANGED <<diskVars, cacheVars, lock, target, opened, module, fresh,
                       ctx, linked>>

(* The library is loaded, unless the context has this very image already.  *)
LoadImport(b) ==
    LET l == target[b]
        link == [file |-> l, id |-> disk[l]]
        state == IF link \in linked[b] THEN ctx[b] ELSE Import(ctx[b], l, disk[l])
    IN  /\ pc[b] = "import"
        /\ ctx' = [ctx EXCEPT ![b] = state]
        /\ linked' = [linked EXCEPT ![b] = @ \cup {link}]
        /\ stack' = [stack EXCEPT ![b] = OnTop(@, After(Last(@), state))]
        /\ pc' = [pc EXCEPT ![b] = "run"]
        /\ UNCHANGED <<diskVars, cacheVars, lock, target, opened, module, fresh>>

(* The source has been executed to its end and leaves the module stack.    *)
(* The observer also reports the root, which is stamped once more.         *)
Finish(b) ==
    LET m == Top(b)
        stamped == IF Len(stack[b]) = 1 THEN [m EXCEPT !.deps[m.file] = disk[m.file]]
                                        ELSE m
    IN  /\ pc[b] = "run"
        /\ m.content # NoContent
        /\ m.next > Len(IncludesOf(m))
        /\ ctx' = [ctx EXCEPT ![b] = IF m.file \in scene.declaresFirst THEN @
                                     ELSE Define(@, m.file, m.content)]
        /\ module' = [module EXCEPT ![b] = stamped]
        /\ stack' = [stack EXCEPT ![b] = Front(@)]
        /\ pc' = [pc EXCEPT ![b] = "write"]
        /\ UNCHANGED <<diskVars, cacheVars, lock, target, opened, fresh, linked>>

-----------------------------------------------------------------------------
(* commitCacheModule.                                                      *)

(* Writers recheck their inputs before they publish. *)
InputsRechecked(b) == InputsHold(module[b])

(* The exclusive lock is taken and the inputs are checked. *)
CheckInputs(b) ==
    /\ pc[b] = "write"
    /\ lock = NoBuilder
    /\ InputsRechecked(b)
    /\ lock' = b
    /\ pc' = [pc EXCEPT ![b] = "save"]
    /\ UNCHANGED <<diskVars, cacheVars, target, opened, stack, module, fresh,
                   ctx, linked>>

(* The delta since the last dependency with links to all loaded images, or *)
(* the whole state without links, goes to a temporary file.                *)
Save(b) ==
    LET m == module[b]
    IN  /\ pc[b] = "save"
        /\ fresh' = [fresh EXCEPT ![b] =
              [id |-> nextImage,
               defs |-> IF m.linked THEN ctx[b] \ m.base ELSE ctx[b],
               links |-> IF m.linked THEN linked[b] ELSE {}]]
        /\ nextImage' = nextImage + 1
        /\ pc' = [pc EXCEPT ![b] = "swapImage"]
        /\ UNCHANGED <<diskVars, image, manifest, lock, target, opened, stack,
                       module, ctx, linked>>

(* The inputs are checked again and the image is renamed into place. *)
SwapImage(b) ==
    /\ pc[b] = "swapImage"
    /\ InputsRechecked(b)
    /\ image' = [image EXCEPT ![module[b].file] = fresh[b]]
    /\ pc' = [pc EXCEPT ![b] = "swapManifest"]
    /\ UNCHANGED <<diskVars, nextImage, manifest, lock, target, opened, stack,
                   module, fresh, ctx, linked>>

(* The manifest is renamed into place; the context links the new image and *)
(* the parent takes over the dependencies; the lock is released.           *)
SwapManifest(b) ==
    LET m == module[b]
    IN  /\ pc[b] = "swapManifest"
        /\ manifest' = [manifest EXCEPT ![m.file] =
              [stamp |-> m.stamp, imageId |-> fresh[b].id, deps |-> m.deps,
               inputs |-> m.inputs, prefix |-> m.prefix, linked |-> m.linked,
               direct |-> m.direct]]
        /\ lock' = NoBuilder
        /\ IF Nested(b)
           THEN /\ linked' = [linked EXCEPT ![b] =
                                @ \cup {[file |-> m.file, id |-> fresh[b].id]}]
                /\ stack' = [stack EXCEPT ![b] =
                               OnTop(@, Absorb(Last(@), m.deps, m.linked, ctx[b]))]
                /\ module' = [module EXCEPT ![b] = NoModule]
                /\ fresh' = [fresh EXCEPT ![b] = NoEntry]
                /\ pc' = [pc EXCEPT ![b] = "run"]
                /\ UNCHANGED <<target, opened, ctx>>
           ELSE Leave(b)
        /\ UNCHANGED <<diskVars, nextImage, image>>

(* The write-back is given up.  A nested source is then only observed; a   *)
(* root leaves nothing behind.                                             *)
GiveUp(b) ==
    /\ lock' = Released(b)
    /\ IF Nested(b)
       THEN /\ fresh' = [fresh EXCEPT ![b] = NoEntry]
            /\ pc' = [pc EXCEPT ![b] = "observe"]
            /\ UNCHANGED <<target, opened, stack, module, ctx, linked>>
       ELSE Leave(b)
    /\ UNCHANGED <<diskVars, cacheVars>>

(* An input changed since it was read. *)
Refuse(b) ==
    /\ \/ pc[b] = "write" /\ lock = NoBuilder
       \/ pc[b] = "swapImage"
    /\ ~InputsRechecked(b)
    /\ GiveUp(b)

(* The image or the manifest cannot be written, or not renamed. *)
WriteFails(b) ==
    /\ scene.writesFail
    /\ pc[b] \in {"save", "swapImage", "swapManifest"}
    /\ GiveUp(b)

(* observeCacheSource: the source is stamped now, for every active module. *)
Observe(b) ==
    LET f == module[b].file
    IN  /\ pc[b] = "observe"
        /\ stack' = [stack EXCEPT ![b] =
              [i \in DOMAIN @ |-> [@[i] EXCEPT !.deps[f] = disk[f]]]]
        /\ module' = [module EXCEPT ![b] = NoModule]
        /\ pc' = [pc EXCEPT ![b] = "run"]
        /\ UNCHANGED <<diskVars, cacheVars, lock, target, opened, fresh, ctx,
                       linked>>

-----------------------------------------------------------------------------
(* The kernel releases the lock of a dead process; the files stay. *)
Crash(b) ==
    /\ scene.crashes
    /\ pc[b] # "idle"
    /\ lock' = Released(b)
    /\ Leave(b)
    /\ UNCHANGED <<diskVars, cacheVars>>

(* An old stamp comes back only between builds (another checkout with its  *)
(* times restored); an edit under a build leaves a new time, that is, a    *)
(* greater content.                                                        *)
Edit(f, c) ==
    /\ f \in scene.files /\ c \in scene.contents
    /\ edits < scene.edits
    /\ scene.quiet => Active = {}
    /\ IF Active = {} THEN c # disk[f] ELSE c > disk[f]
    /\ disk' = [disk EXCEPT ![f] = c]
    /\ edits' = edits + 1
    /\ UNCHANGED <<scene, cacheVars, lock, builderVars>>

Enter(b) == Hit(b) \/ RootHit(b) \/ Miss(b) \/ RootMiss(b) \/ BeginRoot(b)
Execute(b) == \/ Read(b) \/ Reach(b) \/ BeginImport(b) \/ LoadImport(b)
              \/ Finish(b)
WriteBack(b) == \/ CheckInputs(b) \/ Save(b) \/ SwapImage(b) \/ SwapManifest(b)
                \/ Refuse(b) \/ WriteFails(b) \/ Observe(b)

Next ==
    \/ \E b \in Builders : \/ Start(b)
                           \/ Enter(b) \/ Execute(b) \/ WriteBack(b)
                           \/ Crash(b)
    \/ \E f \in Files, c \in Contents : Edit(f, c)

Spec == Init /\ [][Next]_vars

FairSpec ==
    /\ Spec
    /\ \A b \in Builders : SF_vars(Enter(b) \/ Execute(b) \/ WriteBack(b))

-----------------------------------------------------------------------------
(* What a build without a cache makes of a file: the reference for hits.   *)
Executed(f, defs) ==
    LET executed[g \in Sources, before \in SUBSET Definition] ==
            LET c == disk[g]
                own(state) == Define(state, g, c)
                step(state, h) == IF h \in Libraries THEN Import(state, h, disk[h])
                                                     ELSE executed[h, state]
                first == IF g \in scene.declaresFirst THEN own(before) ELSE before
                last == FoldLeft(step, first, scene.includes[g][c])
            IN  IF g \in scene.declaresFirst THEN last ELSE own(last)
    IN  executed[f, defs]

(* A restore puts the session in the state that executing the file would
   have put it in, for the files as they are on disk: whatever was edited,
   whichever other process wrote to the cache, wherever a writer died. *)
HitIsFaithful ==
    \A b \in Builders :
      Entering(b) /\ Restorable(b, target[b])
        => Loaded(b, target[b]) = Executed(target[b], ctx[b])

(* A manifest lists every file its image was made from: as a dependency, or,
   when it was there before the source began, as an input image or in the
   recorded prefix.  A change of any of them reaches this source. *)
ManifestIsComplete ==
    \A f \in Sources :
      manifest[f] # NoEntry /\ ImageIsOwn(f) =>
        \A g \in {x.file : x \in image[f].defs \cup image[f].links} :
          \/ manifest[f].deps[g] # NoContent
          \/ \E x \in manifest[f].inputs \cup manifest[f].prefix : x.file = g

(* No builder waits for ever: the directory lock is always released, and a
   build ends whatever the other builders do. *)
BuildsEnd == \A b \in Builders : pc[b] # "idle" ~> pc[b] = "idle"
=============================================================================
