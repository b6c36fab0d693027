# Verification of RecurLoop

RecurLoop is a language runtime whose syntax, types and phrases are data in one
append-only memory. A project server keeps that memory for many clients: it
publishes *generations* of the language state, gives each client a session with a
private copy, caches what source files make of it, and runs the clients' commands.
This directory holds TLA+ modules of the parts where order, concurrency, failure or an
intricate algorithm decide whether it works, the TLC configurations that check them on
small instances, and proofs of the most important properties for every instance.

Paths below are relative to the repository (`src/` in `PROJECT.json`).

## The system

| Component | State it keeps | Operations | Talks to | What is hard |
|---|---|---|---|---|
| Publication (`source/runtime/Project.cpp`, `Session.cpp`, `Generation.cpp`) | the current generation, id counter, publication mutex; per session: attached generation, private context, prepared publication, queued commands, highlight palette | attach, run / inspect a request, commit, rollback, `:publish`, `:publish-prepare`, `:publish-commit`, `:refresh`, `:baseline`, highlight, complete | sessions share the project under two mutexes; the console calls the session | publications of several sessions interleave; a generation chosen is attached later; requests throw half way; a cached palette goes stale |
| Module cache (`Project.cpp`, `Session.cpp`) | on disk an image and a manifest per source; per build a stack of open modules | restore, begin, commit of nested and root modules, observe | several processes share the directory under `flock`; files are edited meanwhile | writers die between two renames; files change between stamp, read and write-back; nested write-backs fail |
| Server (`Server.cpp`) | listener, registered descriptors, client threads, identity of the socket path | open, accept, register, stop, reap, remove the path | acceptor, client threads and the caller of `stop` share registry and mutex | stop races accept and close; descriptor numbers are used again |
| Console protocol (`Server.cpp`) | two directions of a socket; per connection a buffer, `interruptBuffered`, the running request | lines, frames, input, Ctrl+C, hang-up | console process, connection thread, request worker | Ctrl+C and input in flight when a command completes |
| Process control (`ProcessControl.hpp`, shell library, `NativeCall.cpp`) | process groups of a request, interrupt flag | fork, track, release, reap, interrupt, destroy | native code of the request, the connection's thread, the kernel | an interrupt between any two of these; pids used again |
| Targets (`Targets.cpp`) | the order of what is asked for, the commands run | validate, run, prepare, debug | session, engine | cycles, unknown names, a failure half way |
| Radix tree and lexicon (`source/radix`, `source/lexicon`) | one memory of nodes, items and contents; last node, last item, end | append with edge splits, match, traverse, allocate, checkpoint, nested dictionaries | everything that defines or looks up a phrase | undo must mend split edges; memory ends half way through an append |
| Transactions and scopes (`LexiconTransaction`, `LanguageActions.cpp`, `context/Values.cpp`) | watermarks into that memory | capture, restore, commit, promote; push and pop scopes | language actions, the Context API | nested and crossing undo |
| Engine images (`EngineImage.cpp`, `LanguageImage.cpp`) | loaded images and their links | save, save linked, load, merge, promote | cache, publication | an image over images over a changed prefix; references that cross images |
| Sources and the loop (`Source.cpp`, `Recurloop.cpp`, `Blocks.cpp`) | the stack of sources with their buffers and positions, the lookup dictionary | read, match, execute, include, look ahead, recover | lexicon, phrase actions, Context API | a phrase, a character or a block cut by the end of a chunk; failures in nested sources |
| Declared syntax (`SyntaxPattern.cpp`) | patterns in the lexicon | match with captures, offer what may follow | the loop, the editor's services | backtracking against phrases that own text |
| Functions (`FunctionsParser.cpp`, `FunctionsGenerator.cpp`, `LlvmBackend.cpp`) | tokens, scopes, the code made so far, pending patches | parse, emit, patch, call | lexicon, linker, JIT memory | defers and early exits, exceptions of callees, alignment of the stack in every position |
| Assembler (`source/recurloop/Assembler*.cpp`, `compiler/Assembler.cpp`) | the workspace's code and sections, the session's labels and references in the lexicon | parse operands, encode, label, branch, invoke, close a block | lexicon transactions, linker | a block that fails or is taken back half way; branches over sections |
| Linkers (`Module.cpp`, `StaticLinker.cpp`, `JitLinker.cpp`, `LanguageState.cpp`) | sections, symbols, relocations | compose, merge, resolve, place | object files, JIT memory | resolution order, strength of symbols, limits of relocations |
| Debugger (`Debugger.cpp`) | threads, breakpoints, original bytes | run, continue, step, interrupt, breakpoints, select | ptrace, terminal | asynchronous stops of several threads, signals, one byte shared by all |
| Line editor (`LineEditor.cpp`) | line, cursor, history, the screen it believes in | keys, paste, complete, redraw | terminal, completer | characters of several bytes and cells, wrapping, queued keys |
| Type rules, registries, Context API, VS Code extension, ELF files | each its own | each its own | each other | not modelled (below) |

What makes each of them correct:

- *Publication*: publications never go back; a session runs only on published
  generations and never falls back by itself; only settled states are published.
- *Cache*: a hit puts the session in the state that executing the file would; a
  manifest names every file its image was made from; builders always finish.
- *Server*: stop reaches its own connections only and all of them but one, nothing
  survives the return of `run`, the socket of another process stays.
- *Console*: every answer is for the command the console waits for; input and Ctrl+C
  act on the command they were given in; commands are answered; a lost console is
  noticed.
- *Process control*: signals reach the request's own processes, all of them, and none
  is left behind.
- *Targets*: what a target needs runs before it, once, and nothing behind a failure.
- *Radix tree*: the tree is a log of phrases; lookups agree with it; undo is exact;
  a failed append leaves no trace; no content is overwritten.
- *Values*: a lookup finds what the program means in the scope it means.
- *Images*: what comes back means what was saved, whichever images it was cut into.
- *Front and back end*: a text is executed and parsed as its grammar reads it, however it is
  cut; compiled code makes the calls its source means, in both back ends; machine code and
  linked references are those that were written.
- *Debugger*: what the prompt shows is true, the program keeps its instructions and its
  signals, and the prompt comes back.
- *Line editor*: keys edit whole characters, and the screen shows the line.

`PROJECT.json` lists the components with their status and the hazards, each at its
line with the properties that would catch it.

## Modules

### Publication

`PublicationLog` promises a log of generations that only grows, each newer than the
last, and clients that adopt entries of it. `Publication` is the protocol: one action
per step between lock operations or calls that can throw. `publish` is split at
`publishMutex_` (`PublishBegins`, `PublishInstalls`, `PublishFails`), `attach` from the
reading of the generation it attaches to, a request into begin, elaborate and commit
or rollback, and the queue of commands is drained one command a step. The language
state is an opaque content. `settled` records the contents that were ever committed,
`log` the generations that were current; neither is in the code. Not modelled: the
inspection replay and what a state consists of.

### Module cache

`ModuleCache` has one builder per process, a directory lock and a disk that is edited
while they work. A language state is the set of definitions read so far, each with the
content of the file it came from and the definitions before it. `Executed` is what a
build without a cache makes of a file: the reference of `HitIsFaithful`. Abstracted:
a stamp (inode, size, times) is the content, so an edit during a build brings a content
not seen before in it, and files go back only between builds; an image's identity is
fresh for each save; a restore checks and loads in one step and a file is read in one
step; each file is included once; a session builds one root. The baseline
hash and images made standalone because the prefix was written in place are left out.
A *scene*, chosen in the initial state, is the
project and what may happen to it: what each file includes for each of its contents,
which sources define something before their includes, who builds, which files are
edited and how, and whether builders crash and writes fail. `MCModuleCache` defines the
scenes of the runs, and three more that are not run (see *Differences*).

### Server

`Server` composes the caller of `run`, the acceptor, the client threads, a thread that
calls `stop`, and the kernel's table of descriptors: `FdOf` maps numbers to owners so
that a number closed by one thread can be opened again elsewhere. `removeUnixSocket` is
two steps, `CheckSocket` and `Unlink`, as the code makes two system calls. The constant
`PathRaces` says whether another process may replace the path between the two, or between
`bind` and the `lstat` that identifies the socket; the run takes it as FALSE. `stdio`, chosen
in the initial state, says whether `run` reads a console and stops the server itself. When
`chmod` or `listen` fails (`ListenFails`) the socket file is removed in `openUnix` and not in
`~Server`; the model has the one removal there.

### Console

`Console` is `connectUnix`, `serveUnixClient` and the two directions of their socket.
A message is a line or one Ctrl+C byte (the console writes Ctrl+C between lines only); a
read takes any non-empty prefix of what has arrived, on either side. Messages carry the
number of the command they were sent in, which is not on the wire: `hits` and `inputs`
compare it with the request that was reached. The worker is reduced to how many
interrupts end it (`Needs`: none, one or two); a request that is interrupted before its first
step is cancelled by that step, whatever it needs (`WorkerStarts`, `Recurloop.cpp` 257-258). Frames for output and status are one kind. The channels have
no bound, so a console that stops reading is not modelled.

### Process control

`ProcessControl` is one request: the shell library's invocation (fork all stages, track,
read, release, await), the native cancellation check after each call, the connection's
thread that interrupts and at last destroys, and the kernel's processes, whose ids are
used again.

### Targets

`Targets` visits the graph of what is asked for (`Visit`, with the three colours of
`visited`) and then runs the commands one a step; a command is its outcome. `request`
chooses the graph, the entries that may be asked for and whether a session runs, prepares
or debugs the target.

### Radix tree

`PhraseLog` promises a sequence of phrases and a stack of marks to return to.
`RadixTree` is the memory itself: nodes with the bits of their edge, items in three
chains (of a node, of an earlier item, of the whole tree), contents behind their item, and
the end. Append walks, splits an edge and adds a leaf in the order of `Node::append`, so
that a failing allocation leaves what the code leaves. Checkpoint restore follows the two
chains back as `Checkpoint::restore` does. `RadixTree` implements `PhraseLog`
(`LogRefinement`). Abstracted: every record takes one cell; keys are short
bit strings; a phrase's metadata is one cell, which for a dictionary holds the root of the
nested tree; the flags of a phrase are set with its definition; the request's byte copy
(`RequestGeneration`) and in-place writes below a watermark are not part of it. Scopes
define a phrase right after the capture, as the language's blocks and whitespace modes do with the
phrase that closes them (`LanguageActions.cpp` 386-396, 499-508, 577-588); it is for that reason that no item older
than a watermark is extended inside a scope, and nothing is said of a caller that takes a
watermark and defines nothing.

### Values

`Values` keeps runtime values in the arena of the lexicon: scopes, bindings and the marker of
the active scope are items, and a scope that owns the tail gives its memory back. Next to it
run definitions of other phrases and transactions that roll back to a watermark, possibly
taking open scopes with them. `env` is what the program means. `moved` marks the assignments
that got a new item since a transaction began: a rollback takes those back, while a value of
the same size is written in place and stays, and `env` says so.
### Engine images

`EngineImage` has a lexicon as a sequence of phrases with owners, versions of a key and one
reference that stands for the five of the code. `Capture`, `CaptureLinked`, `Restore`,
`ApplyLinked`, `Overlay`, `MergeSnapshot`, `MergeDictionary` and `Promote` are functions from lexicons to images and back;
`Means` compares what a chain of references leads to before and after. Promotion keeps what
was chosen. Dependencies of files are loaded depth-first, with files that are missing, whose
identity changed, or that name each other. Excluded, since the code loses or confuses them:
a dictionary redefined after it gained children, references to hidden versions across a
linked image, and paths imported twice (see *Differences*).

### Sources and declared syntax

`SourceLoop` runs the inputs of a session: chunks are read into a buffer, the longest phrase
of the lookup dictionary is matched, and its action passes, enters or leaves a dictionary,
includes a file, executes a text or a block, looks ahead or fails. The reference reads the
whole texts without chunks. Staging, completion and captured indentation are left out, and
so are the inputs named under *Differences* (`cut`).

`SyntaxPattern` is the matcher with its backtracking over literals, captures, optional and
alternative groups and layout, and the walk that offers what may follow. `ReadingIsFound`
compares it with the set of readings of a text; `CompletionOffers` says that every item is
offered where some text that goes on there is matched.

### Functions

`FunctionMeaning` says what a body means: the calls it makes, in order, given what the
functions it calls return and whether they leave an exception pending; how it ends and with
what. Deferred expressions run on every way out, errors included, as the documentation has it;
the back ends skip them on an error, which `NativeMeans` and `LlvmMeans` allow by name
(`SkipsDefers`) and `DefersRun` does not. `FunctionsParser` parses tokens into its statements; `ParsesBack` writes a body with the fewest
parentheses, in one line and with breaks wherever an expression may go on, and parses it.
`NativeFunction` and `LlvmFunction` are the two generators, as folds over statements that
emit, patch and keep scopes, and two machines that run what was made; an instruction stands for the few
machine instructions between two that touch `rsp`, the frame or control. Integers have two bits.
Calls are checked for alignment. Aggregates, floats, casts and function literals are left out.

### Assembler

`InstructionEncoding` encodes every mnemonic's operands into prefixes, opcode, ModRM, SIB,
displacement and immediate, and decodes them by the processor's rules. `OperandParser` reads
operands as the phrase actions do, token by token over dictionaries, and as the text parser
does. `Assembly` is the blocks: labels, branches and invocations in the lexicon, code and
sections in the workspace, closing a block into a module or patching it in place, and taking
the block's phrases back. `written` records what was accepted.

### Linking

`Linking` composes a module by name, takes archive members, merges sections with their
alignment, resolves symbols by strength, and places the result in memory with relocations
whose reach is limited. A cell is eight bytes.

### Debugger

`NativeDebugger` has the kernel's view of each thread (`k`), the controller's (`d`) and the
phases of its loops (`phase`, `ctl`). A ptrace request works at once; the controller
interleaves with the running threads where it waits. The INT3 at an address leaves a thread
one behind it. The instructions are those that move threads, frames and control; a thread may
end at any of them, also at a statement. The defects listed below end a behaviour in the phase `error`, which the properties exclude.

### Line editor

`LineEditor` is the buffer with bytes, the keys, history and completion, what is written to
the terminal, and the terminal: a grid that wraps late. `text`, `caret` and `clip` are the
line as characters. Highlighting, modes and descriptors are left out.

### Composition

`MCComponents`, `MCLexicon` and `MCMachine` put components that do not interact beside each
other in one run: `part` says which one a behaviour is of. `Once` names a value that is used
twice.

## Runs

| Run | Checks | Bounds |
|---|---|---|
| `publication` | types, settled contents, palette, no way back, refinement of `PublicationLog` | two sessions, two contents, nine scripts of commands, ids up to 10: up to eight openings, requests and publications in all |
| `publication_live` | the commands of a committed request drain | the same with three scripts and one content |
| `module_cache` | hits restore what executing the file gives, manifests name everything, builds end | four scenes (below) |
| `module_cache_shrunk` | *violation*: a hit brings back definitions of a file that is no longer included | one scene |
| `server` | the sweep spares others and misses one at most, nothing survives the return, a stop ends | two connections, three descriptor numbers, with and without a console |
| `process_control` | signals reach the right processes and all of them, no tracked child survives, interrupts end the request | a list of two two-stage pipelines, three process numbers, two interrupts |
| `process_control_orphan` | *violation*: a child between fork and track survives its request | one pipeline of two stages, one interrupt |
| `console` | answers in step, input and Ctrl+C reach their own command, commands are answered, a console that leaves is noticed | three commands that need two, one and no interrupts, a line of input in two, two Ctrl+C each |
| `radix_tree` | structure, matches, traversals, undo, contents, refinement of `PhraseLog`; images | two programs (below); lexicons of four phrases beyond the root with two keys and a hidden one, a checkpoint after one or two, graphs of three image files |
| `components` | meaning of native and LLVM code, parsing, syntax, linking, sources, targets, values, line editor | two statements or loops of 14 after a declaration, four calls with two outcomes; some 600 patterns on 14 texts; four roots against two libraries, archives and resolvers; sources of three tokens of twelve, chunks of one and of all; an arena of seven items; lines of six bytes and four keys on a terminal of three columns |
| `defers_on_error` | *violation*: a compiled function that leaves with an error skips its defers | the bodies of `components` |
| `machine` | the debugger's prompt, instructions and signals; encodings, operands, blocks | two threads in a program of six instructions, four debug points (one of them ends the thread), one disturbance; operands at the edges of three-bit bytes; lines of eight tokens; blocks of three statements, eight cells |

The scenes of `module_cache`: *Siblings*, a root with two includes, one of which imports a
library, all edited between builds; *Chain*, where the middle file defines something before
it includes, and builders die; *Shared*, two processes in one cache directory, with crashes
and failing writes; *InPlace*, a root and its library edited while they are built. The
programs of `radix_tree`: four keys, one a prefix of two others that part inside an edge,
room for three phrases and two nested scopes; and two keys that split each other's edge, with
dictionaries inside phrases and permanent phrases, in a region that ends in every step of the
second or third definition.

These are the smallest bounds at which the hazards appear. Two publishers are enough for
every race on `current_`, since each step reads or writes it under a lock, and ids up to 10
leave room for a preparation, an interfering publication and a commit or refresh after both.
Two connections and three numbers let a number be closed, reused by the rest of the process
and swept while another connection is accepted. Three process numbers under pipelines of two
stages force numbers to be used again within a request. Two statements after a declaration put every
form behind every other, and a loop body holds defers and every early exit. One disturbance
(a signal, a pause or a kill) already meets each phase of the controller with both threads
anywhere. Three columns make a line of six bytes wrap and a wide character meet the margin.
Each passing run is validated by mutants: `PROJECT.json` gives for every property a
plausible bug in a mapped definition that makes the run fail.

## Differences

### Violations checked by a run

Three runs end in a violation, each a difference between the code and what a comment or a
document says of it; `PROJECT.json` quotes both.

### Seen with other scenes and constants

No run repeats these; each takes one change to a configuration.

- Scene `Edited`: an included file changes while its includer is built. The refused write-back
  stamps the new file into the enclosing module (`observeCacheSource`), whose recheck then
  passes: `HitIsFaithful` fails.
- Scene `Replaced`: a rename over the root between its opening and its stamp makes the entry
  describe a text that was not executed: `HitIsFaithful` fails.
- Scene `FailedWrites`: the image of an included file cannot be written but those of its child
  and parent can. The parent's manifest lacks the child: `ManifestIsComplete` fails.
- `PathRaces = TRUE`: `removeUnixSocket` compares by `lstat` and removes by name, and a path
  that another process has put there in between is removed.
- An interrupt between `release` and `await` leaves an exited child a zombie of the server. A
  child has the default action for SIGINT from its fork on: in a host that ignores SIGINT it
  ignores it as well until its first instruction resets it (`libraries/shell/library.rl` 842),
  which is not modelled.
- A Ctrl+C kept behind a line that is then dropped interrupts the next command:
  `InputReachesItsOwn` states exactly in which two cases.

### Met while modelling, and left out of the properties

A model must follow the code, so where the code departs from what its reference would say the
module either follows it or leaves the input out. What a property excuses is a definition with a
name (`cut`, `NamesVisible`, `SkipsDefers`, `Excused` and so on); an input that is left out is
not among those a module enumerates.

- *Sources* (`cut` in `SourceLoop`): a file without a last newline is glued to what follows; a
  block that spans inputs gets the wrong locations; `matchFirst` never clears `more` and reads
  on to the end; `matchExact` compares with the buffered chunk only; looking ahead stops at the end
  of the input; recovery discards only what is buffered; the lookup dictionary stays what it
  was at the failure.
- *Images*: a linked image numbers a hidden version among all of its key while `applyLinked`
  resolves before any of them exists (`NamesVisible`); a base dictionary that gains a child and is then
  shadowed loses it (`Redefined`); an overlay by path replaces a base's visible version
  (`Single`); a merge into one of the source's own dictionaries never ends.
- *Linking* (`TwoWays`): `Module::merge` keeps an import weak when another part imports it strongly.
  A structure with a field of a structure still open takes size 0 (`TypeSystem.cpp` 380-430), and
  COMMON symbols always collide; neither is modelled.
- *Functions*: `break` or `continue` inside a value block that has pushed a temporary leaves the
  native stack unbalanced; a deferred expression resolves its names where the scope is left; a
  deferred `?` emits itself without end; an exception of a callee or a failed division skips the
  defers (`SkipsDefers`, run `defers_on_error`); LLVM goes on after a terminator inside a
  value block; the two back ends evaluate arguments in different orders.
- *Syntax patterns*: a `raw`, `code` or `expr` capture at the end of an optional or alternative
  group takes the rest of the line; the first way through a group is final; a raw capture may
  end inside a word.
- *Values*: a rollback keeps assignments made in place and takes those of another size back;
  frames left by it pile up; `popScope` updates the newest marker, not its own; a scope in
  which an outer value was resized keeps its memory.
- *Assembler*: native invocations that are not in tail position run with the stack
  misaligned; a block that fails after its last line leaves its code for the next definition (a
  behaviour of `Assembly` ends there); a branch to a label of another section is patched with
  that section's offset; a failing data directive leaves the bytes before it; reopening a section
  ignores other qualifiers; a label with the name of the entry or of an invoked native makes the block impossible
  to close; `[reg*4 + big]` truncates its displacement; the text parser and the phrases accept
  different operands (`[1 2]`, negative literals, comments without a space). An output without
  a name needs no entry (`Assembler.cpp` 194-196); of these only the raw one is modelled.
- *Debugger* (phase `error`, or excluded by the hypotheses of its properties): a stop restores
  the breakpoint's byte before the other threads are stopped (`Debugger.cpp` 547); the leader
  that exits first leaves the wait without end; a worker that exits before its clone event
  fails the wait (584-588); an interrupt sent to a thread with a stop that was not reaped
  stays pending; a signal pending at an instruction that gets a breakpoint is swallowed by
  the step over it (693-708), and a SIGSTOP that the program sends itself or is sent is reported as
  a pause and never delivered (528): `SignalsSurvive` excuses these two (`Excused`); a pause stops the selected thread only (713-718); a
  thread that exits while it is stepped over leaves the breakpoint uninstalled for the others
  (697-700), which `BreakpointsHold` excepts.
- *Line editor*: a pasted tab that crosses the right margin (`crossed`) and a key without effect
  queued behind another (`drained`) leave the screen stale; Delete erases a word; a prompt as
  wide as the terminal and a pasted newline disagree about the line they are on.

## Fairness

`publication_live` and `module_cache` assume that the thread of a session or a builder runs
on; strong fairness stands for `flock`, which grants every waiter in the end. Nothing is
assumed of user source, which may run for ever. In `server` the threads run, a client thread
whose connection has ended notices, descriptors are given back in the end (`accept4` is
retried until one is free), and peers hang up: `run` joins a connection that was accepted
while `stop` swept, so that without the last one `StopEnds` is false. In `console` the
connection's loop, its worker, the first step included, and the console's reads are fair, and the user owes nothing. In
`process_control` the worker and the destructor run, and no child has to exit by itself. In
the debugger the controller and each running thread make steps; signals, pauses and kills need
not come.

## Proofs

TLC checks small instances. The following hold for every number of sessions, connections,
descriptors, processes, stages, commands, files, builders, threads, scopes and phrases, every
script, project, debugged program, set of keys and size of memory,
from the named assumptions of the modules alone: what the constants are, and that absent
values lie outside the sets they are added to.

| Module | Theorems | The run's property |
|---|---|---|
| `PublicationProofs` | `TypeCorrect`, `AttachedIsPublished`, `PublicationsInOrder`, `AttachesForward`, `PublishedIsSettled`, `PaletteIsSound`, `ImplementsLog` | `TypeOK`, `NeverAttachesBackwards`, `PublishedWasSettled`, `PaletteIsFresh`, `LogRefinement` |
| `ServerProofs` | `StopIsSound`, `ReturnIsClean`, `ForeignPathIsKept` | `StopReachesItsOwn`, `ReturnLeavesNothing` |
| `ProcessControlProofs` | `InterruptIsSound`, `NothingTrackedOutlives` | `InterruptReachesItsOwn`, `TrackedDoNotOutlive` |
| `ConsoleProofs` | `RepliesAreInStep`, `InputIsSound`, `LinesOfIsOrdered` | `ReplyIsMine`, `InputReachesItsOwn` |
| `ModuleCacheProofs` | `CoreInvariance`, `TypeCorrect`, `ManifestsAreComplete` | `ManifestIsComplete` |
| `NativeDebuggerProofs` | `StoppedWorld`, `Breakpoints`, `Signals` | `StoppedWorldIsTrue`, `BreakpointsHold`, `SignalsSurvive` |
| `RadixTreeProofs` | `TreeStaysSound`, `NothingDangles`, `DefinitionsAreUndone`, `ScopesUndoExactly`, `ImplementsLog` | `DefinitionIsUndone`, `UndoIsExact`, `LogRefinement` |
| `RadixReadingProofs` | `ReadingIsRight`, `TreeIsAlwaysSound` | `TreeIsSound` |

Each module proves one inductive invariant, action by action, and the theorems from it
(`RadixReadingProofs` adds one to that of `RadixTreeProofs`). TLC checked each invariant on the
run's instance before it was proved.

*Publication.* The order of publications is not inductive by itself. A one-step publication
compares no ids: it relies on having taken its id under `publishMutex_`. So `IInv` adds that
whoever holds the lock in `publishing` has an id above the current one (`PublisherIsAhead`),
which in turn needs that every id in use is below the counter (`IdsTaken`). A two-phase
commit compares. Each gives `LogStep`: a step appends one newer generation to the log or
leaves it. For `AttachesForward` the current generation is the newest any session runs on
(`CurrentIsNewest`), so what a session has chosen stays at least as new as what it runs on
(`Forward`) until it attaches. `PublishedWasSettled` needs that everything which can become
current is settled (`Settlement`): a prepared publication, a publication in progress, and the
context of a session that is between requests. `PaletteIsFresh` needs that a palette's two keys
determine its context as long as the session has not changed it (`PaletteInv`).

*Server.* The sweep of `stop` can miss a connection only if it was accepted before the
listener was closed and registered after the sweep. `SweepMissesOne` says where such a
connection is: in the acceptor's hands, or served and registered since; `OneAccepted` that the
acceptor has one at a time. `RegistryIsServing` (the registered numbers are those of the
connections served) and `OwnNumber` (one number for each open descriptor) make a registered
number safe to shut down, and `ThreadsAreListed` gives `run` every thread to join.
`ForeignPathIsKept` assumes that nobody replaces the path between two system calls
(`~PathRaces`); without it the theorem is false.

*Process control.* `GroupsAreChildren` is the heart: `groups_` holds a child only from its
`track` to its `release`, and before `release` it is not reaped, so its number cannot be that
of another process. `LiveAreRegistered` says that a child which was registered stays so while it lives.
`IndexInside` keeps the loops within the invocation.

*Console.* A completion frame is the last thing of a command on the wire (`RepliesInStep`),
and the console sends nothing of the next command before it reads it (`Exchange`). What is in the buffer and
under way is therefore ordered by command: lines first those of earlier commands, which the
server drops or has delivered (`RunsTheLast`, `StruckIsEvaluated`). `LateIsExcused` describes
the Ctrl+C that outlive their command. The lines of a chunk are a recursive function; that it
keeps their order is proved for chunks of any length. Since the library's induction
cannot be instantiated here, `SetInduction` derives an induction principle about *sets* of
numbers from the least number of a set, and the proof applies it to the set of lengths for which
the statement holds.

*Module cache.* `Core` holds whatever happens: types, one builder between taking the directory
lock and giving it up (`Locked`), and identities of images in the making that are nowhere else
(`Ids`, `FreshIds`). For `ManifestIsComplete`, each module that is open, with the modules open
inside it, names every file read or restored since it began (`EachNames`, `ModulesWhole`), and a
linked module adds only its own definitions: the rest came with images that were loaded, which
have manifests of their own (`DeltaOf`, `ImagesDescribed`). The hypothesis `Undisturbed` excludes
two kinds of step. When a nested write-back is given up its module's list is lost and the
enclosing manifest lacks it (scene `FailedWrites`); when an image is restored into a session that
did not load what it was made over (the finding of `module_cache_shrunk`), definitions arrive
that no list names. TLC shows that dropping either makes the theorem false. The theorem is about
every behaviour of any project in which neither happens, crashes and edits included.

*Debugger.* What the prompt shows is true because it stays true of each thread from its stop on:
a thread the controller holds (`Held`: known, stopped and not being single-stepped) is stopped
in the kernel with nothing to report, stands where its record or, if it is selected, its copy
says, and its breakpoint is the one it stands on (`Beliefs`, `Settled`). A thread that lives and is not
known was announced by a clone nobody has waited for yet, or is the one being waited for
(`Newborns`), so once all known threads rest there is none. A breakpoint out of the text is
one that some held thread stands on (`Installed`, `Standing`), while the threads are moved past
theirs one of those still to be moved, so that none is left when the threads go on; it is here
that a thread which ends on the breakpoint it is stepped over leaves it out for good. `Synced`
says when the selected thread's record has the signal of its copy, which is what
`ResumeThreads` delivers. The program's text is assumed closed: control reaches instructions of
the program only (`ProgramAssumption`).

*Radix tree.* `UndoIsExact` says of each open scope that nothing done after it changes what a
rollback would leave. One step at a time this needs, of everything an append may do (a split, a
leaf, an item, its metadata, an extension), that undoing it down to where memory ended before
gives the tree of before, *as far as a rollback to an earlier mark looks*. `Alike` is that
relation: one tree may have more records at the mark or above, as long as nothing leads to them.
The two loops of `Checkpoint::restore` are shown to work as one (`UndoneStep`), `RestoreAgrees`
carries `Alike` through it by induction downwards
over addresses (`DownInduction`), and each append has a lemma with its form and one that it is undone (`Leafed`, `Splitted`, `Pushed`, `Extended`,
`Described`). For these the tree must be `Sound`: references lead to records; a child names its
parent and hangs on the side of the first bit of its edge, since this is the bit by which
`restore` finds the link to mend; the newest item of a node is its own and the last of its chain; chains of
earlier records lead downwards; contents overlay nothing and those of the last item end where
memory does (`Packed`), which is why an extension cannot run into a record. An
undo is itself undone by an outer one, so `IInv` asks all this of what each open mark would
restore as well (`RestoreRestore`), and that an item above each mark is left while its scope is
open: it is the closing phrase, without which `ExtendPhrase` could extend an item older than the
scope, and no rollback takes back the bytes an older item counts. `DefinitionsAreUndone` is the
same argument for a definition that stops at any of its steps.

*Radix tree, the list of phrases.* `ImplementsLog` adds what the tree *says* to what it is. The
functions `Keys` and `Roots` give every node its whole key and the root of its dictionary;
`Upward` says that each follows from the parent's, and `UpwardIs` that only one pair of functions
does, so that `KeyOf` and `TreeRoot` are recomputed after a step by exhibiting the new pair. A
leaf and a split edge add one node and keep the name of every other (`LeafedFiled`,
`SplittedFiled`: the two halves of an edge join to the edge, `CutTwice`). A descent only visits
nodes named by the bits it has matched (`DescentNames`), and it reaches the node whose key it
follows (`DescentReaches`), so that a dictionary has one node per key at most (`KeysAreUnique`) and
`AppendKey` answers with the node of the key it was asked for (`AppendKeyProvides`). The order of
items is the chain of their earlier links read backwards; a new item is appended to it
(`OrderLonger`), and since addresses go up along it, a position in it is the number of items
that are not younger (`PositionBelow`). With this the list of phrases is appended to by a
definition (`SavePhraseTells`), and the permanent phrase that `MayDefine` looks for is the newest
of its key in the list (`NewestIsTold`), which is the guard of the abstract definition. For the
rollback, `FInv` says of each open scope that what a rollback to it would leave tells the front of
the list that is older than the mark (`Sees`); that later steps do not disturb this is
`UndoIsExact`. A definition that fails half-way is rolled back to where it began, hence a stutter.

*Radix tree, what it answers.* `RadixReadingProofs` derives `TreeIsSound` from the same
invariants and one more, that the keys of all phrases are keys of the program (`KInv`). A descent
is a path of visits (`DescentIsPath`), each node of it named by the bits matched so far, and it
visits every node whose key begins the text (`PathReaches`). So the candidates of a match are
exactly the keys with a phrase that begin the text, the shorter ones first (`CandidatesForm`),
and the first, the last and the exact match are the least, the greatest and the equal one
(`MatchForm`, `MatchExactForm`); the phrase found there is the newest of its key in the list
(`NewestOfNode`). Where the descent stops, some key goes on from all that was read if and only if
the text ends inside an edge or at a node with children (`Towards`, `StopForm`).
For the traversals there are two orders of keys, one with the bit 1 last and one with the bit 0
last (`Precedes`). `NextNode` and `PrevInverse` step to the nearest node after, each in its order
(`NextOfRight`), `PrevNode` and `NextInverse` to the nearest before (`BackOfRight`); the climb to
the next sibling and the descent to the last node of a subtree are shown right from the nodes
above and below (`ClimbStep`, `DeepestStep`), by induction over the number of nodes that come
later in a strict order (`RankInduction`). Steps to the nearest node after visit, once and in
order, all that come after (`WalkVisits`), and a finite set can be sorted in one way only
(`SortedOnce`): so a forward walk lists the dictionary, and the backward one is its reverse.
`Walk`, the climb and the descent are recursive functions whose definition says something only
once such a function is known to exist; `StepsExist` and `LeadsExist` show that it does, whatever
the tree.

Not proved, and checked by TLC alone:

- liveness and what speaks of `ENABLED`, which the prover does not handle;
- `HitIsFaithful`, which is false outside the scenes of its run, and compares with an
  execution of whole files;
- modules with `RECURSIVE` operators (`Targets`, images, front and back end, assembler,
  linking, patterns, sources, line editor), where the prover loses its arithmetic, and whose
  properties are about what an algorithm computes for each input;
- `Values`, whose inductive invariant is not found yet.

## Not modelled

- The byte copy of a request's rollback and the inspection replay: both are bookkeeping about
  the layout of memory whose effect `Publication` models.
- Type rules and registries, the Context API: many small operations without shared control;
  what they define is used by the modules above as given.
- The VS Code extension, argument parsing and start-up; ELF layout and LLVM's own passes; the
  programs in `libraries/` and `examples/`, which are users of the system (the shell library
  is modelled, since the runtime's process control depends on it); vendored and generated
  files.

## Plan

1. The inductive invariant of `Values` (`ScopesMean`).
2. The inspection replay, composed with `Publication`.
