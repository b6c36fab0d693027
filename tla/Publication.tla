---------------------------- MODULE Publication -----------------------------
(***************************************************************************)
(* A Project and the Sessions of its clients: requests with rollback, the  *)
(* commands a committed request runs, one-step and two-phase publication   *)
(* under publishMutex_, and the attachment of a session to a generation.   *)
(*                                                                         *)
(* A session's mutex_ is held for a whole request, so the program counter  *)
(* pc[s] is that of the one thread inside session s.  A generation is its  *)
(* id and the portable language state it holds; language states are opaque *)
(* (Contents).                                                             *)
(***************************************************************************)
EXTENDS Integers, Sequences

CONSTANTS Sessions,     \* client sessions
          Contents,     \* language states
          BaseContent,  \* the language state the project is created with
          NoSession, NoGeneration, NoPalette,
          MaxId,        \* bound: no request or session starts above this id
          Scripts       \* the command sequences a request may queue

Command == {"publish", "prepare", "commit", "refresh", "baseline"}

ASSUME PublicationAssumption ==
    /\ BaseContent \in Contents
    /\ NoSession \notin Sessions
    /\ MaxId \in Nat
    /\ Scripts \subseteq Seq(Command)

ASSUME NoneAssumption ==
    /\ NoGeneration \notin [id : Nat, content : Contents]
    /\ NoPalette \notin [session : Nat, content : Contents]

VARIABLES
    nextId,       \* Project::nextId_
    current,      \* Project::current_
    publishLock,  \* holder of Project::publishMutex_, or NoSession
    pc,           \* where the session's thread is
    content,      \* the language state of Session::contextGeneration_
    snapshot,     \* RequestGeneration's rollback buffer
    commands,     \* SessionRequestState::commands
    inspecting,   \* whether the running request is an inspection
    pending,      \* the generation being published or attached to
    prepared,     \* Session::preparedPublication_
    project,      \* Session::projectGeneration_
    sessionId,    \* contextGeneration_->generations().session
    palette,      \* Session::consoleHighlighter_ and its generation
    log,          \* history: the generations that have been current, in order
    settled       \* history: language states that committed requests made

vars == <<nextId, current, publishLock, pc, content, snapshot, commands,
          inspecting, pending, prepared, project, sessionId, palette, log,
          settled>>

Generation == [id : Nat, content : Contents]
Palette == [session : Nat, content : Contents]
PC == {"closed", "opening", "idle", "running", "elaborated", "commands",
       "publishing", "attaching"}

(* The generation of Project::create; baseline_ never changes. *)
Baseline == [id |-> 1, content |-> BaseContent]

Init ==
    /\ nextId = 3                       \* create took the first two ids
    /\ current = Baseline
    /\ publishLock = NoSession
    /\ pc = [s \in Sessions |-> "closed"]
    /\ content = [s \in Sessions |-> BaseContent]
    /\ snapshot = [s \in Sessions |-> BaseContent]
    /\ commands = [s \in Sessions |-> <<>>]
    /\ inspecting = [s \in Sessions |-> FALSE]
    /\ pending = [s \in Sessions |-> NoGeneration]
    /\ prepared = [s \in Sessions |-> NoGeneration]
    /\ project = [s \in Sessions |-> NoGeneration]
    /\ sessionId = [s \in Sessions |-> 0]
    /\ palette = [s \in Sessions |-> NoPalette]
    /\ log = <<Baseline>>
    /\ settled = {BaseContent}

-----------------------------------------------------------------------------
(* The ideas the actions below turn on, each with a faulty variant (named  *)
(* ...Fault) that the mutation checks substitute for it.                   *)

PublishLockFreeFault == TRUE
(* publish and commitPublication wait for publishMutex_. *)
PublishLockFree == publishLock = NoSession

SupersedesFault(g) == TRUE
(* commitPublication only replaces an older current generation. *)
Supersedes(g) == current.id < g.id

RestoredFault(s) == content[s]
(* What a rollback leaves in the session's context. *)
Restored(s) == snapshot[s]

CommittedSessionIdFault(s) == sessionId[s]
(* A committed request is a new session generation. *)
CommittedSessionId(s) == nextId + 1

LockAfterFailureFault == publishLock
(* The lock guard is released when the encoder throws. *)
LockAfterFailure == NoSession

RefreshTargetUnset(s) == prepared[s]
(* The generation a refresh selects. *)
RefreshTarget(s) == current

(* A new client reads current_ under the shared lock and takes its session *)
(* id; the Session constructor then attaches to what was read.             *)
OpenSession(s) ==
    /\ pc[s] = "closed"
    /\ nextId <= MaxId
    /\ pending' = [pending EXCEPT ![s] = current]
    /\ nextId' = nextId + 1
    /\ pc' = [pc EXCEPT ![s] = "opening"]
    /\ UNCHANGED <<current, publishLock, content, snapshot, commands,
                   inspecting, prepared, project, sessionId, palette, log,
                   settled>>

(* attach: a private context over the generation's lexicon replaces the    *)
(* session's context, with fresh context and session generation ids; a     *)
(* prepared publication and the cached palette are dropped.                *)
Attach(s) ==
    /\ pc[s] \in {"opening", "attaching"}
    /\ project' = [project EXCEPT ![s] = pending[s]]
    /\ prepared' = [prepared EXCEPT ![s] = NoGeneration]
    /\ palette' = [palette EXCEPT ![s] = NoPalette]
    /\ content' = [content EXCEPT ![s] = pending[s].content]
    /\ sessionId' = [sessionId EXCEPT ![s] = nextId + 1]
    /\ nextId' = nextId + 2
    /\ pending' = [pending EXCEPT ![s] = NoGeneration]
    /\ pc' = [pc EXCEPT ![s] = "commands"]
    /\ UNCHANGED <<current, publishLock, snapshot, commands, inspecting, log,
                   settled>>

(* The new context cannot be mapped: attach throws after it has replaced   *)
(* projectGeneration_ and dropped the rest; the old context stays in use   *)
(* and the commands still queued are abandoned.                            *)
AttachFails(s) ==
    /\ pc[s] = "attaching"
    /\ project' = [project EXCEPT ![s] = pending[s]]
    /\ prepared' = [prepared EXCEPT ![s] = NoGeneration]
    /\ palette' = [palette EXCEPT ![s] = NoPalette]
    /\ nextId' = nextId + 2
    /\ pending' = [pending EXCEPT ![s] = NoGeneration]
    /\ commands' = [commands EXCEPT ![s] = <<>>]
    /\ pc' = [pc EXCEPT ![s] = "idle"]
    /\ UNCHANGED <<current, publishLock, content, snapshot, inspecting,
                   sessionId, log, settled>>

-----------------------------------------------------------------------------
(* runRequest and inspect: the language state is copied before anything of *)
(* the request runs.  (inspect on the session's own context: the case      *)
(* without a project cache.)                                               *)
BeginRequest(s, inspect) ==
    /\ pc[s] = "idle"
    /\ nextId <= MaxId
    /\ nextId' = nextId + 1
    /\ snapshot' = [snapshot EXCEPT ![s] = content[s]]
    /\ inspecting' = [inspecting EXCEPT ![s] = inspect]
    /\ pc' = [pc EXCEPT ![s] = "running"]
    /\ UNCHANGED <<current, publishLock, content, commands, pending, prepared,
                   project, sessionId, palette, log, settled>>

(* What the request's source does: it changes the language state, and the  *)
(* session commands it names are queued without being run.                 *)
Elaborate(s, c, script) ==
    /\ pc[s] = "running"
    /\ content' = [content EXCEPT ![s] = c]
    /\ commands' = [commands EXCEPT ![s] = script]
    /\ pc' = [pc EXCEPT ![s] = "elaborated"]
    /\ UNCHANGED <<nextId, current, publishLock, snapshot, inspecting, pending,
                   prepared, project, sessionId, palette, log, settled>>

CommitRequest(s) ==
    /\ pc[s] = "elaborated"
    /\ ~inspecting[s]
    /\ sessionId' = [sessionId EXCEPT ![s] = CommittedSessionId(s)]
    /\ nextId' = nextId + 2
    /\ settled' = settled \cup ({content[s]} \ {snapshot[s]})
    /\ pc' = [pc EXCEPT ![s] = "commands"]
    /\ UNCHANGED <<current, publishLock, content, snapshot, commands,
                   inspecting, pending, prepared, project, palette, log>>

(* An operation that throws, and every inspection, restores the copy; the  *)
(* queued commands are never run.                                          *)
RollbackRequest(s) ==
    /\ pc[s] = "elaborated"
    /\ content' = [content EXCEPT ![s] = Restored(s)]
    /\ commands' = [commands EXCEPT ![s] = <<>>]
    /\ pc' = [pc EXCEPT ![s] = "idle"]
    /\ UNCHANGED <<nextId, current, publishLock, snapshot, inspecting, pending,
                   prepared, project, sessionId, palette, log, settled>>

(* The response is sent once the queue is empty. *)
FinishRequest(s) ==
    /\ pc[s] = "commands"
    /\ commands[s] = <<>>
    /\ pc' = [pc EXCEPT ![s] = "idle"]
    /\ UNCHANGED <<nextId, current, publishLock, content, snapshot, commands,
                   inspecting, pending, prepared, project, sessionId, palette,
                   log, settled>>

-----------------------------------------------------------------------------
(* The commands of a committed request, in order.                          *)
NextCommand(s, command) ==
    /\ pc[s] = "commands"
    /\ commands[s] # <<>>
    /\ Head(commands[s]) = command

Snapshot(s) == [id |-> nextId, content |-> content[s]]

(* publish: the ids are taken and the state is encoded under publishMutex_. *)
PublishBegins(s) ==
    /\ NextCommand(s, "publish")
    /\ PublishLockFree
    /\ publishLock' = s
    /\ pending' = [pending EXCEPT ![s] = Snapshot(s)]
    /\ nextId' = nextId + 2
    /\ commands' = [commands EXCEPT ![s] = Tail(@)]
    /\ pc' = [pc EXCEPT ![s] = "publishing"]
    /\ UNCHANGED <<current, content, snapshot, inspecting, prepared, project,
                   sessionId, palette, log, settled>>

(* The image is complete: it becomes current and the lock is released. *)
PublishInstalls(s) ==
    /\ pc[s] = "publishing"
    /\ current' = pending[s]
    /\ log' = Append(log, pending[s])
    /\ publishLock' = NoSession
    /\ pc' = [pc EXCEPT ![s] = "attaching"]
    /\ UNCHANGED <<nextId, content, snapshot, commands, inspecting, pending,
                   prepared, project, sessionId, palette, settled>>

(* The encoder rejects the state (a live process-local payload). *)
PublishFails(s) ==
    /\ pc[s] = "publishing"
    /\ publishLock' = LockAfterFailure
    /\ pending' = [pending EXCEPT ![s] = NoGeneration]
    /\ commands' = [commands EXCEPT ![s] = <<>>]
    /\ pc' = [pc EXCEPT ![s] = "idle"]
    /\ UNCHANGED <<nextId, current, content, snapshot, inspecting, prepared,
                   project, sessionId, palette, log, settled>>

(* preparePublication: ids and image, without publishMutex_. *)
Prepare(s) ==
    /\ NextCommand(s, "prepare")
    /\ prepared' = [prepared EXCEPT ![s] = Snapshot(s)]
    /\ nextId' = nextId + 2
    /\ commands' = [commands EXCEPT ![s] = Tail(@)]
    /\ UNCHANGED <<current, publishLock, pc, content, snapshot, inspecting,
                   pending, project, sessionId, palette, log, settled>>

(* The ids are spent, but the encoder rejects the state. *)
PrepareFails(s) ==
    /\ NextCommand(s, "prepare")
    /\ nextId' = nextId + 2
    /\ commands' = [commands EXCEPT ![s] = <<>>]
    /\ pc' = [pc EXCEPT ![s] = "idle"]
    /\ UNCHANGED <<current, publishLock, content, snapshot, inspecting,
                   pending, prepared, project, sessionId, palette, log,
                   settled>>

(* commitPublication: current_ is compared and replaced under both locks. *)
CommitPublication(s) ==
    /\ NextCommand(s, "commit")
    /\ PublishLockFree
    /\ prepared[s] # NoGeneration
    /\ Supersedes(prepared[s])
    /\ current' = prepared[s]
    /\ log' = Append(log, prepared[s])
    /\ pending' = [pending EXCEPT ![s] = prepared[s]]
    /\ commands' = [commands EXCEPT ![s] = Tail(@)]
    /\ pc' = [pc EXCEPT ![s] = "attaching"]
    /\ UNCHANGED <<nextId, publishLock, content, snapshot, inspecting,
                   prepared, project, sessionId, palette, settled>>

(* Nothing prepared, or a newer generation is current: the prepared one is *)
(* dropped and the rest of the queue with it.                              *)
CommitRefused(s) ==
    /\ NextCommand(s, "commit")
    /\ prepared[s] # NoGeneration
         => PublishLockFree /\ ~Supersedes(prepared[s])
    /\ prepared' = [prepared EXCEPT ![s] = NoGeneration]
    /\ commands' = [commands EXCEPT ![s] = <<>>]
    /\ pc' = [pc EXCEPT ![s] = "idle"]
    /\ UNCHANGED <<nextId, current, publishLock, content, snapshot, inspecting,
                   pending, project, sessionId, palette, log, settled>>

(* refresh and baseline read a generation, then attach to it. *)
Select(s, command, generation) ==
    /\ NextCommand(s, command)
    /\ pending' = [pending EXCEPT ![s] = generation]
    /\ commands' = [commands EXCEPT ![s] = Tail(@)]
    /\ pc' = [pc EXCEPT ![s] = "attaching"]
    /\ UNCHANGED <<nextId, current, publishLock, content, snapshot, inspecting,
                   prepared, project, sessionId, palette, log, settled>>

Refresh(s) == Select(s, "refresh", RefreshTarget(s))

SelectBaseline(s) == Select(s, "baseline", Baseline)

-----------------------------------------------------------------------------
(* Console services of an idle session.                                    *)

(* highlight: the palette is rebuilt when it is of another session         *)
(* generation, and reused otherwise.                                       *)
Highlight(s) ==
    /\ pc[s] = "idle"
    /\ palette[s] # NoPalette => palette[s].session # sessionId[s]
    /\ palette' = [palette EXCEPT ![s] = [session |-> sessionId[s],
                                          content |-> content[s]]]
    /\ UNCHANGED <<nextId, current, publishLock, pc, content, snapshot,
                   commands, inspecting, pending, prepared, project,
                   sessionId, log, settled>>

(* complete: a user-defined provider runs outside any request and may      *)
(* change the language state; the palette is dropped first.                *)
Complete(s, c) ==
    /\ pc[s] = "idle"
    /\ palette' = [palette EXCEPT ![s] = NoPalette]
    /\ content' = [content EXCEPT ![s] = c]
    /\ settled' = settled \cup {c}
    /\ UNCHANGED <<nextId, current, publishLock, pc, snapshot, commands,
                   inspecting, pending, prepared, project, sessionId, log>>

-----------------------------------------------------------------------------
AttachStep(s) == Attach(s) \/ AttachFails(s)

RequestStep(s) ==
    \/ \E inspect \in BOOLEAN : BeginRequest(s, inspect)
    \/ \E c \in Contents, script \in Scripts : Elaborate(s, c, script)
    \/ CommitRequest(s)
    \/ RollbackRequest(s)

CommandStep(s) ==
    \/ FinishRequest(s)
    \/ PublishBegins(s) \/ PublishInstalls(s) \/ PublishFails(s)
    \/ Prepare(s) \/ PrepareFails(s)
    \/ CommitPublication(s) \/ CommitRefused(s)
    \/ Refresh(s) \/ SelectBaseline(s)

ConsoleStep(s) ==
    \/ Highlight(s)
    \/ \E c \in Contents : Complete(s, c)

Next == \E s \in Sessions : \/ OpenSession(s)
                            \/ AttachStep(s)
                            \/ RequestStep(s)
                            \/ CommandStep(s)
                            \/ ConsoleStep(s)

Spec == Init /\ [][Next]_vars

(* The thread of a session keeps running through its commands; what the    *)
(* user's source does inside a request is not assumed to end.              *)
FairSpec ==
    /\ Spec
    /\ \A s \in Sessions : WF_vars(AttachStep(s) \/ CommandStep(s))
-----------------------------------------------------------------------------
(* Properties.                                                             *)

(* Type invariant: every variable ranges over the values the code gives it,
   and a session between reading a generation and attaching to it holds one. *)
TypeOK ==
    /\ nextId \in Nat
    /\ current \in Generation
    /\ publishLock \in Sessions \cup {NoSession}
    /\ pc \in [Sessions -> PC]
    /\ content \in [Sessions -> Contents]
    /\ snapshot \in [Sessions -> Contents]
    /\ commands \in [Sessions -> Seq(Command)]
    /\ inspecting \in [Sessions -> BOOLEAN]
    /\ pending \in [Sessions -> Generation \cup {NoGeneration}]
    /\ prepared \in [Sessions -> Generation \cup {NoGeneration}]
    /\ project \in [Sessions -> Generation \cup {NoGeneration}]
    /\ sessionId \in [Sessions -> Nat]
    /\ palette \in [Sessions -> Palette \cup {NoPalette}]
    /\ log \in Seq(Generation)
    /\ settled \subseteq Contents
    /\ \A s \in Sessions :
         pc[s] \in {"opening", "publishing", "attaching"}
           => pending[s] # NoGeneration

(* Publications never go back: however one-step and two-phase publications
   of several sessions interleave, every generation that becomes current is
   newer than all that were current before it. *)
PublishedInOrder ==
    /\ log # <<>>
    /\ current = log[Len(log)]
    /\ \A i, j \in DOMAIN log : i < j => log[i].id < log[j].id

(* No session runs on a generation that was only prepared: what it attached
   to, or is about to attach to, has been current. *)
AttachedWasPublished ==
    \A s \in Sessions :
      /\ project[s] # NoGeneration
           => \E i \in DOMAIN log : log[i] = project[s]
      /\ pc[s] \in {"opening", "attaching"}
           => \E i \in DOMAIN log : log[i] = pending[s]

(* What is published was the settled state of some session: never the
   state of a request that was still running or was rolled back. *)
PublishedWasSettled ==
    \A i \in DOMAIN log : log[i].content \in settled

(* The cached console palette is only reused for the language state it was
   built from, although requests, rollbacks, attachments and completion
   providers change that state between two highlights. *)
PaletteIsFresh ==
    \A s \in Sessions :
      (pc[s] = "idle" /\ palette[s] # NoPalette
         /\ palette[s].session = sessionId[s])
        => palette[s].content = content[s]

GoesForward(s) ==
    project'[s] # project[s] /\ project[s] # NoGeneration
      => project'[s] = Baseline \/ project'[s].id > project[s].id

(* Attaching never takes a session back to an older generation, except when
   it asks for the baseline. *)
NeverAttachesBackwards == [][\A s \in Sessions : GoesForward(s)]_vars

(* Once its request has committed, a session finishes its commands: neither
   publishMutex_ nor another session can hold it for ever. *)
CommandsDrain ==
    \A s \in Sessions : pc[s] = "commands" ~> pc[s] = "idle"

(* The protocol implements the log of published generations. *)
Log == INSTANCE PublicationLog WITH view <- project
LogRefinement == Log!LogSpec
=============================================================================
