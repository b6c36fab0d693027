------------------------------ MODULE Console ------------------------------
(***************************************************************************)
(* One terminal console and its connection to the server: connectUnix and  *)
(* serveUnixClient (src/source/runtime/Server.cpp) with the two directions *)
(* of their socket between them.                                           *)
(*                                                                         *)
(* A message is a whole line or one Ctrl+C byte: the console sends Ctrl+C  *)
(* only between lines, so a read that ends inside a line is a read that    *)
(* ends before it.  Commands are numbered by the console; a number that    *)
(* travels with a message or a frame is not on the wire, it records what   *)
(* the sender meant.                                                       *)
(***************************************************************************)
EXTENDS Naturals, Sequences, FiniteSets

CONSTANTS Commands,      \* bound: how many commands the console sends
          Typing,        \* bound: the commands one line of input is typed in
          Interrupts,    \* bound: how often Ctrl+C is pressed in one command
          Needs          \* for each block evaluated, how many interrupts end what it runs: 0 if it ends by itself

ASSUME BoundsAssumption == Commands \in Nat /\ Typing \subseteq 1..Commands /\ Interrupts \in Nat
ASSUME NeedsAssumption == Needs \in [1..Commands -> 0..2]

VARIABLES client,     \* [phase, n, typed, pressed]: what the console does, in which command, where it typed
          toServer,   \* the lines and Ctrl+C bytes on their way to the server
          toClient,   \* the frames on their way to the console
          conn,       \* [at, buffer, current, needs, level, worker]: the connection's loop
          late,       \* interruptBuffered: the commands whose Ctrl+C set it, {} when it is clear
          hits,       \* <<command Ctrl+C was pressed in, request it interrupted>>
          inputs,     \* <<command a line was typed in, request whose terminal got it>>
          refused     \* the commands that got no terminal

vars == <<client, toServer, toClient, conn, late, hits, inputs, refused>>

Kinds == {"console", "evaluate", "complete", "highlight", "stdin", "interrupt"}

Message(kind, n) == [kind |-> kind, n |-> n]

Frame(kind, n) == [kind |-> kind, n |-> n]

(* Output and status frames are one kind here: what matters is that the    *)
(* completion frame comes last.                                            *)
Reply(n) == <<Frame("O", n), Frame("P", n)>>

Gone == client.phase = "gone"

Init ==
  /\ client = [phase |-> "editing", n |-> 0, typed |-> {}, pressed |-> 0]
  /\ toServer = <<Message("console", 0)>>
  /\ toClient = <<>>
  /\ conn = [at |-> "recv", buffer |-> <<>>, current |-> 0, needs |-> 0, level |-> 0, worker |-> "none"]
  /\ late = {} /\ hits = {} /\ inputs = {} /\ refused = {}

-----------------------------------------------------------------------------
(* The console *)

Send(m) == toServer' = Append(toServer, m)

Command(kind, phase) ==
  /\ client.phase = "editing"
  /\ client.n < Commands
  /\ client' = [client EXCEPT !.phase = phase, !.n = @ + 1, !.pressed = 0]
  /\ Send(Message(kind, client.n + 1))
  /\ UNCHANGED <<toClient, conn, late, hits, inputs, refused>>

(* Enter sends the block and starts forwarding the keyboard. *)
Submit == Command("evaluate", "waiting")

(* The editor asks for completions or colours and reads nothing meanwhile. *)
Ask == \E kind \in {"complete", "highlight"} : Command(kind, "asking")

TypeLine ==
  /\ client.phase = "waiting"
  /\ client.n \in Typing \ client.typed
  /\ client' = [client EXCEPT !.typed = @ \union {client.n}]
  /\ Send(Message("stdin", client.n))
  /\ UNCHANGED <<toClient, conn, late, hits, inputs, refused>>

PressCtrlC ==
  /\ client.phase = "waiting"
  /\ client.pressed < Interrupts
  /\ client' = [client EXCEPT !.pressed = @ + 1]
  /\ Send(Message("interrupt", client.n))
  /\ UNCHANGED <<toClient, conn, late, hits, inputs, refused>>

(* One read: the completion frame must be the last thing in it.  Anything  *)
(* behind it ends the console, as a closed socket does; an answer to the   *)
(* editor is dropped instead.                                              *)
Consume ==
  /\ client.phase \in {"waiting", "asking"}
  /\ \E k \in 1..Len(toClient) :
       LET completed == {i \in 1..k : toClient[i].kind = "P"}
       IN  /\ toClient' = SubSeq(toClient, k + 1, Len(toClient))
           /\ client' = [client EXCEPT !.phase = IF completed = {} THEN @
                                                 ELSE IF completed = {k} \/ @ = "asking" THEN "editing" ELSE "gone"]
  /\ UNCHANGED <<toServer, conn, late, hits, inputs, refused>>

ServerClosed ==
  /\ client.phase \in {"waiting", "asking"}
  /\ toClient = <<>> /\ conn.at = "closed"
  /\ client' = [client EXCEPT !.phase = IF @ = "asking" THEN "editing" ELSE "gone"]
  /\ UNCHANGED <<toServer, toClient, conn, late, hits, inputs, refused>>

(* End of input at the prompt, or the console's process ends. *)
LeaveConsole ==
  /\ ~Gone
  /\ client' = [client EXCEPT !.phase = "gone"]
  /\ UNCHANGED <<toServer, toClient, conn, late, hits, inputs, refused>>

-----------------------------------------------------------------------------
(* The connection between requests *)

IsLine(m) == m.kind # "interrupt"

IsInterrupt(m) == m.kind = "interrupt"

IsInput(m) == m.kind = "stdin"

(* A Ctrl+C read between requests counts only behind a line of the same    *)
(* read: it is then kept for the request that starts next.                 *)

LateIn(chunk) ==
  {chunk[j].n : j \in {x \in DOMAIN chunk : IsInterrupt(chunk[x]) /\ \E i \in 1..(x - 1) : IsLine(chunk[i])}}

(* Lines wait for the loop, whatever stood between them. *)
LinesOf(chunk) ==
  LET kept[i \in 0..Len(chunk)] ==
        IF i = 0 THEN <<>>
        ELSE IF IsLine(chunk[i]) THEN Append(kept[i - 1], chunk[i]) ELSE kept[i - 1]
  IN  kept[Len(chunk)]

Recv ==
  /\ conn.at = "recv"
  /\ \E k \in 1..Len(toServer) :
       LET chunk == SubSeq(toServer, 1, k)
       IN  /\ toServer' = SubSeq(toServer, k + 1, Len(toServer))
           /\ conn' = [conn EXCEPT !.at = "lines", !.buffer = LinesOf(chunk)]
           /\ late' = late \union LateIn(chunk)
  /\ UNCHANGED <<client, toClient, hits, inputs, refused>>

RecvEndFault == FALSE

RecvEnd ==
  /\ conn.at = "recv"
  /\ toServer = <<>> /\ Gone
  /\ conn' = [conn EXCEPT !.at = "closed"]
  /\ UNCHANGED <<client, toServer, toClient, late, hits, inputs, refused>>

NextLine(kinds) == conn.at = "lines" /\ conn.buffer # <<>> /\ Head(conn.buffer).kind \in kinds

NoLine ==
  /\ conn.at = "lines" /\ conn.buffer = <<>>
  /\ conn' = [conn EXCEPT !.at = "recv"]
  /\ UNCHANGED <<client, toServer, toClient, late, hits, inputs, refused>>

Handshake ==
  /\ NextLine({"console"})
  /\ conn' = [conn EXCEPT !.buffer = Tail(@)]
  /\ UNCHANGED <<client, toServer, toClient, late, hits, inputs, refused>>

(* Input that arrives just after a command completed is dropped. *)
IsLeftoverFault(line) == FALSE

IsLeftover(line) == IsInput(line)

AfterLeftoverFault(buffer) == Append(Tail(buffer), Head(buffer))

AfterLeftover(buffer) == Tail(buffer)

SkipInput ==
  /\ conn.at = "lines" /\ conn.buffer # <<>> /\ IsLeftover(Head(conn.buffer))
  /\ conn' = [conn EXCEPT !.buffer = AfterLeftover(@)]
  /\ UNCHANGED <<client, toServer, toClient, late, hits, inputs, refused>>

(* Frames go out in one piece, or the send fails and the connection ends. *)
Answer(frames) ==
  IF Gone THEN UNCHANGED toClient /\ conn' = [conn EXCEPT !.at = "closed"]
  ELSE toClient' = toClient \o frames /\ conn' = [conn EXCEPT !.buffer = Tail(@)]

Highlight ==
  /\ NextLine({"highlight"})
  /\ Answer(Reply(Head(conn.buffer).n))
  /\ UNCHANGED <<client, toServer, late, hits, inputs, refused>>

IsRequest(line) == line.kind \in {"evaluate", "complete"}

NoTerminal ==
  /\ conn.at = "lines" /\ conn.buffer # <<>> /\ IsRequest(Head(conn.buffer))
  /\ Answer(Reply(Head(conn.buffer).n))
  /\ refused' = refused \union {Head(conn.buffer).n}
  /\ UNCHANGED <<client, toServer, late, hits, inputs>>

(* The interrupts the request starts with: a kept Ctrl+C is one, however   *)
(* many were read.                                                         *)

StartLevel == IF late = {} THEN 0 ELSE 1

StartRequest ==
  /\ conn.at = "lines" /\ conn.buffer # <<>>
  /\ LET line == Head(conn.buffer)
     IN  /\ line.kind # "console" /\ line.kind # "highlight" /\ ~IsLeftover(line)
         /\ conn' = [at |-> "running", buffer |-> Tail(conn.buffer), current |-> line.n,
                     needs |-> IF line.kind = "evaluate" THEN Needs[line.n] ELSE 0,
                     level |-> StartLevel, worker |-> "starting"]
         /\ hits' = hits \union {<<n, line.n>> : n \in late}
  /\ late' = {}
  /\ UNCHANGED <<client, toServer, toClient, inputs, refused>>

-----------------------------------------------------------------------------
(* The connection while a request runs *)

Running == conn.at = "running"


Interrupted(level, count) == IF level + count > 2 THEN 2 ELSE level + count

(* A request that was interrupted before its first step is cancelled there: *)
(* it has started nothing yet that could ignore a Ctrl+C.                   *)
FirstStepFault(level) == "busy"

FirstStep(level) == IF level > 0 THEN "done" ELSE "busy"

WorkerStarts ==
  /\ conn.worker = "starting"
  /\ conn' = [conn EXCEPT !.worker = FirstStep(conn.level)]
  /\ UNCHANGED <<client, toServer, toClient, late, hits, inputs, refused>>

(* The worker returns once it was interrupted as often as what it runs     *)
(* needs.                                                                  *)
WorkerEnds ==
  /\ conn.worker = "busy"
  /\ conn.level >= conn.needs
  /\ conn' = [conn EXCEPT !.worker = "done"]
  /\ UNCHANGED <<client, toServer, toClient, late, hits, inputs, refused>>

(* A program's output is streamed while it runs; bound: one frame a reply. *)
Stream ==
  /\ Running /\ conn.worker = "busy"
  /\ ~Gone /\ toClient = <<>>
  /\ toClient' = <<Frame("O", conn.current)>>
  /\ UNCHANGED <<client, toServer, conn, late, hits, inputs, refused>>

(* The input lines at the head of the buffer go to the request's terminal. *)
Deliver ==
  /\ Running
  /\ conn.buffer # <<>> /\ IsInput(Head(conn.buffer))
  /\ inputs' = inputs \union {<<Head(conn.buffer).n, conn.current>>}
  /\ conn' = [conn EXCEPT !.buffer = Tail(@)]
  /\ UNCHANGED <<client, toServer, toClient, late, hits, refused>>

(* Ctrl+C acts as soon as it is read; the lines wait in the buffer. *)
RecvRunning ==
  /\ Running
  /\ ~(conn.buffer # <<>> /\ IsInput(Head(conn.buffer)))
  /\ \E k \in 1..Len(toServer) :
       LET chunk == SubSeq(toServer, 1, k)
           pressed == {i \in 1..k : IsInterrupt(chunk[i])}
       IN  /\ toServer' = SubSeq(toServer, k + 1, Len(toServer))
           /\ conn' = [conn EXCEPT !.buffer = @ \o LinesOf(chunk),
                                   !.level = Interrupted(@, Cardinality(pressed))]
           /\ hits' = hits \union {<<chunk[i].n, conn.current>> : i \in pressed}
  /\ UNCHANGED <<client, toClient, late, inputs, refused>>

(* poll reports the hang-up before anything unread: the request is killed. *)
HangUp ==
  /\ Running /\ Gone
  /\ conn' = [conn EXCEPT !.at = "closing", !.level = 2]
  /\ UNCHANGED <<client, toServer, toClient, late, hits, inputs, refused>>

(* The console left after the poll, and the terminal's output cannot be    *)
(* sent: the request gets one more interrupt, and no kill.                 *)
DrainFails ==
  /\ Running /\ Gone
  /\ conn' = [conn EXCEPT !.at = "closing", !.level = Interrupted(@, 1)]
  /\ UNCHANGED <<client, toServer, toClient, late, hits, inputs, refused>>

(* request.get(), and the reply.  A request that quits ends the connection. *)
Finish ==
  /\ Running /\ conn.worker = "done"
  /\ IF Gone THEN UNCHANGED toClient ELSE toClient' = toClient \o Reply(conn.current)
  /\ \E quit \in BOOLEAN : conn' = [conn EXCEPT !.at = IF Gone \/ quit THEN "closed" ELSE "lines", !.worker = "none"]
  /\ UNCHANGED <<client, toServer, late, hits, inputs, refused>>

FinishClosing ==
  /\ conn.at = "closing" /\ conn.worker = "done"
  /\ conn' = [conn EXCEPT !.at = "closed", !.worker = "none"]
  /\ UNCHANGED <<client, toServer, toClient, late, hits, inputs, refused>>

-----------------------------------------------------------------------------

ConsoleStep == Submit \/ Ask \/ TypeLine \/ PressCtrlC \/ Consume \/ ServerClosed \/ LeaveConsole

ServerStep ==
  \/ Recv \/ RecvEnd \/ NoLine \/ Handshake \/ SkipInput \/ Highlight \/ NoTerminal \/ StartRequest
  \/ Deliver \/ RecvRunning \/ HangUp \/ DrainFails \/ Finish \/ FinishClosing

Next == ConsoleStep \/ ServerStep \/ WorkerStarts \/ WorkerEnds \/ Stream

Spec == Init /\ [][Next]_vars

(* The connection's thread is scheduled and its loop never stays in one    *)
(* phase: it takes what it finds.  The console reads what it waits for.    *)
(* The user owes nothing.                                                  *)
FairSpec ==
  /\ Spec
  /\ WF_vars(ServerStep) /\ WF_vars(RecvRunning) /\ WF_vars(Finish)
  /\ WF_vars(WorkerStarts) /\ WF_vars(WorkerEnds)
  /\ WF_vars(Consume) /\ WF_vars(ServerClosed)

-----------------------------------------------------------------------------
(* The console never gets a frame it did not ask for: at the prompt none   *)
(* is on its way, while it waits every frame is for the command it waits   *)
(* for, and nothing follows the completion frame.  A frame out of step     *)
(* would end the console (ConsoleFrames::consume), so input that arrives   *)
(* after a command completed must never be answered.                       *)
ReplyIsMine ==
  /\ client.phase = "editing" => toClient = <<>>
  /\ client.phase \in {"waiting", "asking"} =>
       \A i \in DOMAIN toClient :
          toClient[i].n = client.n /\ (toClient[i].kind = "P" => i = Len(toClient))

(* A line typed while a command runs reaches that command's terminal or    *)
(* none, never the terminal of a later one; and Ctrl+C pressed in one       *)
(* command interrupts another only in two ways: the command had input of    *)
(* its own still unread when it completed, or it got no terminal            *)
(* (Server.cpp, the comment on input arriving just after a command          *)
(* completed).                                                              *)
InputReachesItsOwn ==
  /\ \A pair \in inputs : pair[1] = pair[2]
  /\ \A pair \in hits : pair[1] = pair[2] \/ (pair[1] < pair[2] /\ pair[1] \in client.typed \union refused)

(* A command that ends by itself is answered; one that an interrupt ends is *)
(* over after the first Ctrl+C, and one that ignores it after the second    *)
(* (docs/project-runtime.md:292: "a second Ctrl+C forces termination"),     *)
(* wherever they are read: with the request's line, where any number of     *)
(* them counts as one, behind it, before the worker's first step or while   *)
(* the request runs.                                                        *)
CommandsAnswered ==
  \A n \in 1..Commands :
    /\ (client.phase \in {"waiting", "asking"} /\ client.n = n /\ Needs[n] = 0) ~> (client.phase \notin {"waiting", "asking"} \/ client.n # n)
    /\ (client.phase = "waiting" /\ client.n = n /\ client.pressed >= Needs[n] /\ Needs[n] > 0) ~> (client.phase # "waiting" \/ client.n # n)

(* A console that leaves is noticed: its connection closes, unless what the *)
(* request already runs ignores a first interrupt and the loss was noticed  *)
(* by a failed send, which does not kill.                                   *)
LeavingCloses ==
  Gone ~> \/ conn.at = "closed"
          \/ conn.at = "closing" /\ conn.worker = "busy" /\ conn.needs = 2 /\ conn.level = 1
=============================================================================
