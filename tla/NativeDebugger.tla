--------------------------- MODULE NativeDebugger ----------------------------
(* The debugger of emitted executables (Debugger.cpp): one controller, the      *)
(* threads it traces, and the kernel between them. A ptrace request works on a   *)
(* stopped thread at once; the controller and the running threads interleave     *)
(* where it waits. Addresses are even numbers, so that the INT3 at address a     *)
(* leaves a thread at a + 1, in the middle of an instruction of the program.     *)
(* Left out: what inspection commands print, exec and processes the target       *)
(* starts, and the terminal's process group.                                     *)
EXTENDS Integers, Sequences, Functions, TLC

CONSTANTS Threads, Leader,
          Program,       \* [address -> [op, to]]
          Points,        \* [address -> [line, function]], the debug points
          Entry, Worker, \* where the leader and a new thread start
          Configurable,  \* breakpoints a user may set
          MaxDisturbances   \* bound: signals sent, pauses requested and kills

NoAddress == 0
Free == "none"

ASSUME DebuggerAssumption ==
    /\ Leader \in Threads
    /\ \A a \in DOMAIN Program : a \in Nat /\ a > 0 /\ a % 2 = 0
    /\ DOMAIN Points \subseteq DOMAIN Program
    /\ {Entry, Worker} \subseteq DOMAIN Program
(* Control stays in the program's instructions.                                     *)
ASSUME ProgramAssumption ==
    \A a \in DOMAIN Program : /\ Program[a].to \subseteq DOMAIN Program
                              /\ Program[a].op \in {"call", "clone"} => a + 2 \in DOMAIN Program

VARIABLES
    k,            \* the kernel's view of each thread
    d,            \* what the controller knows, and what it writes by ptrace (rip, text)
    phase, ctl,   \* where the controller is, and the locals of its functions
    configured,   \* the active breakpoints of the lexicon
    initialStop,  \* nothing has run since exec
    disturbances, \* those that have come
    dropped       \* ghost: the threads the last step resumed without the signal they were stopped for

vars == <<k, d, phase, ctl, configured, initialStop, disturbances, dropped>>

-----------------------------------------------------------------------------
(* The kernel. `event` is a stop or an exit nobody has waited for; `interrupt`   *)
(* is a requested stop, which entering any stop fulfils, but which stays          *)
(* requested when the thread is stopped already. `sig` is a signal on its way:    *)
(* "queued", "halt" for a SIGSTOP and "terminal" for Ctrl+C; the first two are    *)
(* "offered" and "halting" in the stop that reports them.                         *)
Absent == [state |-> "absent", event |-> Free, interrupt |-> FALSE, sig |-> Free,
           single |-> FALSE, frames |-> <<>>, born |-> 0]
Alive(t) == k[t].state \in {"running", "stopped"}
StopWith(th, ev) == [th EXCEPT !.state = "stopped", !.event = ev, !.interrupt = FALSE, !.single = FALSE]
Die(th) == [th EXCEPT !.state = "zombie", !.event = "exit", !.interrupt = FALSE, !.sig = Free, !.frames = <<>>]
KillAll == [t \in Threads |-> IF Alive(t) THEN Die(k[t]) ELSE k[t]]

(* A leader is reported only when no other thread is left to be waited for. *)
Reapable(t) ==
    /\ k[t].event # Free
    /\ (t = Leader /\ k[t].event = "exit") => \A u \in Threads \ {Leader} : k[u].state \in {"absent", "gone"}
Reported(th) == [th EXCEPT !.event = Free, !.state = IF th.event = "exit" THEN "gone" ELSE @]
Reaped(t) == [k EXCEPT ![t] = Reported(@)]
(* PTRACE_CONT and PTRACE_SINGLESTEP, with the signal they deliver. *)
Offered == {"offered", "halting"}
Resumed(th, single) == [th EXCEPT !.state = "running", !.single = single, !.sig = IF @ \in Offered THEN Free ELSE @]
Swallows(t, signal) == k[t].sig \in Offered /\ signal = Free
NoneDropped == dropped' = {}

Debuggee(t) ==
    /\ k[t].state = "running"
    /\ UNCHANGED <<phase, ctl, configured, initialStop>> /\ NoneDropped
Interrupted(t) ==
    /\ Debuggee(t) /\ k[t].interrupt
    /\ k' = [k EXCEPT ![t] = StopWith(@, "stop")]
    /\ UNCHANGED <<d, disturbances>>
Signalled(t) ==
    /\ Debuggee(t) /\ ~k[t].interrupt /\ k[t].sig \in {"queued", "halt", "terminal"}
    /\ k' = [k EXCEPT ![t] = CASE @.sig = "queued" -> StopWith([@ EXCEPT !.sig = "offered"], "signal")
                               [] @.sig = "halt" -> StopWith([@ EXCEPT !.sig = "halting"], "sigstop")
                               [] OTHER -> StopWith([@ EXCEPT !.sig = Free], "tty")]
    /\ UNCHANGED <<d, disturbances>>

Proceeds(t) == Debuggee(t) /\ ~k[t].interrupt /\ k[t].sig = Free /\ UNCHANGED disturbances
HitInt3(t) ==
    /\ Proceeds(t) /\ d.rip[t] \in d.text
    /\ d' = [d EXCEPT !.rip[t] = @ + 1]
    /\ k' = [k EXCEPT ![t] = StopWith(@, "int3")]
Executes(t, op) == Proceeds(t) /\ d.rip[t] \in DOMAIN Program \ d.text /\ Program[d.rip[t]].op = op
After(th) == IF th.single THEN StopWith(th, "trace") ELSE th
Plain(t) ==
    /\ Executes(t, "plain")
    /\ \E to \in Program[d.rip[t]].to : d' = [d EXCEPT !.rip[t] = to]
    /\ k' = [k EXCEPT ![t] = After(@)]
CallOrReturn(t) ==
    LET here == d.rip[t] th == k[t] IN
    \/ /\ Executes(t, "call")
       /\ \E to \in Program[here].to : d' = [d EXCEPT !.rip[t] = to]
       /\ k' = [k EXCEPT ![t] = After([th EXCEPT !.frames = <<here + 2>> \o th.frames])]
    \/ /\ Executes(t, "return")
       /\ th.frames # <<>>
       /\ d' = [d EXCEPT !.rip[t] = Head(th.frames)]
       /\ k' = [k EXCEPT ![t] = After([th EXCEPT !.frames = Tail(th.frames)])]
(* A new thread is traced from its birth and stopped. *)
Clone(t) ==
    /\ Executes(t, "clone")
    /\ \E c \in Threads : /\ k[c].state = "absent"
                          /\ k' = [k EXCEPT ![c] = StopWith(@, "stop"), ![t] = [StopWith(@, "clone") EXCEPT !.born = c]]
                          /\ d' = [d EXCEPT !.rip[c] = Worker, !.rip[t] = @ + 2]
(* A thread ends alone; the leader as well, or with the whole process.           *)
Exit(t) ==
    /\ Executes(t, "exit")
    /\ \/ k' = [k EXCEPT ![t] = Die(@)]
       \/ t = Leader /\ k' = KillAll
    /\ UNCHANGED d
ThreadStep(t) == HitInt3(t) \/ Plain(t) \/ CallOrReturn(t) \/ Clone(t) \/ Exit(t) \/ Interrupted(t) \/ Signalled(t)

(* From outside or from the program itself: signals, one of them SIGSTOP, Ctrl+C  *)
(* in its terminal, a kill.                                                        *)
Disturb == disturbances < MaxDisturbances /\ disturbances' = disturbances + 1
SendSignal ==
    /\ Disturb
    /\ \E t \in Threads, s \in {"queued", "halt", "terminal"} :
         /\ k[t].state = "running" /\ k[t].sig = Free
         /\ k' = [k EXCEPT ![t].sig = s]
    /\ UNCHANGED <<d, phase, ctl, configured, initialStop>> /\ NoneDropped
KillTarget ==
    /\ Disturb
    /\ \E t \in Threads : Alive(t)
    /\ k' = KillAll
    /\ UNCHANGED <<d, phase, ctl, configured, initialStop>> /\ NoneDropped

-----------------------------------------------------------------------------
(* The controller's bookkeeping. `cur` is the selected thread's copy in           *)
(* ExecutableState, which saveThread writes back.                                 *)
NativeThread == [stopped |-> TRUE, signal |-> Free, instruction |-> NoAddress, breakpoint |-> NoAddress]
Saved(th, cur) == [th EXCEPT !.instruction = cur.instruction, !.breakpoint = cur.breakpoint, !.signal = cur.signal]
SaveThreadFault(s) ==
    IF s.sel \in DOMAIN s.threads THEN [s EXCEPT !.threads[s.sel] = Saved(@, [s.cur EXCEPT !.signal = Free])] ELSE s
SaveThread(s) == IF s.sel \in DOMAIN s.threads THEN [s EXCEPT !.threads[s.sel] = Saved(@, s.cur)] ELSE s
Load(s, t) == [s EXCEPT !.sel = t, !.cur = s.threads[t]]
SelectThread(s, t) == Load(SaveThread(s), t)

RestoreBreakpoint(s, a) == [s EXCEPT !.text = s.text \ {a}, !.bps = [s.bps EXCEPT ![a] = FALSE]]
ReinsertBreakpointFault(s, a) == s
ReinsertBreakpoint(s, a) == [s EXCEPT !.text = s.text \cup {a}, !.bps = [s.bps EXCEPT ![a] = TRUE]]
RestoreAllBreakpoints(s) == [s EXCEPT !.text = s.text \ DOMAIN s.bps, !.bps = [a \in DOMAIN s.bps |-> FALSE]]

(* A line without a statement stands for the next one that has some; a function   *)
(* stops at its first statement.                                                  *)
FirstOf(S) == {a \in S : \A b \in S : a <= b}
ResolvedLine(line) == FirstOf({Points[a].line : a \in {p \in DOMAIN Points : Points[p].line >= line}})
Selected(b) ==
    IF b.kind = "line" THEN {a \in DOMAIN Points : Points[a].line \in ResolvedLine(b.line)}
    ELSE FirstOf({a \in DOMAIN Points : Points[a].function = b.function})
Install(s, addresses) ==
    [s EXCEPT !.text = s.text \cup (addresses \ DOMAIN s.bps),
              !.bps = [a \in addresses \cup DOMAIN s.bps |-> IF a \in DOMAIN s.bps THEN s.bps[a] ELSE TRUE]]
InstallConfigured(s, breakpoints) ==
    LET fresh == Install([RestoreAllBreakpoints(s) EXCEPT !.bps = << >>], UNION {Selected(b) : b \in breakpoints})
        On(a) == IF a \in DOMAIN fresh.bps THEN a ELSE NoAddress
        here == IF s.cur.instruction \in DOMAIN Points THEN On(s.cur.instruction) ELSE NoAddress
    IN [fresh EXCEPT !.cur = [s.cur EXCEPT !.breakpoint = IF here # NoAddress THEN here ELSE On(s.cur.breakpoint)],
                     !.threads = [t \in DOMAIN s.threads |-> [s.threads[t] EXCEPT !.breakpoint = On(s.threads[t].instruction)]]]

(* A thread that hit a breakpoint is moved back to its address, even if the byte   *)
(* was restored for another thread since. The signal of the stop is kept to be      *)
(* delivered on resume, but a SIGSTOP never is.                                     *)
RecordThreadStop(s, t, ev) ==
    LET a == s.rip[t] - 1
        hit == ev = "int3" /\ a \in DOMAIN s.bps
        r == IF hit THEN [RestoreBreakpoint(s, a) EXCEPT !.rip = [s.rip EXCEPT ![t] = a]] ELSE s
        th == [stopped |-> TRUE, instruction |-> r.rip[t], breakpoint |-> IF hit THEN a ELSE NoAddress,
               signal |-> IF ev = "signal" THEN "app" ELSE IF ev = "int3" /\ ~hit THEN "trap" ELSE Free]
    IN [r EXCEPT !.threads = [u \in DOMAIN s.threads \cup {t} |-> IF u = t THEN th ELSE s.threads[u]],
                 !.cur = IF t = s.sel THEN th ELSE s.cur]

(* When the selected thread exits, any other one is selected. *)
RecordExit(s, t) ==
    LET r == [s EXCEPT !.threads = Restrict(@, DOMAIN @ \ {t})]
    IN IF DOMAIN r.threads = {} \/ s.sel # t THEN r ELSE Load(r, CHOOSE u \in DOMAIN r.threads : TRUE)
Ended(s) == [s EXCEPT !.threads = << >>, !.bps = << >>, !.sel = 0, !.cur = NativeThread]
Known(t) == t \in DOMAIN d.threads

-----------------------------------------------------------------------------
(* The controller. "over" and "stepped" wait for one single step, "newborn" for    *)
(* the first stop of a thread whose clone was reported, "waiting" and "stopping"   *)
(* for any thread; ctl.back is where the first two and the third return to.        *)
Ctl == [todo |-> {}, chosen |-> 0, back |-> Free, address |-> NoAddress, parent |-> 0, mode |-> Free, base |-> 0,
        moved |-> FALSE, first |-> FALSE, target |-> 0]
Controller(p, c) ==
    /\ phase' = p
    /\ ctl' = IF p \in {"prompt", "error", "ended"} THEN Ctl ELSE c
    /\ UNCHANGED <<configured, disturbances>>
Quiet == k' = k /\ NoneDropped
Resume(s, t, single, signal) ==
    /\ k' = [k EXCEPT ![t] = Resumed(@, single)]
    /\ dropped' = {u \in {t} : Swallows(u, signal)}
    /\ d' = s

Init ==
    /\ k = [t \in Threads |-> Absent]
    /\ d = [rip |-> [t \in Threads |-> NoAddress], text |-> {}, threads |-> << >>, bps |-> << >>, sel |-> 0, cur |-> NativeThread]
    /\ phase = "launch" /\ ctl = Ctl
    /\ configured \in SUBSET Configurable
    /\ initialStop = TRUE /\ dropped = {}
    /\ disturbances = 0

(* `debug executable run`: the target is stopped behind its exec, or the launch     *)
(* fails and it is killed.                                                         *)
Launch ==
    /\ phase = "launch"
    /\ \/ /\ k' = [k EXCEPT ![Leader].state = "stopped"]
          /\ LET new == [d EXCEPT !.rip[Leader] = Entry, !.threads = [t \in {Leader} |-> NativeThread], !.sel = Leader]
                 installed == InstallConfigured(new, configured)
             IN d' = SaveThread([installed EXCEPT !.cur.instruction = Entry])
          /\ Controller("prompt", Ctl)
       \/ k' = k /\ d' = d /\ Controller("ended", Ctl)
    /\ initialStop' = initialStop /\ NoneDropped

Prompt == phase = "prompt"
(* A command that threw leaves the prompt as well: "error". What the controller       *)
(* believes may be wrong then, and of the commands that may follow only the end of    *)
(* its input is modelled; so it is when the selected thread was killed meanwhile, as   *)
(* every command fails then in its first ptrace request.                              *)
Responsive == Prompt /\ Alive(d.sel)
Break ==
    /\ Responsive
    /\ \E b \in Configurable \ configured : configured' = configured \cup {b}
    /\ d' = InstallConfigured(d, configured')
    /\ UNCHANGED <<k, phase, ctl, initialStop, disturbances>> /\ NoneDropped
DeleteBreakpoint ==
    /\ Responsive
    /\ \E b \in configured : configured' = configured \ {b}
    /\ d' = InstallConfigured(d, configured')
    /\ UNCHANGED <<k, phase, ctl, initialStop, disturbances>> /\ NoneDropped
ThreadCommand ==
    /\ Prompt
    /\ \E t \in DOMAIN d.threads : d.threads[t].stopped /\ d' = SelectThread(d, t)
    /\ UNCHANGED <<k, phase, ctl, configured, initialStop, disturbances>> /\ NoneDropped
(* The controller's input ends: the target is killed and every thread waited for.    *)
TerminateExecutable ==
    /\ phase \in {"prompt", "error"}
    /\ k' = [t \in Threads |-> IF k[t].state = "absent" THEN k[t] ELSE [Die(k[t]) EXCEPT !.state = "gone", !.event = Free]]
    /\ d' = [d EXCEPT !.sel = 0, !.threads = << >>, !.text = {}]
    /\ Controller("ended", Ctl)
    /\ initialStop' = initialStop /\ NoneDropped

ContinueExecutable ==
    /\ Responsive
    /\ initialStop' = FALSE
    /\ d' = SaveThread(d)
    /\ Controller("passing", [Ctl EXCEPT !.todo = DOMAIN d.threads, !.chosen = d.sel, !.target = d.sel])
    /\ Quiet

(* Until something has run, a step goes on to the first statement of any thread. *)
StepToFirst ==
    /\ Responsive /\ initialStop /\ d.cur.instruction \notin DOMAIN Points
    /\ initialStop' = FALSE
    /\ d' = SaveThread(Install(d, DOMAIN Points))
    /\ Controller("passing", [Ctl EXCEPT !.todo = DOMAIN d.threads, !.chosen = d.sel, !.target = d.sel, !.first = TRUE])
    /\ Quiet

(* Before anything runs freely, each thread that stands on a breakpoint is moved     *)
(* past it while the others stay stopped.                                            *)
SingleStepOver(s, back) ==
    /\ Resume(RestoreBreakpoint(s, s.cur.breakpoint), s.sel, TRUE, Free)
    /\ Controller("over", [ctl EXCEPT !.back = back, !.address = s.cur.breakpoint])
PassThread ==
    /\ phase = "passing"
    /\ \E t \in ctl.todo :
         LET s == SelectThread(d, t) IN
         \/ /\ Known(t) /\ d.threads[t].stopped /\ s.cur.breakpoint # NoAddress /\ Alive(t)
            /\ SingleStepOver(s, "passing")
         \/ /\ Known(t) /\ (~d.threads[t].stopped \/ (s.cur.breakpoint # NoAddress /\ ~Alive(t)))
            /\ d' = IF d.threads[t].stopped THEN s ELSE SaveThread(d)
            /\ Controller("error", Ctl) /\ Quiet
         \/ /\ Known(t) => d.threads[t].stopped /\ s.cur.breakpoint = NoAddress
            /\ d' = IF Known(t) THEN SaveThread(s) ELSE d
            /\ Controller("passing", [ctl EXCEPT !.todo = @ \ {t}]) /\ Quiet
    /\ UNCHANGED initialStop
Passed ==
    /\ phase = "passing" /\ ctl.todo = {}
    /\ d' = IF Known(ctl.chosen) THEN SelectThread(d, ctl.chosen) ELSE d
    /\ Controller("resume", ctl)
    /\ Quiet /\ UNCHANGED initialStop

StepExecutable ==
    /\ Responsive /\ (initialStop => d.cur.instruction \in DOMAIN Points)
    /\ initialStop' = FALSE
    /\ \E mode \in {"step", "next", "finish"} :
         LET c == [Ctl EXCEPT !.mode = mode, !.base = Len(k[d.sel].frames), !.target = d.sel,
                              !.moved = d.cur.breakpoint # NoAddress]
         IN IF d.cur.breakpoint = NoAddress
            THEN /\ d' = RestoreAllBreakpoints(d)
                 /\ Controller("stepping", c) /\ Quiet
            ELSE /\ Resume(RestoreBreakpoint(d, d.cur.breakpoint), d.sel, TRUE, Free)
                 /\ Controller("over", [c EXCEPT !.back = "stepping", !.address = d.cur.breakpoint])

Event(t) == k[t].event
Reap(t) == Reapable(t) /\ k' = Reaped(t) /\ initialStop' = initialStop /\ NoneDropped
ReapExit(t, p, c) ==
    LET s == RecordExit(d, t) IN
    IF DOMAIN s.threads = {} THEN d' = Ended(s) /\ Controller("ended", Ctl) ELSE d' = s /\ Controller(p, c)
(* The stop of a clone brings its thread, unless that has been seen; one that has     *)
(* been seen and has exited is waited for in vain, which is an error.                  *)
AfterClone(t, p, c) ==
    IF Event(t) = "clone" /\ ~Known(k[t].born) THEN Controller("newborn", [c EXCEPT !.parent = t, !.back = p])
    ELSE Controller(p, c)

StepOverEnds ==
    LET t == d.sel c == [ctl EXCEPT !.todo = @ \ {t}] IN
    /\ phase = "over" /\ Reap(t)
    /\ IF Event(t) = "exit" THEN ReapExit(t, IF ctl.back = "passing" THEN "passing" ELSE "prompt", c)
       ELSE LET s == SelectThread([RecordThreadStop(d, t, Event(t)) EXCEPT !.cur.breakpoint = NoAddress], t)
            IN /\ d' = IF ctl.back = "passing" THEN SaveThread(ReinsertBreakpoint(s, ctl.address))
                       ELSE RestoreAllBreakpoints(s)
               /\ AfterClone(t, ctl.back, c)

AwaitNewborn ==
    LET t == k[ctl.parent].born IN
    /\ phase = "newborn"
    /\ \/ /\ Reap(t)
          /\ d' = IF Event(t) = "exit" THEN d ELSE RecordThreadStop(d, t, Event(t))
          /\ Controller(ctl.back, ctl)
       \/ /\ k[t].state = "gone"
          /\ d' = d /\ Quiet /\ UNCHANGED initialStop
          /\ Controller("error", Ctl)

(* All stopped threads go on, each with the signal it was stopped for.               *)
ResumeThreads ==
    /\ phase = "resume"
    /\ LET stopped == {t \in DOMAIN d.threads : d.threads[t].stopped} IN
       IF \A t \in stopped : Alive(t)
       THEN /\ k' = [t \in Threads |-> IF t \in stopped THEN Resumed(k[t], FALSE) ELSE k[t]]
            /\ dropped' = {t \in stopped : Swallows(t, d.threads[t].signal)}
            /\ d' = [d EXCEPT !.threads = [t \in DOMAIN @ |->
                        IF t \in stopped THEN [d.threads[t] EXCEPT !.stopped = FALSE, !.signal = Free] ELSE d.threads[t]]]
            /\ Controller("waiting", ctl)
       ELSE d' = d /\ Controller("error", Ctl) /\ Quiet
    /\ UNCHANGED initialStop

WaitExit ==
    /\ phase = "waiting"
    /\ \E t \in Threads : Event(t) = "exit" /\ Reap(t) /\ ReapExit(t, "waiting", ctl)
(* A new thread whose clone is not reported yet goes on at once. *)
WaitNewborn ==
    /\ phase = "waiting"
    /\ \E t \in Threads :
         LET s == RecordThreadStop(d, t, Event(t)) IN
         /\ Event(t) \notin {Free, "exit"} /\ ~Known(t) /\ Reapable(t)
         /\ k' = [k EXCEPT ![t] = Resumed(Reported(@), FALSE)]
         /\ dropped' = {u \in {t} : Swallows(u, s.threads[u].signal)}
         /\ d' = [s EXCEPT !.threads[t] = [@ EXCEPT !.stopped = FALSE, !.signal = Free]]
    /\ Controller("waiting", ctl)
    /\ initialStop' = initialStop
WaitClone ==
    /\ phase = "waiting"
    /\ \E t \in DOMAIN d.threads : /\ Event(t) = "clone" /\ Reap(t)
                                   /\ d' = RecordThreadStop(d, t, "clone")
                                   /\ AfterClone(t, "resume", ctl)
(* Any other stop ends the run: the threads that still run are interrupted.           *)
InterruptRunningFault(kk, s) == kk
InterruptRunning(kk, s) ==
    [u \in Threads |-> IF u \in DOMAIN s.threads /\ ~s.threads[u].stopped /\ Alive(u) THEN [kk[u] EXCEPT !.interrupt = TRUE] ELSE kk[u]]
WaitStop ==
    /\ phase = "waiting"
    /\ \E t \in DOMAIN d.threads :
         LET s == RecordThreadStop(d, t, Event(t)) IN
         /\ Event(t) \notin {Free, "exit", "clone"} /\ Reapable(t)
         /\ k' = InterruptRunning(Reaped(t), s)
         /\ d' = s
         /\ Controller("stopping", [ctl EXCEPT !.chosen = t])
    /\ initialStop' = initialStop /\ NoneDropped

AllStoppedFault == \E t \in DOMAIN d.threads : d.threads[t].stopped
AllStopped == \A t \in DOMAIN d.threads : d.threads[t].stopped
StopOtherThread ==
    /\ phase = "stopping" /\ ~AllStopped
    /\ \E t \in Threads :
         /\ Event(t) # Free /\ Reap(t)
         /\ IF Event(t) = "exit" THEN ReapExit(t, "stopping", ctl)
            ELSE d' = RecordThreadStop(d, t, Event(t)) /\ AfterClone(t, "stopping", ctl)
StopIsPresented ==
    LET t == IF Known(ctl.chosen) THEN ctl.chosen ELSE CHOOSE u \in DOMAIN d.threads : TRUE
        s == SelectThread(d, t)
    IN /\ phase = "stopping" /\ AllStopped
       /\ d' = IF ctl.first THEN SaveThread(InstallConfigured(s, configured)) ELSE s
       /\ Controller("prompt", Ctl)
       /\ Quiet /\ UNCHANGED initialStop

(* A source step goes instruction by instruction, until it stands where its mode      *)
(* stops or on a breakpoint.                                                          *)
AtStatement ==
    LET here == d.rip[d.sel] depth == Len(k[d.sel].frames) IN
    /\ ctl.moved /\ here \in DOMAIN Points
    /\ \/ here \in DOMAIN d.bps \/ ctl.mode = "step"
       \/ ctl.mode = "next" /\ depth <= ctl.base
       \/ ctl.mode = "finish" /\ depth < ctl.base
Stepping ==
    /\ phase = "stepping"
    /\ \/ ~Alive(d.sel) /\ d' = d /\ Controller("error", Ctl) /\ Quiet
       \/ /\ Alive(d.sel) /\ AtStatement
          /\ d' = SaveThread(InstallConfigured(d, configured)) /\ Controller("prompt", Ctl) /\ Quiet
       \/ /\ Alive(d.sel) /\ ~AtStatement
          /\ Resume([d EXCEPT !.cur.signal = Free], d.sel, TRUE, d.cur.signal)
          /\ Controller("stepped", [ctl EXCEPT !.moved = TRUE])
    /\ UNCHANGED initialStop
Stepped ==
    LET t == d.sel
        s == SelectThread([RecordThreadStop(d, t, Event(t)) EXCEPT !.cur.breakpoint = NoAddress], t)
        stops == s.cur.signal # Free \/ Event(t) = "stop"
    IN /\ phase = "stepped" /\ Reap(t)
       /\ IF Event(t) = "exit"
          THEN LET r == RecordExit(d, t) IN
               IF DOMAIN r.threads = {} THEN d' = Ended(r) /\ Controller("ended", Ctl)
               ELSE IF Alive(r.sel)
                    THEN d' = InstallConfigured(SelectThread(r, r.sel), configured) /\ Controller("prompt", Ctl)
                    ELSE d' = r /\ Controller("error", Ctl)
          ELSE /\ d' = IF stops THEN InstallConfigured(s, configured) ELSE s
               /\ IF stops THEN Controller("prompt", Ctl) ELSE AfterClone(t, "stepping", ctl)

(* The pause of the editor, or Ctrl+C: it interrupts the thread that was selected     *)
(* when the run began.                                                                *)
Pause ==
    /\ phase \notin {"launch", "prompt", "error", "ended"}
    /\ Disturb
    /\ k' = IF Alive(ctl.target) THEN [k EXCEPT ![ctl.target].interrupt = TRUE] ELSE k
    /\ UNCHANGED <<d, phase, ctl, configured, initialStop>> /\ NoneDropped

Command == Break \/ DeleteBreakpoint \/ ThreadCommand \/ TerminateExecutable \/ ContinueExecutable \/ StepToFirst
           \/ StepExecutable
Control == Launch \/ PassThread \/ Passed \/ StepOverEnds \/ AwaitNewborn \/ ResumeThreads \/ WaitExit \/ WaitNewborn
           \/ WaitClone \/ WaitStop \/ StopOtherThread \/ StopIsPresented \/ Stepping \/ Stepped
Next == Command \/ Control \/ Pause \/ SendSignal \/ KillTarget \/ \E t \in Threads : ThreadStep(t)
Spec == Init /\ [][Next]_vars /\ WF_vars(Control) /\ \A t \in Threads : WF_vars(ThreadStep(t))

-----------------------------------------------------------------------------
(* Whenever the prompt is shown no thread of the target runs, none has a stop that    *)
(* was not looked at, and what the controller believes of each is true: where it      *)
(* stands, and which bytes are patched (Debugger.cpp 497-686).                        *)
Belief(t) == IF t = d.sel THEN d.cur ELSE d.threads[t]
StoppedWorldIsTrue ==
    Prompt =>
        /\ \A t \in Threads : k[t].state # "running"
        /\ \A t \in Threads : Alive(t) => /\ Known(t) /\ k[t].event = Free
                                          /\ Belief(t).instruction = d.rip[t]
                                          /\ Belief(t).breakpoint \in {NoAddress, d.rip[t]} \cap ({NoAddress} \cup DOMAIN d.bps)
        /\ (\E t \in Threads : Alive(t)) => d.text = {a \in DOMAIN d.bps : d.bps[a]}

(* The program runs its own instructions and gets its own signals: no thread goes on   *)
(* from behind an INT3, and no trap of the debugger is ever delivered to it; and while  *)
(* threads run freely every configured breakpoint is in its text, whatever single       *)
(* steps, clones and exits came before; one on the instruction that ends a thread is     *)
(* excepted, which stays out once a thread has ended there while it was stepped over    *)
(* (467-495, 523-564, 688-711, 768-789).                                                *)
BreakpointsHold ==
    /\ \A t \in Threads : /\ k[t].state = "running" => d.rip[t] \in DOMAIN Program
                          /\ Known(t) => d.threads[t].signal # "trap"
    /\ (phase = "waiting" /\ \E t \in Threads : k[t].state = "running")
         => \A b \in configured : {a \in Selected(b) : Program[a].op # "exit"} \subseteq d.text

(* A thread is resumed without the signal it was stopped for only on the way over a   *)
(* breakpoint it stands on itself, or if that signal is a SIGSTOP, which the debugger   *)
(* always keeps from the program (528, 595-602, 688-711, 834-836). A Ctrl+C of the       *)
(* terminal they share is the debugger's own signal and no loss (529-533).              *)
Excused(t) == k[t].sig = "halting" \/ (k[t].sig = "offered" /\ d.rip[t] \in DOMAIN d.bps)
SignalsSurvive == [][\A t \in dropped' : Excused(t)]_vars

(* Once a thread has hit a breakpoint or is asked to pause, the prompt comes back or    *)
(* the target ends, unless the leader has exited before the other threads (625-686).    *)
Stops == phase = "waiting" /\ \E t \in DOMAIN d.threads : Event(t) = "int3" \/ (k[t].interrupt /\ Alive(t))
LeaderLeft == k[Leader].state \in {"zombie", "gone"}
ControlReturns == Stops ~> (phase \in {"prompt", "error", "ended"} \/ LeaderLeft)
=============================================================================
