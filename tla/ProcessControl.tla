--------------------------- MODULE ProcessControl ---------------------------
(***************************************************************************)
(* Cancelling a request that runs shell pipelines: ProcessControl.hpp, the  *)
(* worker thread that runs managed_invocation (libraries/shell/library.rl), *)
(* the client thread that interrupts it (Server.cpp serveUnixClient), and   *)
(* the kernel's processes, whose numbers are used again once reaped.        *)
(*                                                                         *)
(* Native code asks recurloop_native_pending after every call it makes, and *)
(* returns at once when the request was interrupted (Check); an interrupt   *)
(* may arrive between that question and the next call.                      *)
(***************************************************************************)
EXTENDS Naturals, Sequences, FiniteSets

CONSTANTS
  Pids,           \* process numbers
  Stages,         \* the commands of one pipeline
  Pipelines,      \* the pipelines of the list  a ; b
  MaxInterrupts   \* bound on the interrupts one request gets

ASSUME StagesAssumption == Stages \in Nat \ {0}
ASSUME PipelinesAssumption == Pipelines \in Nat \ {0}
ASSUME MaxInterruptsAssumption == MaxInterrupts \in Nat

VARIABLES
  proc,         \* the process table
  groups,       \* groups_
  interrupted,  \* interrupted_
  worker,       \* where the worker stands
  checked,      \* whether it has asked for cancellation since its last call
  invocation,   \* the children of the running pipeline
  index,        \* the child the loops of managed_single_invocation are at
  left,         \* the pipelines still to start
  host,         \* where the client thread stands
  strikes,      \* history: how many interrupts there were
  tracked,      \* history: the processes that were once in groups_
  strayed       \* history: whether a signal reached another's process

vars == <<proc, groups, interrupted, worker, checked, invocation, index, left,
          host, strikes, tracked, strayed>>

workerVars == <<worker, checked, invocation, index, left>>

(***************************************************************************)
(* A process number is free, or names a child that has not yet executed its *)
(* command, runs it and dies of SIGINT, ignores SIGINT, or is stopped; a    *)
(* child that exited and was not waited for; or somebody else's process.    *)
(***************************************************************************)
Live    == {"fresh", "running", "stubborn", "stopped"}
States  == Live \cup {"free", "zombie", "other"}
Obeying == {"fresh", "running"}

Init ==
  /\ proc \in [Pids -> {"free", "other"}]
  /\ groups = {}
  /\ interrupted = FALSE
  /\ worker = "fork"
  /\ checked = FALSE
  /\ invocation = <<>>
  /\ index = 1
  /\ left = Pipelines - 1
  /\ host = "polling"
  /\ strikes = 0
  /\ tracked = {}
  /\ strayed = FALSE

-----------------------------------------------------------------------------
(***************************************************************************)
(* What kill() does to the processes of ps: SIGINT leaves a stopped process *)
(* stopped unless SIGCONT follows.                                          *)
(***************************************************************************)
Killed(ps) ==
  [p \in Pids |-> IF p \in ps /\ proc[p] \in Live THEN "zombie" ELSE proc[p]]
Interrupted(ps) ==
  [p \in Pids |-> IF p \in ps /\ proc[p] \in Obeying THEN "zombie" ELSE proc[p]]
Resumed(ps) ==
  [p \in Pids |-> IF p \in ps /\ proc[p] \in Obeying \cup {"stopped"}
                  THEN "zombie" ELSE proc[p]]
Strays(ps) == \E p \in ps : proc[p] = "other"

(* recurloop_native_pending: cancellation unwinds the native code. *)
Check ==
  /\ worker \notin {"done"}
  /\ ~checked
  /\ IF interrupted
     THEN worker' = "done" /\ UNCHANGED checked
     ELSE checked' = TRUE /\ UNCHANGED worker
  /\ UNCHANGED <<proc, groups, interrupted, invocation, index, left, host,
                 strikes, tracked, strayed>>

Call(at) == worker = at /\ checked /\ checked' = FALSE

(* start_impl: one fork for each command; a fork that fails ends the loop. *)
Fork ==
  /\ Call("fork")
  /\ \E p \in Pids :
       /\ proc[p] = "free"
       /\ proc' = [proc EXCEPT ![p] = "fresh"]
       /\ tracked' = tracked \ {p}
       /\ invocation' = Append(invocation, p)
  /\ worker' = IF Len(invocation') = Stages THEN "track" ELSE "fork"
  /\ UNCHANGED <<groups, interrupted, index, left, host, strikes, strayed>>

ForkFails ==
  /\ Call("fork")
  /\ worker' = IF invocation = <<>> THEN "done" ELSE "track"
  /\ UNCHANGED <<proc, groups, interrupted, invocation, index, left, host,
                 strikes, tracked, strayed>>

(* The loop over invocation.pids moves on to the next child or to the end. *)
Advance(next) ==
  IF index < Len(invocation)
  THEN index' = index + 1 /\ UNCHANGED worker
  ELSE index' = 1 /\ worker' = next

(***************************************************************************)
(* track: the child is registered, and told at once when the request is     *)
(* already interrupted.                                                     *)
(***************************************************************************)
ToldFault(p) == proc
Told(p) == IF interrupted THEN Interrupted({p}) ELSE proc

Track ==
  /\ Call("track")
  /\ LET p == invocation[index]
     IN  /\ groups' = groups \cup {p}
         /\ tracked' = tracked \cup {p}
         /\ proc' = Told(p)
         /\ strayed' = (strayed \/ (interrupted /\ Strays({p})))
  /\ Advance("read")
  /\ UNCHANGED <<interrupted, invocation, left, host, strikes>>

(***************************************************************************)
(* The output of the pipeline: read returns bytes of a child that runs, or  *)
(* the end once the last command has exited.                                *)
(***************************************************************************)
ReadBytes ==
  /\ Call("read")
  /\ \E p \in Pids : p \in {invocation[i] : i \in DOMAIN invocation} /\ proc[p] \in Live \ {"stopped"}
  /\ UNCHANGED <<proc, groups, interrupted, worker, invocation, index, left,
                 host, strikes, tracked, strayed>>

ReadEnd ==
  /\ Call("read")
  /\ proc[invocation[Len(invocation)]] \notin Live
  /\ worker' = "release"
  /\ UNCHANGED <<proc, groups, interrupted, invocation, index, left, host,
                 strikes, tracked, strayed>>

(* release waits for the exit without reaping, then unregisters. *)
Released(p) == groups \ {p}

Release ==
  /\ Call("release")
  /\ LET p == invocation[index]
     IN  proc[p] \notin Live /\ groups' = Released(p)
  /\ Advance("await")
  /\ UNCHANGED <<proc, interrupted, invocation, left, host, strikes, tracked,
                 strayed>>

(* await reaps every child; its number is then free for anybody. *)
Await ==
  /\ Call("await")
  /\ proc' = [proc EXCEPT ![invocation[index]] = "free"]
  /\ Advance("next")
  /\ UNCHANGED <<groups, interrupted, invocation, left, host, strikes, tracked,
                 strayed>>

NextPipeline ==
  /\ Call("next")
  /\ invocation' = <<>>
  /\ IF left = 0
     THEN worker' = "done" /\ UNCHANGED left
     ELSE worker' = "fork" /\ left' = left - 1
  /\ UNCHANGED <<proc, groups, interrupted, index, host, strikes, tracked,
                 strayed>>

-----------------------------------------------------------------------------
(***************************************************************************)
(* interrupt(force): a second one, or a forced one, kills.  Either resumes  *)
(* what was stopped.                                                        *)
(***************************************************************************)
KillsFault(force) == force
Kills(force) == force \/ interrupted

Interrupts(ps) == Resumed(ps)

Interrupt(force) ==
  /\ host = "polling"
  /\ strikes < MaxInterrupts
  /\ interrupted' = TRUE
  /\ strikes' = strikes + 1
  /\ proc' = IF Kills(force) THEN Killed(groups) ELSE Interrupts(groups)
  /\ strayed' = (strayed \/ Strays(groups))
  /\ UNCHANGED <<groups, tracked, workerVars>>

(* The byte ^C, while the request runs. *)
CtrlC ==
  /\ Interrupt(FALSE)
  /\ UNCHANGED host

(***************************************************************************)
(* The client is gone (forced), or a frame could not be sent or its input   *)
(* not decoded (not forced): one interrupt, and then only request.get().    *)
(***************************************************************************)
Abandon(force) ==
  /\ Interrupt(force)
  /\ host' = "waiting"

(***************************************************************************)
(* request.get() has returned: ~ProcessControl kills and reaps what is      *)
(* still registered.                                                        *)
(***************************************************************************)
CollectedFault == {}
Collected == groups

Destroy ==
  /\ worker = "done"
  /\ proc' = [p \in Pids |-> IF p \in Collected THEN "free" ELSE proc[p]]
  /\ strayed' = (strayed \/ Strays(groups))
  /\ groups' = {}
  /\ host' = "gone"
  /\ host # "gone"
  /\ UNCHANGED <<interrupted, strikes, tracked, workerVars>>

-----------------------------------------------------------------------------
(* The children, and the other processes of the machine. *)
Become(p, from, to) ==
  /\ proc[p] \in from
  /\ proc' = [proc EXCEPT ![p] = to]
  /\ UNCHANGED <<groups, interrupted, host, strikes, tracked, strayed, workerVars>>

Exec(p)       == \E kind \in {"running", "stubborn"} : Become(p, {"fresh"}, kind)
StopOnTty(p)  == Become(p, {"running"}, "stopped")
Exit(p)       == Become(p, {"fresh", "running", "stubborn"}, "zombie")
OtherStart(p) == Become(p, {"free"}, "other")
OtherEnd(p)   == Become(p, {"other"}, "free")

Worker ==
  \/ Check \/ Fork \/ ForkFails \/ Track \/ ReadBytes \/ ReadEnd
  \/ Release \/ Await \/ NextPipeline

Host == CtrlC \/ (\E force \in BOOLEAN : Abandon(force)) \/ Destroy

Processes ==
  \E p \in Pids : Exec(p) \/ StopOnTty(p) \/ Exit(p) \/ OtherStart(p) \/ OtherEnd(p)

Next == Worker \/ Host \/ Processes

Spec == Init /\ [][Next]_vars

(***************************************************************************)
(* The two threads are scheduled.  No child is assumed to exit, and nobody  *)
(* has to press ^C.                                                         *)
(***************************************************************************)
FairSpec == Spec /\ WF_vars(Worker) /\ WF_vars(Destroy)

-----------------------------------------------------------------------------
(***************************************************************************)
(* No signal of a request reaches a process that is not its child, although *)
(* numbers are used again: a child is unregistered while it is still a      *)
(* zombie (ProcessControl.hpp:100-108, library.rl:1024-1031).  And once a   *)
(* request is interrupted no registered child that dies of SIGINT is left   *)
(* running, the ones registered after the interrupt included                *)
(* (ProcessControl::track).                                                 *)
(***************************************************************************)
InterruptReachesItsOwn ==
  /\ ~strayed
  /\ interrupted => \A p \in groups : proc[p] \notin Obeying

(***************************************************************************)
(* A child that was ever registered does not outlive its request, however   *)
(* the native code was unwound (~ProcessControl).                           *)
(***************************************************************************)
TrackedDoNotOutlive ==
  host = "gone" => \A p \in tracked : proc[p] \notin Live

(***************************************************************************)
(* No child outlives its request (ProcessControl.hpp:46-53: the destructor  *)
(* is there because cancellation can unwind before the await/release).      *)
(***************************************************************************)
NoChildOutlives == host = "gone" => \A p \in Pids : proc[p] \notin Live

(***************************************************************************)
(* An interrupted request ends unless a registered child ignores SIGINT,    *)
(* and a second interrupt ends it whatever its children ignore              *)
(* (project-runtime.md: "a second Ctrl+C forces termination").              *)
(***************************************************************************)
InterruptsEnd ==
  /\ (strikes >= 1) ~> (host = "gone" \/ \E p \in groups : proc[p] = "stubborn")
  /\ (strikes >= 2) ~> (host = "gone")
=============================================================================
