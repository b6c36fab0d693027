------------------------ MODULE ProcessControlProofs ------------------------
(***************************************************************************)
(* Proofs about ProcessControl, for any number of process numbers, pipeline *)
(* stages, pipelines and interrupts.                                        *)
(***************************************************************************)
EXTENDS ProcessControl, TLAPS

WorkerStates == {"fork", "track", "read", "release", "await", "next", "done"}

DataOK ==
  /\ proc \in [Pids -> States]
  /\ groups \subseteq Pids
  /\ worker \in WorkerStates
  /\ invocation \in Seq(Pids)
  /\ index \in Nat \ {0}
  /\ left \in Nat
  /\ host \in {"polling", "waiting", "gone"}
  /\ strikes \in Nat
  /\ tracked \subseteq Pids
FlagsOK == interrupted \in BOOLEAN /\ checked \in BOOLEAN /\ strayed \in BOOLEAN
TypeOK == DataOK /\ FlagsOK

(* The loops over the children stay inside the invocation. *)
Looping == {"track", "release", "await"}
IndexInside ==
  /\ worker \in Looping => index <= Len(invocation)
  /\ worker \in {"fork", "read", "next"} => index = 1
  /\ worker = "read" => invocation # <<>>

(***************************************************************************)
(* The children that await has not reaped yet are still this process's      *)
(* (alive, or zombies), and so their numbers are all different.             *)
(***************************************************************************)
Ours == Live \cup {"zombie"}
Unreaped ==
  {i \in 1 .. Len(invocation) :
     \/ worker \in {"fork", "track", "read", "release"}
     \/ worker = "await" /\ index <= i}
ChildrenAreOurs ==
  /\ \A i \in Unreaped : proc[invocation[i]] \in Ours
  /\ \A i, j \in Unreaped : invocation[i] = invocation[j] => i = j

(***************************************************************************)
(* groups_ holds children between track and release, and nothing else:      *)
(* release unregisters all of them before await gives up the first number.  *)
(***************************************************************************)
Registered ==
  {invocation[i] : i \in {j \in 1 .. Len(invocation) :
     \/ worker = "track" /\ j < index
     \/ worker = "read"
     \/ worker = "release" /\ index <= j}}
GroupsAreChildren ==
  /\ worker # "done" => groups \subseteq Registered
  /\ \A p \in groups : proc[p] \in Ours

(* A child that was registered stays so while it lives. *)
LiveAreRegistered ==
  /\ \A p \in tracked : proc[p] \in Live => p \in groups
  /\ host = "gone" => worker = "done" /\ groups = {}

IInv ==
  /\ TypeOK
  /\ IndexInside
  /\ ChildrenAreOurs
  /\ GroupsAreChildren
  /\ LiveAreRegistered
  /\ InterruptReachesItsOwn

-----------------------------------------------------------------------------
LEMMA InitIInv == Init => IInv
<1> SUFFICES ASSUME Init PROVE IInv
  OBVIOUS
<1>1. FlagsOK
  BY DEF Init, FlagsOK
<1>2. DataOK
  BY PipelinesAssumption DEF Init, DataOK, WorkerStates, States, Live
<1>3. IndexInside /\ ChildrenAreOurs
  BY DEF Init, IndexInside, Looping, ChildrenAreOurs, Unreaped
<1>4. GroupsAreChildren /\ LiveAreRegistered /\ InterruptReachesItsOwn
  BY DEF Init, GroupsAreChildren, LiveAreRegistered, InterruptReachesItsOwn
<1> QED
  BY <1>1, <1>2, <1>3, <1>4 DEF IInv, TypeOK

(* Every variable keeps its type. *)
LEMMA DataStep == IInv /\ [Next]_vars => DataOK'
<1> USE DEF DataOK, WorkerStates, IndexInside, Looping, States, Live, Obeying, workerVars
<1> SUFFICES ASSUME IInv, [Next]_vars PROVE DataOK'
  OBVIOUS
<1>0. DataOK /\ IndexInside
  BY StagesAssumption DEF IInv, TypeOK
<1>1. CASE Check
  BY <1>0, <1>1 DEF Check
<1>2. CASE Fork
  BY <1>0, <1>2 DEF Fork, Call
<1>3. CASE ForkFails
  BY <1>0, <1>3 DEF ForkFails, Call
<1>4. CASE Track
  BY <1>0, <1>4 DEF Track, Told, Interrupted, Call, Advance
<1>5. CASE ReadBytes
  BY <1>0, <1>5 DEF ReadBytes, Call
<1>6. CASE ReadEnd
  BY <1>0, <1>6 DEF ReadEnd, Call
<1>7. CASE Release
  BY <1>0, <1>7 DEF Release, Released, Call, Advance
<1>8. CASE Await
  BY <1>0, <1>8 DEF Await, Call, Advance
<1>9. CASE NextPipeline
  BY <1>0, <1>9 DEF NextPipeline, Call
<1>10. CASE CtrlC
  BY <1>0, <1>10 DEF CtrlC, Interrupt, Kills, Killed, Interrupts, Resumed
<1>11. ASSUME NEW force \in BOOLEAN, Abandon(force) PROVE DataOK'
  BY <1>0, <1>11 DEF Abandon, Interrupt, Kills, Killed, Interrupts, Resumed
<1>12. CASE Destroy
  BY <1>0, <1>12 DEF Destroy, Collected
<1>13. ASSUME NEW p \in Pids, Exec(p) PROVE DataOK'
  BY <1>0, <1>13 DEF Exec, Become
<1>14. ASSUME NEW p \in Pids, StopOnTty(p) PROVE DataOK'
  BY <1>0, <1>14 DEF StopOnTty, Become
<1>15. ASSUME NEW p \in Pids, Exit(p) PROVE DataOK'
  BY <1>0, <1>15 DEF Exit, Become
<1>16. ASSUME NEW p \in Pids, OtherStart(p) PROVE DataOK'
  BY <1>0, <1>16 DEF OtherStart, Become
<1>17. ASSUME NEW p \in Pids, OtherEnd(p) PROVE DataOK'
  BY <1>0, <1>17 DEF OtherEnd, Become
<1>18. CASE UNCHANGED vars
  BY <1>0, <1>18 DEF vars
<1> QED
  BY <1>1, <1>2, <1>3, <1>4, <1>5, <1>6, <1>7, <1>8, <1>9, <1>10, <1>11, <1>12, <1>13, <1>14, <1>15, <1>16, <1>17, <1>18
     DEF Next, Worker, Host, Processes

(* The loops stay inside the invocation. *)
LEMMA IndexStep == IInv /\ [Next]_vars => IndexInside'
<1> USE DEF DataOK, IndexInside, Looping, workerVars
<1> SUFFICES ASSUME IInv, [Next]_vars PROVE IndexInside'
  OBVIOUS
<1>0. DataOK /\ IndexInside
  BY StagesAssumption DEF IInv, TypeOK
<1>1. CASE Check
  BY <1>0, <1>1 DEF Check
<1>2. CASE Fork
  BY <1>0, <1>2 DEF Fork, Call
<1>3. CASE ForkFails
  BY <1>0, <1>3 DEF ForkFails, Call
<1>4. CASE Track
  BY <1>0, <1>4 DEF Track, Told, Interrupted, Call, Advance
<1>5. CASE ReadBytes
  BY <1>0, <1>5 DEF ReadBytes, Call
<1>6. CASE ReadEnd
  BY <1>0, <1>6 DEF ReadEnd, Call
<1>7. CASE Release
  BY <1>0, <1>7 DEF Release, Released, Call, Advance
<1>8. CASE Await
  BY <1>0, <1>8 DEF Await, Call, Advance
<1>9. CASE NextPipeline
  BY <1>0, <1>9 DEF NextPipeline, Call
<1>10. CASE CtrlC
  BY <1>0, <1>10 DEF CtrlC, Interrupt, Kills, Killed, Interrupts, Resumed
<1>11. ASSUME NEW force \in BOOLEAN, Abandon(force) PROVE IndexInside'
  BY <1>0, <1>11 DEF Abandon, Interrupt, Kills, Killed, Interrupts, Resumed
<1>12. CASE Destroy
  BY <1>0, <1>12 DEF Destroy, Collected
<1>13. ASSUME NEW p \in Pids, Exec(p) PROVE IndexInside'
  BY <1>0, <1>13 DEF Exec, Become
<1>14. ASSUME NEW p \in Pids, StopOnTty(p) PROVE IndexInside'
  BY <1>0, <1>14 DEF StopOnTty, Become
<1>15. ASSUME NEW p \in Pids, Exit(p) PROVE IndexInside'
  BY <1>0, <1>15 DEF Exit, Become
<1>16. ASSUME NEW p \in Pids, OtherStart(p) PROVE IndexInside'
  BY <1>0, <1>16 DEF OtherStart, Become
<1>17. ASSUME NEW p \in Pids, OtherEnd(p) PROVE IndexInside'
  BY <1>0, <1>17 DEF OtherEnd, Become
<1>18. CASE UNCHANGED vars
  BY <1>0, <1>18 DEF vars
<1> QED
  BY <1>1, <1>2, <1>3, <1>4, <1>5, <1>6, <1>7, <1>8, <1>9, <1>10, <1>11, <1>12, <1>13, <1>14, <1>15, <1>16, <1>17, <1>18
     DEF Next, Worker, Host, Processes

(* A child's number is its own until await gives it up. *)
LEMMA ChildrenStep == IInv /\ [Next]_vars => ChildrenAreOurs'
<1> USE DEF DataOK, IndexInside, Looping, ChildrenAreOurs, Unreaped, Ours, States, Live, Obeying, workerVars
<1> SUFFICES ASSUME IInv, [Next]_vars PROVE ChildrenAreOurs'
  OBVIOUS
<1>0. DataOK /\ IndexInside /\ ChildrenAreOurs /\ GroupsAreChildren
  BY StagesAssumption DEF IInv, TypeOK
<1>1. CASE Check
  BY <1>0, <1>1 DEF Check
<1>2. CASE Fork
  BY <1>0, <1>2 DEF Fork, Call
<1>3. CASE ForkFails
  BY <1>0, <1>3 DEF ForkFails, Call
<1>4. CASE Track
  BY <1>0, <1>4 DEF Track, Told, Interrupted, Call, Advance
<1>5. CASE ReadBytes
  BY <1>0, <1>5 DEF ReadBytes, Call
<1>6. CASE ReadEnd
  BY <1>0, <1>6 DEF ReadEnd, Call
<1>7. CASE Release
  BY <1>0, <1>7 DEF Release, Released, Call, Advance
<1>8. CASE Await
  BY <1>0, <1>8 DEF Await, Call, Advance
<1>9. CASE NextPipeline
  BY <1>0, <1>9 DEF NextPipeline, Call
<1>10. CASE CtrlC
  BY <1>0, <1>10 DEF CtrlC, Interrupt, Kills, Killed, Interrupts, Resumed
<1>11. ASSUME NEW force \in BOOLEAN, Abandon(force) PROVE ChildrenAreOurs'
  BY <1>0, <1>11 DEF Abandon, Interrupt, Kills, Killed, Interrupts, Resumed
<1>12. CASE Destroy
  BY <1>0, <1>12 DEF Destroy, Collected
<1>13. ASSUME NEW p \in Pids, Exec(p) PROVE ChildrenAreOurs'
  BY <1>0, <1>13 DEF Exec, Become
<1>14. ASSUME NEW p \in Pids, StopOnTty(p) PROVE ChildrenAreOurs'
  BY <1>0, <1>14 DEF StopOnTty, Become
<1>15. ASSUME NEW p \in Pids, Exit(p) PROVE ChildrenAreOurs'
  BY <1>0, <1>15 DEF Exit, Become
<1>16. ASSUME NEW p \in Pids, OtherStart(p) PROVE ChildrenAreOurs'
  BY <1>0, <1>16 DEF OtherStart, Become
<1>17. ASSUME NEW p \in Pids, OtherEnd(p) PROVE ChildrenAreOurs'
  BY <1>0, <1>17 DEF OtherEnd, Become
<1>18. CASE UNCHANGED vars
  BY <1>0, <1>18 DEF vars
<1> QED
  BY <1>1, <1>2, <1>3, <1>4, <1>5, <1>6, <1>7, <1>8, <1>9, <1>10, <1>11, <1>12, <1>13, <1>14, <1>15, <1>16, <1>17, <1>18
     DEF Next, Worker, Host, Processes

(* What groups_ holds is a child not yet reaped. *)
LEMMA GroupsStep == IInv /\ [Next]_vars => GroupsAreChildren'
<1> USE DEF DataOK, IndexInside, Looping, ChildrenAreOurs, Unreaped, GroupsAreChildren, Registered, Ours, States, Live, Obeying, workerVars
<1> SUFFICES ASSUME IInv, [Next]_vars PROVE GroupsAreChildren'
  OBVIOUS
<1>0. DataOK /\ IndexInside /\ ChildrenAreOurs /\ GroupsAreChildren
  BY StagesAssumption DEF IInv, TypeOK
<1>1. CASE Check
  BY <1>0, <1>1 DEF Check
<1>2. CASE Fork
  BY <1>0, <1>2 DEF Fork, Call
<1>3. CASE ForkFails
  BY <1>0, <1>3 DEF ForkFails, Call
<1>4. CASE Track
  BY <1>0, <1>4 DEF Track, Told, Interrupted, Call, Advance
<1>5. CASE ReadBytes
  BY <1>0, <1>5 DEF ReadBytes, Call
<1>6. CASE ReadEnd
  BY <1>0, <1>6 DEF ReadEnd, Call
<1>7. CASE Release
  BY <1>0, <1>7 DEF Release, Released, Call, Advance
<1>8. CASE Await
  BY <1>0, <1>8 DEF Await, Call, Advance
<1>9. CASE NextPipeline
  BY <1>0, <1>9 DEF NextPipeline, Call
<1>10. CASE CtrlC
  BY <1>0, <1>10 DEF CtrlC, Interrupt, Kills, Killed, Interrupts, Resumed
<1>11. ASSUME NEW force \in BOOLEAN, Abandon(force) PROVE GroupsAreChildren'
  BY <1>0, <1>11 DEF Abandon, Interrupt, Kills, Killed, Interrupts, Resumed
<1>12. CASE Destroy
  BY <1>0, <1>12 DEF Destroy, Collected
<1>13. ASSUME NEW p \in Pids, Exec(p) PROVE GroupsAreChildren'
  BY <1>0, <1>13 DEF Exec, Become
<1>14. ASSUME NEW p \in Pids, StopOnTty(p) PROVE GroupsAreChildren'
  BY <1>0, <1>14 DEF StopOnTty, Become
<1>15. ASSUME NEW p \in Pids, Exit(p) PROVE GroupsAreChildren'
  BY <1>0, <1>15 DEF Exit, Become
<1>16. ASSUME NEW p \in Pids, OtherStart(p) PROVE GroupsAreChildren'
  BY <1>0, <1>16 DEF OtherStart, Become
<1>17. ASSUME NEW p \in Pids, OtherEnd(p) PROVE GroupsAreChildren'
  BY <1>0, <1>17 DEF OtherEnd, Become
<1>18. CASE UNCHANGED vars
  BY <1>0, <1>18 DEF vars
<1> QED
  BY <1>1, <1>2, <1>3, <1>4, <1>5, <1>6, <1>7, <1>8, <1>9, <1>10, <1>11, <1>12, <1>13, <1>14, <1>15, <1>16, <1>17, <1>18
     DEF Next, Worker, Host, Processes

(* A registered child leaves groups_ only when it has exited. *)
LEMMA LiveStep == IInv /\ [Next]_vars => LiveAreRegistered'
<1> USE DEF DataOK, IndexInside, Looping, ChildrenAreOurs, Unreaped, GroupsAreChildren, Registered, LiveAreRegistered, Ours, States, Live, Obeying, workerVars
<1> SUFFICES ASSUME IInv, [Next]_vars PROVE LiveAreRegistered'
  OBVIOUS
<1>0. DataOK /\ IndexInside /\ ChildrenAreOurs /\ GroupsAreChildren /\ LiveAreRegistered
  BY StagesAssumption DEF IInv, TypeOK
<1>1. CASE Check
  BY <1>0, <1>1 DEF Check
<1>2. CASE Fork
  BY <1>0, <1>2 DEF Fork, Call
<1>3. CASE ForkFails
  BY <1>0, <1>3 DEF ForkFails, Call
<1>4. CASE Track
  BY <1>0, <1>4 DEF Track, Told, Interrupted, Call, Advance
<1>5. CASE ReadBytes
  BY <1>0, <1>5 DEF ReadBytes, Call
<1>6. CASE ReadEnd
  BY <1>0, <1>6 DEF ReadEnd, Call
<1>7. CASE Release
  BY <1>0, <1>7 DEF Release, Released, Call, Advance
<1>8. CASE Await
  BY <1>0, <1>8 DEF Await, Call, Advance
<1>9. CASE NextPipeline
  BY <1>0, <1>9 DEF NextPipeline, Call
<1>10. CASE CtrlC
  BY <1>0, <1>10 DEF CtrlC, Interrupt, Kills, Killed, Interrupts, Resumed
<1>11. ASSUME NEW force \in BOOLEAN, Abandon(force) PROVE LiveAreRegistered'
  BY <1>0, <1>11 DEF Abandon, Interrupt, Kills, Killed, Interrupts, Resumed
<1>12. CASE Destroy
  BY <1>0, <1>12 DEF Destroy, Collected
<1>13. ASSUME NEW p \in Pids, Exec(p) PROVE LiveAreRegistered'
  BY <1>0, <1>13 DEF Exec, Become
<1>14. ASSUME NEW p \in Pids, StopOnTty(p) PROVE LiveAreRegistered'
  BY <1>0, <1>14 DEF StopOnTty, Become
<1>15. ASSUME NEW p \in Pids, Exit(p) PROVE LiveAreRegistered'
  BY <1>0, <1>15 DEF Exit, Become
<1>16. ASSUME NEW p \in Pids, OtherStart(p) PROVE LiveAreRegistered'
  BY <1>0, <1>16 DEF OtherStart, Become
<1>17. ASSUME NEW p \in Pids, OtherEnd(p) PROVE LiveAreRegistered'
  BY <1>0, <1>17 DEF OtherEnd, Become
<1>18. CASE UNCHANGED vars
  BY <1>0, <1>18 DEF vars
<1> QED
  BY <1>1, <1>2, <1>3, <1>4, <1>5, <1>6, <1>7, <1>8, <1>9, <1>10, <1>11, <1>12, <1>13, <1>14, <1>15, <1>16, <1>17, <1>18
     DEF Next, Worker, Host, Processes

(* An interrupt, early or late, reaches registered children only, and all of them. *)
LEMMA InterruptStep == IInv /\ [Next]_vars => InterruptReachesItsOwn'
<1> USE DEF DataOK, IndexInside, Looping, ChildrenAreOurs, Unreaped, GroupsAreChildren, InterruptReachesItsOwn, Strays, Ours, States, Live, Obeying, workerVars
<1> SUFFICES ASSUME IInv, [Next]_vars PROVE InterruptReachesItsOwn'
  OBVIOUS
<1>0. DataOK /\ IndexInside /\ ChildrenAreOurs /\ GroupsAreChildren /\ InterruptReachesItsOwn
  BY StagesAssumption DEF IInv, TypeOK
<1>1. CASE Check
  BY <1>0, <1>1 DEF Check
<1>2. CASE Fork
  BY <1>0, <1>2 DEF Fork, Call
<1>3. CASE ForkFails
  BY <1>0, <1>3 DEF ForkFails, Call
<1>4. CASE Track
  <2> DEFINE p == invocation[index]
  <2>1. p \in Pids /\ proc[p] \in Ours
    BY <1>0, <1>4 DEF Track, Call
  <2>2. ~strayed'
    BY <1>0, <2>1, <1>4 DEF Track
  <2>3. ASSUME interrupted', NEW q \in groups' PROVE proc'[q] \notin Obeying
    <3>1. interrupted /\ proc' = Interrupted({p}) /\ groups' = groups \cup {p}
      BY <2>3, <1>4 DEF Track, Told
    <3> QED
      BY <1>0, <2>1, <2>3, <3>1 DEF Interrupted
  <2> QED
    BY <2>2, <2>3
<1>5. CASE ReadBytes
  BY <1>0, <1>5 DEF ReadBytes, Call
<1>6. CASE ReadEnd
  BY <1>0, <1>6 DEF ReadEnd, Call
<1>7. CASE Release
  BY <1>0, <1>7 DEF Release, Released, Call, Advance
<1>8. CASE Await
  BY <1>0, <1>8 DEF Await, Call, Advance
<1>9. CASE NextPipeline
  BY <1>0, <1>9 DEF NextPipeline, Call
<1>10. CASE CtrlC
  BY <1>0, <1>10 DEF CtrlC, Interrupt, Kills, Killed, Interrupts, Resumed
<1>11. ASSUME NEW force \in BOOLEAN, Abandon(force) PROVE InterruptReachesItsOwn'
  BY <1>0, <1>11 DEF Abandon, Interrupt, Kills, Killed, Interrupts, Resumed
<1>12. CASE Destroy
  BY <1>0, <1>12 DEF Destroy, Collected
<1>13. ASSUME NEW p \in Pids, Exec(p) PROVE InterruptReachesItsOwn'
  BY <1>0, <1>13 DEF Exec, Become
<1>14. ASSUME NEW p \in Pids, StopOnTty(p) PROVE InterruptReachesItsOwn'
  BY <1>0, <1>14 DEF StopOnTty, Become
<1>15. ASSUME NEW p \in Pids, Exit(p) PROVE InterruptReachesItsOwn'
  BY <1>0, <1>15 DEF Exit, Become
<1>16. ASSUME NEW p \in Pids, OtherStart(p) PROVE InterruptReachesItsOwn'
  BY <1>0, <1>16 DEF OtherStart, Become
<1>17. ASSUME NEW p \in Pids, OtherEnd(p) PROVE InterruptReachesItsOwn'
  BY <1>0, <1>17 DEF OtherEnd, Become
<1>18. CASE UNCHANGED vars
  BY <1>0, <1>18 DEF vars
<1> QED
  BY <1>1, <1>2, <1>3, <1>4, <1>5, <1>6, <1>7, <1>8, <1>9, <1>10, <1>11, <1>12, <1>13, <1>14, <1>15, <1>16, <1>17, <1>18
     DEF Next, Worker, Host, Processes

-----------------------------------------------------------------------------
(* The flags stay flags. *)
LEMMA FlagsStep == IInv /\ [Next]_vars => FlagsOK'
<1> USE DEF FlagsOK, Call, workerVars
<1> SUFFICES ASSUME FlagsOK, [Next]_vars PROVE FlagsOK'
  BY DEF IInv, TypeOK
<1>1. CASE Worker
  <2>1. CASE Check
    BY <2>1 DEF Check
  <2>2. CASE Track
    BY <2>2 DEF Track
  <2>3. CASE Fork \/ ForkFails \/ ReadBytes \/ ReadEnd \/ Release \/ Await \/ NextPipeline
    BY <2>3 DEF Fork, ForkFails, ReadBytes, ReadEnd, Release, Await, NextPipeline
  <2> QED
    BY <1>1, <2>1, <2>2, <2>3 DEF Worker
<1>2. ASSUME NEW force \in BOOLEAN, CtrlC \/ Abandon(force) PROVE FlagsOK'
  BY <1>2 DEF CtrlC, Abandon, Interrupt
<1>3. CASE Destroy
  BY <1>3 DEF Destroy
<1>4. CASE Processes
  BY <1>4 DEF Processes, Exec, StopOnTty, Exit, OtherStart, OtherEnd, Become
<1>5. CASE UNCHANGED vars
  BY <1>5 DEF vars
<1> QED
  BY <1>1, <1>2, <1>3, <1>4, <1>5 DEF Next, Host

(***************************************************************************)
(* The inductive invariant holds in every run of a request.                 *)
(***************************************************************************)
THEOREM Invariance == Spec => []IInv
<1>1. IInv /\ [Next]_vars => IInv'
  BY DataStep, FlagsStep, IndexStep, ChildrenStep, GroupsStep, LiveStep, InterruptStep DEF IInv, TypeOK
<1> QED
  BY InitIInv, <1>1, PTL DEF Spec

(***************************************************************************)
(* No signal reaches a process that is not a child of the request, however  *)
(* often numbers are used again, and an interrupt leaves no registered      *)
(* child running that obeys it (ProcessControl.hpp:100-108, track).         *)
(***************************************************************************)
THEOREM InterruptIsSound == Spec => []InterruptReachesItsOwn
<1>1. IInv => InterruptReachesItsOwn
  BY DEF IInv
<1> QED
  BY Invariance, <1>1, PTL

(***************************************************************************)
(* A child that was ever registered does not outlive its request, wherever  *)
(* the worker was unwound (~ProcessControl).                                *)
(***************************************************************************)
THEOREM NothingTrackedOutlives == Spec => []TrackedDoNotOutlive
<1>1. IInv => TrackedDoNotOutlive
  BY DEF IInv, LiveAreRegistered, TrackedDoNotOutlive
<1> QED
  BY Invariance, <1>1, PTL
=============================================================================
