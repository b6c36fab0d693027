------------------------- MODULE PublicationProofs --------------------------
(***************************************************************************)
(* Proofs about Publication, for any number of sessions, any language      *)
(* states and any request scripts.                                         *)
(***************************************************************************)
EXTENDS Publication, TLAPS

(* Ids in use were taken from nextId_. *)
IdsTaken ==
    /\ Baseline.id < nextId
    /\ current.id < nextId
    /\ \A s \in Sessions :
         /\ prepared[s] # NoGeneration => prepared[s].id < nextId
         /\ pending[s] # NoGeneration => pending[s].id < nextId

(* The publisher inside portableLexicon holds publishMutex_, and nobody can
   have published anything newer than the ids it took under that lock. *)
PublisherIsAhead ==
    \A s \in Sessions :
      pc[s] = "publishing" => publishLock = s /\ current.id < pending[s].id

(* The baseline stays the first generation of the log. *)
BaselineFirst == log # <<>> /\ log[1] = Baseline

IdsOK == IdsTaken /\ PublisherIsAhead

IInv ==
    /\ TypeOK
    /\ BaselineFirst
    /\ PublishedInOrder
    /\ AttachedWasPublished
    /\ IdsOK

(* Every step of every session keeps the types. *)
LEMMA TypeStep == TypeOK /\ [Next]_vars => TypeOK'
<1> USE PublicationAssumption, NoneAssumption
      DEF Generation, Palette, Baseline
<1> SUFFICES ASSUME TypeOK, [Next]_vars PROVE TypeOK'
  OBVIOUS
<1>1. ASSUME NEW s \in Sessions, OpenSession(s) PROVE TypeOK'
  BY <1>1 DEF TypeOK, OpenSession, PC
<1>2. ASSUME NEW s \in Sessions, Attach(s) PROVE TypeOK'
  BY <1>2 DEF TypeOK, Attach, PC
<1>3. ASSUME NEW s \in Sessions, AttachFails(s) PROVE TypeOK'
  BY <1>3 DEF TypeOK, AttachFails, PC
<1>4. ASSUME NEW s \in Sessions, NEW i \in BOOLEAN, BeginRequest(s, i) PROVE TypeOK'
  BY <1>4 DEF TypeOK, BeginRequest, PC
<1>5. ASSUME NEW s \in Sessions, NEW c \in Contents, NEW q \in Scripts,
               Elaborate(s, c, q)
        PROVE  TypeOK'
  BY <1>5 DEF TypeOK, Elaborate, PC
<1>6. ASSUME NEW s \in Sessions, CommitRequest(s) PROVE TypeOK'
  BY <1>6 DEF TypeOK, CommitRequest, CommittedSessionId, PC
<1>7. ASSUME NEW s \in Sessions, RollbackRequest(s) PROVE TypeOK'
  BY <1>7 DEF TypeOK, RollbackRequest, Restored, PC
<1>8. ASSUME NEW s \in Sessions, FinishRequest(s) PROVE TypeOK'
  BY <1>8 DEF TypeOK, FinishRequest, PC
<1>9. ASSUME NEW s \in Sessions, PublishBegins(s) PROVE TypeOK'
  BY <1>9 DEF TypeOK, PublishBegins, NextCommand, Snapshot, PC
<1>10. ASSUME NEW s \in Sessions, PublishInstalls(s) PROVE TypeOK'
  BY <1>10 DEF TypeOK, PublishInstalls, PC
<1>11. ASSUME NEW s \in Sessions, PublishFails(s) PROVE TypeOK'
  BY <1>11 DEF TypeOK, PublishFails, LockAfterFailure, PC
<1>12. ASSUME NEW s \in Sessions, Prepare(s) PROVE TypeOK'
  BY <1>12 DEF TypeOK, Prepare, NextCommand, Snapshot, PC
<1>13. ASSUME NEW s \in Sessions, PrepareFails(s) PROVE TypeOK'
  BY <1>13 DEF TypeOK, PrepareFails, NextCommand, PC
<1>14. ASSUME NEW s \in Sessions, CommitPublication(s) PROVE TypeOK'
  BY <1>14 DEF TypeOK, CommitPublication, NextCommand, PC
<1>15. ASSUME NEW s \in Sessions, CommitRefused(s) PROVE TypeOK'
  BY <1>15 DEF TypeOK, CommitRefused, NextCommand, PC
<1>16. ASSUME NEW s \in Sessions, Refresh(s) PROVE TypeOK'
  BY <1>16 DEF TypeOK, Refresh, RefreshTarget, Select, NextCommand, PC
<1>20. ASSUME NEW s \in Sessions, SelectBaseline(s) PROVE TypeOK'
  BY <1>20 DEF TypeOK, SelectBaseline, Select, NextCommand, PC
<1>17. ASSUME NEW s \in Sessions, Highlight(s) PROVE TypeOK'
  BY <1>17 DEF TypeOK, Highlight, PC
<1>18. ASSUME NEW s \in Sessions, NEW c \in Contents, Complete(s, c) PROVE TypeOK'
  BY <1>18 DEF TypeOK, Complete, PC
<1>19. CASE UNCHANGED vars
  BY <1>19 DEF TypeOK, vars
<1> QED
  BY <1>1, <1>2, <1>3, <1>4, <1>5, <1>6, <1>7, <1>8, <1>9, <1>10, <1>11,
       <1>12, <1>13, <1>14, <1>15, <1>16, <1>17, <1>18, <1>19, <1>20
       DEF Next, AttachStep, RequestStep, CommandStep, ConsoleStep

(***************************************************************************)
(* The inductive invariant.                                                *)
(***************************************************************************)

(* The log changes only when a generation newer than the current one is    *)
(* installed; every other step leaves log and current alone.               *)
LEMMA LogStep ==
  ASSUME IInv, [Next]_vars
  PROVE  \/ UNCHANGED <<current, log>>
         \/ \E g \in Generation : /\ current.id < g.id
                                  /\ current' = g
                                  /\ log' = Append(log, g)
<1> USE DEF IInv
<1>1. ASSUME NEW s \in Sessions, PublishInstalls(s)
      PROVE  \E g \in Generation : /\ current.id < g.id
                                   /\ current' = g
                                   /\ log' = Append(log, g)
  <2>1. pending[s] \in Generation
    BY <1>1, NoneAssumption DEF TypeOK, PublishInstalls
  <2> QED
    BY <1>1, <2>1 DEF PublishInstalls, IdsOK, PublisherIsAhead
<1>2. ASSUME NEW s \in Sessions, CommitPublication(s)
      PROVE  \E g \in Generation : /\ current.id < g.id
                                   /\ current' = g
                                   /\ log' = Append(log, g)
  <2>1. prepared[s] \in Generation
    BY <1>2 DEF TypeOK, CommitPublication
  <2> QED
    BY <1>2, <2>1 DEF CommitPublication, Supersedes
<1>3. ASSUME NEW s \in Sessions, OpenSession(s) \/ AttachStep(s) \/ RequestStep(s)
                                   \/ ConsoleStep(s)
      PROVE  UNCHANGED <<current, log>>
  BY <1>3 DEF OpenSession, AttachStep, Attach, AttachFails, RequestStep,
              BeginRequest, Elaborate, CommitRequest, RollbackRequest,
              ConsoleStep, Highlight, Complete
<1>4. ASSUME NEW s \in Sessions, CommandStep(s),
             ~PublishInstalls(s), ~CommitPublication(s)
      PROVE  UNCHANGED <<current, log>>
  BY <1>4 DEF CommandStep, FinishRequest, PublishBegins, PublishFails, Prepare,
              PrepareFails, CommitRefused, Refresh, SelectBaseline, Select
<1> QED
  BY <1>1, <1>2, <1>3, <1>4 DEF Next, vars

(* Publications stay in order along a step. *)
LEMMA OrderStep ==
  ASSUME IInv, [Next]_vars
  PROVE  PublishedInOrder'
<1>1. CASE UNCHANGED <<current, log>>
  BY <1>1 DEF IInv, PublishedInOrder
<1>2. ASSUME NEW g \in Generation, current.id < g.id, current' = g,
             log' = Append(log, g)
      PROVE  PublishedInOrder'
  <2> DEFINE S == Generation
  <2>0. log \in Seq(S) /\ current \in S /\ PublishedInOrder
    BY DEF IInv, TypeOK
  <2>1. /\ Len(log) \in Nat /\ Len(log) > 0 /\ DOMAIN log = 1..Len(log)
        /\ current = log[Len(log)]
        /\ \A i, j \in 1..Len(log) : i < j => log[i].id < log[j].id
        /\ \A i \in 1..Len(log) : log[i] \in S
    <3> HIDE DEF S
    <3> QED
      BY <2>0 DEF PublishedInOrder
  <2>2. \A i \in 1..Len(log) : log[i].id < g.id
    <3> TAKE i \in 1..Len(log)
    <3>1. log[i].id \in Nat /\ current.id \in Nat /\ g.id \in Nat
      BY <2>0, <2>1 DEF Generation
    <3>2. i = Len(log) \/ log[i].id < current.id
      <4> DEFINE n == Len(log)
      <4>0. n \in Nat /\ n > 0 /\ i \in 1..n
        BY <2>1
      <4> HIDE DEF n
      <4>1. i # n => i < n /\ n \in 1..n
        BY ONLY <4>0
      <4> USE DEF n
      <4>2. i # Len(log) => log[i].id < log[Len(log)].id
        BY ONLY <4>1, <2>1, i \in 1..Len(log)
      <4> QED
        BY <4>2, <2>1
    <3>3. current.id < g.id
      BY <1>2
    <3>4. log[i].id = current.id \/ log[i].id < current.id
      BY <2>1, <3>2
    <3> HIDE DEF S
    <3> QED
      BY ONLY <3>1, <3>3, <3>4
  <2>3. /\ Len(log') = Len(log) + 1
        /\ log'[Len(log) + 1] = g
        /\ \A i \in 1..Len(log) : log'[i] = log[i]
        /\ DOMAIN log' = 1..(Len(log) + 1)
    BY <1>2, <2>0, <2>1
  <2>4. \A i, j \in 1..(Len(log) + 1) : i < j => log'[i].id < log'[j].id
    BY <2>1, <2>2, <2>3
  <2> QED
    BY <1>2, <2>1, <2>3, <2>4 DEF PublishedInOrder
<1> QED
  BY <1>1, <1>2, LogStep

(* The log never loses a generation. *)
LEMMA LogKeeps ==
  ASSUME IInv, [Next]_vars, NEW g, \E i \in DOMAIN log : log[i] = g
  PROVE  \E i \in DOMAIN log' : log'[i] = g
<1>1. CASE UNCHANGED <<current, log>>
  BY <1>1
<1>2. ASSUME NEW h \in Generation, log' = Append(log, h)
      PROVE  \E i \in DOMAIN log' : log'[i] = g
  <2> DEFINE S == Generation
  <2>1. log \in Seq(S) /\ h \in S
    BY DEF IInv, TypeOK
  <2> HIDE DEF S
  <2>2. /\ DOMAIN log \subseteq DOMAIN log'
        /\ \A i \in DOMAIN log : log'[i] = log[i]
    BY <1>2, <2>1
  <2> QED
    BY <2>2
<1> QED
  BY <1>1, <1>2, LogStep

(* What is current is in the log, before and after a step. *)
LEMMA CurrentInLog ==
  ASSUME IInv
  PROVE  \E i \in DOMAIN log : log[i] = current
<1> DEFINE S == Generation
<1>1. log \in Seq(S) /\ PublishedInOrder
  BY DEF IInv, TypeOK
<1> HIDE DEF S
<1>2. Len(log) \in DOMAIN log
  BY <1>1 DEF PublishedInOrder
<1> QED
  BY <1>1, <1>2 DEF PublishedInOrder


(* The first publication stays the baseline. *)
LEMMA BaselineStep ==
  ASSUME IInv, [Next]_vars
  PROVE  BaselineFirst'
<1>1. CASE UNCHANGED <<current, log>>
  BY <1>1 DEF IInv, BaselineFirst, Baseline
<1>2. ASSUME NEW h \in Generation, log' = Append(log, h)
      PROVE  BaselineFirst'
  <2> DEFINE S == Generation
  <2>1. log \in Seq(S) /\ h \in S /\ log # <<>> /\ log[1] = Baseline
    BY DEF IInv, TypeOK, BaselineFirst
  <2> HIDE DEF S
  <2>2. log' # <<>> /\ log'[1] = log[1]
    BY <1>2, <2>1
  <2> QED
    BY <2>1, <2>2 DEF BaselineFirst, Baseline
<1> QED
  BY <1>1, <1>2, LogStep

(* Every id in use stays below nextId_, and the publisher stays ahead: no  *)
(* other session can install a generation while it holds publishMutex_.    *)
LEMMA IdStep ==
  ASSUME IInv, [Next]_vars
  PROVE  IdsOK'
<1> USE NoneAssumption, PublicationAssumption
      DEF IdsOK, IInv, TypeOK, IdsTaken, PublisherIsAhead, Generation, Baseline
<1>1. ASSUME NEW s \in Sessions, OpenSession(s) PROVE IdsOK'
  BY <1>1 DEF OpenSession
<1>2. ASSUME NEW s \in Sessions, Attach(s) PROVE IdsOK'
  BY <1>2 DEF Attach
<1>3. ASSUME NEW s \in Sessions, AttachFails(s) PROVE IdsOK'
  BY <1>3 DEF AttachFails
<1>4. ASSUME NEW s \in Sessions, NEW i \in BOOLEAN, BeginRequest(s, i) PROVE IdsOK'
  BY <1>4 DEF BeginRequest
<1>5. ASSUME NEW s \in Sessions, NEW c \in Contents, NEW q \in Scripts,
             Elaborate(s, c, q)
      PROVE  IdsOK'
  BY <1>5 DEF Elaborate
<1>6. ASSUME NEW s \in Sessions, CommitRequest(s) PROVE IdsOK'
  BY <1>6 DEF CommitRequest
<1>7. ASSUME NEW s \in Sessions, RollbackRequest(s) PROVE IdsOK'
  BY <1>7 DEF RollbackRequest
<1>8. ASSUME NEW s \in Sessions, FinishRequest(s) PROVE IdsOK'
  BY <1>8 DEF FinishRequest
<1>9. ASSUME NEW s \in Sessions, PublishBegins(s) PROVE IdsOK'
  BY <1>9 DEF PublishBegins, PublishLockFree, NextCommand, Snapshot
<1>10. ASSUME NEW s \in Sessions, PublishInstalls(s) PROVE IdsOK'
  BY <1>10 DEF PublishInstalls
<1>11. ASSUME NEW s \in Sessions, PublishFails(s) PROVE IdsOK'
  BY <1>11 DEF PublishFails, LockAfterFailure
<1>12. ASSUME NEW s \in Sessions, Prepare(s) PROVE IdsOK'
  BY <1>12 DEF Prepare, NextCommand, Snapshot
<1>13. ASSUME NEW s \in Sessions, PrepareFails(s) PROVE IdsOK'
  BY <1>13 DEF PrepareFails, NextCommand
<1>14. ASSUME NEW s \in Sessions, CommitPublication(s) PROVE IdsOK'
  BY <1>14 DEF CommitPublication, PublishLockFree, NextCommand
<1>15. ASSUME NEW s \in Sessions, CommitRefused(s) PROVE IdsOK'
  BY <1>15 DEF CommitRefused, NextCommand
<1>16. ASSUME NEW s \in Sessions, Refresh(s) PROVE IdsOK'
  BY <1>16 DEF Refresh, RefreshTarget, Select, NextCommand
<1>17. ASSUME NEW s \in Sessions, SelectBaseline(s) PROVE IdsOK'
  BY <1>17 DEF SelectBaseline, Select, NextCommand
<1>18. ASSUME NEW s \in Sessions, Highlight(s) PROVE IdsOK'
  BY <1>18 DEF Highlight
<1>19. ASSUME NEW s \in Sessions, NEW c \in Contents, Complete(s, c) PROVE IdsOK'
  BY <1>19 DEF Complete
<1>20. CASE UNCHANGED vars
  BY <1>20 DEF vars
<1> HIDE DEF IdsOK, IInv, TypeOK, IdsTaken, PublisherIsAhead, Generation, Baseline
<1> QED
  BY <1>1, <1>2, <1>3, <1>4, <1>5, <1>6, <1>7, <1>8, <1>9, <1>10, <1>11,
     <1>12, <1>13, <1>14, <1>15, <1>16, <1>17, <1>18, <1>19, <1>20
     DEF Next, AttachStep, RequestStep, CommandStep, ConsoleStep

(* A session attaches only to what is in the log: everything a step selects *)
(* was current or the baseline, and the log keeps what was selected before. *)
Logged == {log[i] : i \in DOMAIN log}

AttachedLogged ==
    \A s \in Sessions :
      /\ project[s] # NoGeneration => project[s] \in Logged
      /\ pc[s] \in {"opening", "attaching"} => pending[s] \in Logged

(* A step attaches a session to nothing but a published generation. *)
LEMMA AttachedStep ==
  ASSUME IInv, [Next]_vars
  PROVE  AttachedWasPublished'
<1>1. Logged \subseteq Logged'
  BY LogKeeps DEF Logged
<1>2. current \in Logged /\ Baseline \in Logged
  <2>1. current \in Logged
    BY CurrentInLog DEF Logged
  <2> DEFINE S == Generation
  <2>2. log \in Seq(S) /\ log # <<>> /\ log[1] = Baseline
    BY DEF IInv, TypeOK, BaselineFirst
  <2> HIDE DEF S
  <2>3. 1 \in DOMAIN log
    BY <2>2
  <2> QED
    BY <2>1, <2>2, <2>3 DEF Logged
<1>3. AttachedLogged
  BY DEF IInv, AttachedWasPublished, AttachedLogged, Logged
<1>4. TypeOK
  BY DEF IInv
<1> USE DEF AttachedLogged
<1>5. ASSUME NEW s \in Sessions, OpenSession(s) PROVE AttachedLogged'
  BY <1>1, <1>2, <1>3, <1>4, <1>5 DEF OpenSession, TypeOK
<1>6. ASSUME NEW s \in Sessions, Attach(s) PROVE AttachedLogged'
  BY <1>1, <1>3, <1>4, <1>6 DEF Attach, TypeOK
<1>7. ASSUME NEW s \in Sessions, AttachFails(s) PROVE AttachedLogged'
  BY <1>1, <1>3, <1>4, <1>7 DEF AttachFails, TypeOK
<1>8. ASSUME NEW s \in Sessions, RequestStep(s) PROVE AttachedLogged'
  BY <1>1, <1>3, <1>4, <1>8
     DEF RequestStep, BeginRequest, Elaborate, CommitRequest, RollbackRequest, TypeOK
<1>9. ASSUME NEW s \in Sessions, ConsoleStep(s) PROVE AttachedLogged'
  BY <1>1, <1>3, <1>4, <1>9 DEF ConsoleStep, Highlight, Complete, TypeOK
<1>10. ASSUME NEW s \in Sessions, PublishInstalls(s) PROVE AttachedLogged'
  <2>1. pending[s] \in Logged'
    <3> DEFINE S == Generation
    <3>1. /\ log \in Seq(S) /\ pending[s] \in S /\ log' = Append(log, pending[s])
      BY <1>4, <1>10 DEF PublishInstalls, TypeOK
    <3> HIDE DEF S
    <3>2. Len(log) + 1 \in DOMAIN log' /\ log'[Len(log) + 1] = pending[s]
      BY <3>1
    <3> QED
      BY <3>2 DEF Logged
  <2> QED
    BY <1>1, <1>3, <1>4, <1>10, <2>1 DEF PublishInstalls, TypeOK
<1>11. ASSUME NEW s \in Sessions, CommitPublication(s) PROVE AttachedLogged'
  <2>1. prepared[s] \in Logged'
    <3> DEFINE S == Generation
    <3>1. /\ log \in Seq(S) /\ prepared[s] \in S /\ log' = Append(log, prepared[s])
      BY <1>4, <1>11 DEF CommitPublication, TypeOK
    <3> HIDE DEF S
    <3>2. Len(log) + 1 \in DOMAIN log' /\ log'[Len(log) + 1] = prepared[s]
      BY <3>1
    <3> QED
      BY <3>2 DEF Logged
  <2> QED
    BY <1>1, <1>3, <1>4, <1>11, <2>1 DEF CommitPublication, TypeOK
<1>12. ASSUME NEW s \in Sessions, FinishRequest(s) PROVE AttachedLogged'
  BY <1>1, <1>3, <1>4, <1>12 DEF FinishRequest, TypeOK
<1>19. ASSUME NEW s \in Sessions, Prepare(s) PROVE AttachedLogged'
  BY <1>1, <1>3, <1>4, <1>19 DEF Prepare, TypeOK
<1>20. ASSUME NEW s \in Sessions, PrepareFails(s) PROVE AttachedLogged'
  BY <1>1, <1>3, <1>4, <1>20 DEF PrepareFails, TypeOK
<1>21. ASSUME NEW s \in Sessions, CommitRefused(s) PROVE AttachedLogged'
  BY <1>1, <1>3, <1>4, <1>21 DEF CommitRefused, TypeOK
<1>13. ASSUME NEW s \in Sessions, PublishBegins(s) PROVE AttachedLogged'
  BY <1>1, <1>3, <1>4, <1>13 DEF PublishBegins, TypeOK
<1>14. ASSUME NEW s \in Sessions, PublishFails(s) PROVE AttachedLogged'
  BY <1>1, <1>3, <1>4, <1>14 DEF PublishFails, TypeOK
<1>15. ASSUME NEW s \in Sessions, Refresh(s) PROVE AttachedLogged'
  BY <1>1, <1>2, <1>3, <1>4, <1>15 DEF Refresh, RefreshTarget, Select, TypeOK
<1>16. ASSUME NEW s \in Sessions, SelectBaseline(s) PROVE AttachedLogged'
  BY <1>1, <1>2, <1>3, <1>4, <1>16 DEF SelectBaseline, Select, TypeOK
<1>17. ASSUME UNCHANGED vars PROVE AttachedLogged'
  BY <1>1, <1>3, <1>17 DEF vars
<1> HIDE DEF AttachedLogged
<1>18. AttachedLogged'
  BY <1>5, <1>6, <1>7, <1>8, <1>9, <1>10, <1>11, <1>12, <1>13, <1>14, <1>15,
     <1>16, <1>17, <1>19, <1>20, <1>21
     DEF Next, AttachStep, CommandStep
<1> QED
  BY <1>18 DEF AttachedLogged, Logged, AttachedWasPublished

(* The inductive invariant holds in every reachable state. *)
THEOREM Invariance == Spec => []IInv
<1>1. Init => IInv
  <2> SUFFICES ASSUME Init PROVE IInv
    OBVIOUS
  <2> USE PublicationAssumption, NoneAssumption
        DEF Init, Generation, Palette, Baseline
  <2>1. TypeOK
    BY DEF TypeOK, PC, Command
  <2>2. PublishedInOrder /\ BaselineFirst
    BY DEF PublishedInOrder, BaselineFirst
  <2>3. AttachedWasPublished
    BY DEF AttachedWasPublished
  <2>4. IdsOK
    BY DEF IdsOK, IdsTaken, PublisherIsAhead
  <2> QED
    BY <2>1, <2>2, <2>3, <2>4 DEF IInv
<1>2. IInv /\ [Next]_vars => IInv'
  <2> SUFFICES ASSUME IInv, [Next]_vars PROVE IInv'
    OBVIOUS
  <2>1. TypeOK'
    BY TypeStep DEF IInv
  <2> QED
    BY <2>1, BaselineStep, OrderStep, AttachedStep, IdStep DEF IInv
<1> QED
  BY <1>1, <1>2, PTL DEF Spec

(* Type correctness of every reachable state of the publication protocol. *)
THEOREM TypeCorrect == Spec => []TypeOK
BY Invariance, PTL DEF IInv

(* Publications never go back, whatever the interleaving of one-step and    *)
(* two-phase publications.                                                  *)
THEOREM PublicationsInOrder == Spec => []PublishedInOrder
BY Invariance, PTL DEF IInv

(* No session ever runs on a generation that was prepared but not published. *)
THEOREM AttachedIsPublished == Spec => []AttachedWasPublished
BY Invariance, PTL DEF IInv

(* What a session is about to attach to is the baseline or no older than   *)
(* what it runs on; a session runs on nothing before it is opened.         *)
Forward ==
    \A s \in Sessions :
      /\ pc[s] \in {"closed", "opening"} => project[s] = NoGeneration
      /\ pc[s] = "attaching" /\ project[s] # NoGeneration
           => \/ pending[s] = Baseline
              \/ pending[s] = project[s]
              \/ project[s].id < pending[s].id

(* The current generation is the newest of all that sessions run on. *)
LEMMA CurrentIsNewest ==
  ASSUME IInv, NEW s \in Sessions, project[s] # NoGeneration
  PROVE  /\ project[s] \in Generation
         /\ project[s] = current \/ project[s].id < current.id
<1> DEFINE S == Generation
<1>1. log \in Seq(S) /\ PublishedInOrder /\ project[s] \in S
  BY DEF IInv, TypeOK
<1>2. PICK i \in DOMAIN log : log[i] = project[s]
  BY DEF IInv, AttachedWasPublished
<1> HIDE DEF S
<1>3. /\ Len(log) \in Nat /\ i \in 1..Len(log) /\ Len(log) \in DOMAIN log
      /\ current = log[Len(log)]
      /\ \A j, k \in DOMAIN log : j < k => log[j].id < log[k].id
  BY <1>1, <1>2 DEF PublishedInOrder
<1>4. i = Len(log) \/ i < Len(log)
  BY <1>3
<1> USE DEF S
<1> QED
  BY <1>1, <1>2, <1>3, <1>4

(* Ids of generations are ordered. *)
LEMMA IdsTransitive ==
  ASSUME NEW g \in Generation, NEW h \in Generation, NEW k \in Generation,
         g = h \/ g.id < h.id, h.id < k.id
  PROVE  g.id < k.id
BY DEF Generation

(* Every step keeps the sessions going forward: a publication is newer than *)
(* the current generation, which is the newest that any session runs on.    *)
LEMMA ForwardStep ==
  ASSUME IInv, Forward, [Next]_vars
  PROVE  Forward'
<1>1. TypeOK
  BY DEF IInv
<1>2. \A s \in Sessions : project[s] # NoGeneration =>
          /\ project[s] \in Generation
          /\ project[s] = current \/ project[s].id < current.id
  BY CurrentIsNewest
<1> USE <1>1 DEF Forward, TypeOK, Baseline
<1>3. ASSUME NEW s \in Sessions, OpenSession(s) PROVE Forward'
  BY <1>3 DEF OpenSession
<1>4. ASSUME NEW s \in Sessions, AttachStep(s) PROVE Forward'
  BY <1>4 DEF AttachStep, Attach, AttachFails
<1>5. ASSUME NEW s \in Sessions, RequestStep(s) PROVE Forward'
  BY <1>5 DEF RequestStep, BeginRequest, Elaborate, CommitRequest, RollbackRequest
<1>6. ASSUME NEW s \in Sessions, ConsoleStep(s) PROVE Forward'
  BY <1>6 DEF ConsoleStep, Highlight, Complete
<1>7. ASSUME NEW s \in Sessions, PublishInstalls(s) PROVE Forward'
  <2>1. current.id < pending[s].id /\ pending[s] \in Generation /\ current \in Generation
    BY <1>7, NoneAssumption DEF PublishInstalls, IInv, IdsOK, PublisherIsAhead
  <2>2. project[s] # NoGeneration => project[s].id < pending[s].id
    BY <1>2, <2>1, IdsTransitive
  <2> QED
    BY <1>7, <2>2 DEF PublishInstalls
<1>8. ASSUME NEW s \in Sessions, CommitPublication(s) PROVE Forward'
  <2>1. current.id < prepared[s].id /\ prepared[s] \in Generation /\ current \in Generation
    BY <1>8 DEF CommitPublication, Supersedes
  <2>2. project[s] # NoGeneration => project[s].id < prepared[s].id
    BY <1>2, <2>1, IdsTransitive
  <2> QED
    BY <1>8, <2>2 DEF CommitPublication
<1>9. ASSUME NEW s \in Sessions, Refresh(s) PROVE Forward'
  BY <1>2, <1>9 DEF Refresh, RefreshTarget, Select, NextCommand
<1>10. ASSUME NEW s \in Sessions, SelectBaseline(s) PROVE Forward'
  BY <1>10 DEF SelectBaseline, Select, NextCommand
<1>11. ASSUME NEW s \in Sessions,
              \/ FinishRequest(s) \/ PublishBegins(s) \/ PublishFails(s) \/ Prepare(s)
              \/ PrepareFails(s) \/ CommitRefused(s)
       PROVE Forward'
  BY <1>11 DEF FinishRequest, PublishBegins, PublishFails, Prepare, PrepareFails,
               CommitRefused, NextCommand
<1>12. CASE UNCHANGED vars
  BY <1>12 DEF vars
<1> HIDE DEF Forward, TypeOK, Baseline
<1> QED
  BY <1>3, <1>4, <1>5, <1>6, <1>7, <1>8, <1>9, <1>10, <1>11, <1>12
     DEF Next, CommandStep

(* A session never goes back to an older generation unless it asks for the *)
(* baseline, whatever the others publish between its choice and its attach. *)
THEOREM AttachesForward == Spec => NeverAttachesBackwards
<1>1. Init => Forward
  BY NoneAssumption DEF Init, Forward
<1>2. IInv /\ Forward /\ [Next]_vars => Forward'
  BY ForwardStep
<1>3. ASSUME IInv, Forward, [Next]_vars,
             NEW s \in Sessions, project'[s] # project[s], project[s] # NoGeneration
      PROVE  project'[s] = Baseline \/ project'[s].id > project[s].id
  <2>1. TypeOK /\ project[s] \in Generation
    BY <1>3, CurrentIsNewest DEF IInv
  <2>2. PICK t \in Sessions : Attach(t) \/ AttachFails(t)
    BY <1>3 DEF Next, vars, OpenSession, AttachStep, RequestStep, BeginRequest,
       Elaborate, CommitRequest, RollbackRequest, CommandStep, FinishRequest,
       PublishBegins, PublishInstalls, PublishFails, Prepare, PrepareFails,
       CommitPublication, CommitRefused, Refresh, SelectBaseline, Select,
       ConsoleStep, Highlight, Complete
  <2>3. t = s /\ project'[s] = pending[s] /\ pc[s] \in {"opening", "attaching"}
    BY <1>3, <2>1, <2>2 DEF Attach, AttachFails, TypeOK
  <2>4. pending[s] = Baseline \/ project[s].id < pending[s].id
    BY <1>3, <2>3 DEF Forward
  <2>5. pending[s] \in Generation
    BY <2>1, <2>3, NoneAssumption DEF TypeOK
  <2> QED
    BY <2>1, <2>3, <2>4, <2>5 DEF Generation
<1>4. IInv /\ Forward /\ [Next]_vars => [\A s \in Sessions : GoesForward(s)]_vars
  BY <1>3 DEF GoesForward
<1> QED
  BY <1>1, <1>2, <1>4, Invariance, PTL DEF Spec, NeverAttachesBackwards

(* Every behaviour of the protocol is a behaviour of the abstract log: each  *)
(* step publishes a newer generation, adopts a published one, or stutters.   *)
THEOREM ImplementsLog == Spec => LogRefinement
<1> USE DEF Log!Generation, Generation
<1>1. Init => Log!LogInit
  BY PublicationAssumption DEF Init, Log!LogInit, Baseline
<1>2. IInv /\ [Next]_vars => [Log!LogNext]_(Log!logVars)
  <2> SUFFICES ASSUME IInv, [Next]_vars
               PROVE  Log!LogNext \/ UNCHANGED <<log, project>>
    BY DEF Log!logVars
  <2>1. CASE UNCHANGED project
    <3>1. CASE UNCHANGED log
      BY <2>1, <3>1
    <3>2. ASSUME NEW g \in Generation, current.id < g.id, log' = Append(log, g)
          PROVE  Log!Publish
      <4> DEFINE S == Generation
      <4>1. /\ log \in Seq(S) /\ g \in S /\ PublishedInOrder
        BY DEF IInv, TypeOK
      <4>2. Log!Newest(log) = current
        BY <4>1 DEF Log!Newest, PublishedInOrder
      <4> HIDE DEF S
      <4>3. log'[Len(log')] = g
        BY <4>1, <3>2
      <4> QED
        BY <2>1, <3>2, <4>1, <4>2, <4>3 DEF Log!Publish, Log!Newest
    <3> QED
      BY <3>1, <3>2, <2>1, LogStep DEF Log!LogNext
  <2>2. CASE ~UNCHANGED project
    <3>1. PICK s \in Sessions : Attach(s) \/ AttachFails(s)
      BY <2>2 DEF Next, vars, OpenSession, AttachStep, RequestStep, BeginRequest,
         Elaborate, CommitRequest, RollbackRequest, CommandStep, FinishRequest,
         PublishBegins, PublishInstalls, PublishFails, Prepare, PrepareFails,
         CommitPublication, CommitRefused, Refresh, SelectBaseline, Select,
         ConsoleStep, Highlight, Complete
    <3>2. /\ project' = [project EXCEPT ![s] = pending[s]]
          /\ log' = log
          /\ pc[s] \in {"opening", "attaching"}
      BY <3>1 DEF Attach, AttachFails
    <3>3. PICK i \in DOMAIN log : log[i] = pending[s]
      BY <3>2 DEF IInv, AttachedWasPublished
    <3> QED
      BY <3>2, <3>3 DEF Log!LogNext, Log!Adopt
  <2> QED
    BY <2>1, <2>2
<1> QED
  BY <1>1, <1>2, Invariance, PTL DEF Spec, LogRefinement, Log!LogSpec

(***************************************************************************)
(* What is published was settled.  A language state is on its way to the    *)
(* log in a prepared or pending generation, in the context of a session     *)
(* outside a request, or in the copy a request rolls back to: each of them  *)
(* holds a settled state.                                                   *)
(***************************************************************************)
SettledAt(s) ==
    /\ prepared[s] # NoGeneration => prepared[s].content \in settled
    /\ pending[s] # NoGeneration => pending[s].content \in settled
    /\ pc[s] \notin {"running", "elaborated"} => content[s] \in settled
    /\ pc[s] \in {"running", "elaborated"} => snapshot[s] \in settled

Settlement ==
    /\ BaseContent \in settled
    /\ current.content \in settled
    /\ \A s \in Sessions : SettledAt(s)

(* A palette built in a session generation that is still the session's one  *)
(* shows the context of the idle session, which a request that rolls back   *)
(* brings back; from its commit on, a request is another generation.        *)
PaletteAt(s) ==
    /\ sessionId[s] < nextId
    /\ palette[s] # NoPalette => palette[s].session < nextId
    /\ palette[s] # NoPalette /\ palette[s].session = sessionId[s] =>
         /\ pc[s] = "idle" => palette[s].content = content[s]
         /\ pc[s] \in {"running", "elaborated"} => palette[s].content = snapshot[s]
         /\ pc[s] \notin {"commands", "publishing"}

PaletteInv == \A s \in Sessions : PaletteAt(s)

(* Every step keeps what is on its way to the log settled. *)
LEMMA SettlementStep ==
  ASSUME TypeOK, Settlement, [Next]_vars
  PROVE  Settlement'
<1>0. TypeOK /\ Settlement /\ PublicationAssumption /\ NoneAssumption
  BY PublicationAssumption, NoneAssumption DEF PublicationAssumption, NoneAssumption
<1>1. ASSUME NEW s \in Sessions, OpenSession(s) PROVE Settlement'
  BY <1>0, <1>1 DEF TypeOK, Generation, Settlement, SettledAt, OpenSession
<1>2. ASSUME NEW s \in Sessions, Attach(s) PROVE Settlement'
  BY <1>0, <1>2 DEF TypeOK, Generation, Settlement, SettledAt, Attach
<1>3. ASSUME NEW s \in Sessions, AttachFails(s) PROVE Settlement'
  BY <1>0, <1>3 DEF TypeOK, Generation, Settlement, SettledAt, AttachFails
<1>4. ASSUME NEW s \in Sessions, NEW i \in BOOLEAN, BeginRequest(s, i) PROVE Settlement'
  BY <1>0, <1>4 DEF TypeOK, Generation, Settlement, SettledAt, BeginRequest
<1>5. ASSUME NEW s \in Sessions, NEW c \in Contents, NEW q \in Scripts, Elaborate(s, c, q) PROVE Settlement'
  BY <1>0, <1>5 DEF TypeOK, Generation, Settlement, SettledAt, Elaborate
<1>6. ASSUME NEW s \in Sessions, CommitRequest(s) PROVE Settlement'
  BY <1>0, <1>6 DEF TypeOK, Generation, Settlement, SettledAt, CommitRequest, CommittedSessionId
<1>7. ASSUME NEW s \in Sessions, RollbackRequest(s) PROVE Settlement'
  BY <1>0, <1>7 DEF TypeOK, Generation, Settlement, SettledAt, RollbackRequest, Restored
<1>8. ASSUME NEW s \in Sessions, FinishRequest(s) PROVE Settlement'
  BY <1>0, <1>8 DEF TypeOK, Generation, Settlement, SettledAt, FinishRequest
<1>9. ASSUME NEW s \in Sessions, PublishBegins(s) PROVE Settlement'
  BY <1>0, <1>9 DEF TypeOK, Generation, Settlement, SettledAt, PublishBegins, NextCommand, Snapshot
<1>10. ASSUME NEW s \in Sessions, PublishInstalls(s) PROVE Settlement'
  BY <1>0, <1>10 DEF TypeOK, Generation, Settlement, SettledAt, PublishInstalls
<1>11. ASSUME NEW s \in Sessions, PublishFails(s) PROVE Settlement'
  BY <1>0, <1>11 DEF TypeOK, Generation, Settlement, SettledAt, PublishFails
<1>12. ASSUME NEW s \in Sessions, Prepare(s) PROVE Settlement'
  BY <1>0, <1>12 DEF TypeOK, Generation, Settlement, SettledAt, Prepare, NextCommand, Snapshot
<1>13. ASSUME NEW s \in Sessions, PrepareFails(s) PROVE Settlement'
  BY <1>0, <1>13 DEF TypeOK, Generation, Settlement, SettledAt, PrepareFails, NextCommand
<1>14. ASSUME NEW s \in Sessions, CommitPublication(s) PROVE Settlement'
  BY <1>0, <1>14 DEF TypeOK, Generation, Settlement, SettledAt, CommitPublication, NextCommand
<1>15. ASSUME NEW s \in Sessions, CommitRefused(s) PROVE Settlement'
  BY <1>0, <1>15 DEF TypeOK, Generation, Settlement, SettledAt, CommitRefused, NextCommand
<1>16. ASSUME NEW s \in Sessions, Refresh(s) PROVE Settlement'
  BY <1>0, <1>16 DEF TypeOK, Generation, Settlement, SettledAt, Refresh, RefreshTarget, Select, NextCommand
<1>17. ASSUME NEW s \in Sessions, SelectBaseline(s) PROVE Settlement'
  BY <1>0, <1>17 DEF TypeOK, Generation, Settlement, SettledAt, SelectBaseline, Select, NextCommand, Baseline
<1>18. ASSUME NEW s \in Sessions, Highlight(s) PROVE Settlement'
  BY <1>0, <1>18 DEF TypeOK, Generation, Settlement, SettledAt, Highlight
<1>19. ASSUME NEW s \in Sessions, NEW c \in Contents, Complete(s, c) PROVE Settlement'
  BY <1>0, <1>19 DEF TypeOK, Generation, Settlement, SettledAt, Complete
<1>20. CASE UNCHANGED vars
  BY <1>0, <1>20 DEF vars, TypeOK, Generation, Settlement, SettledAt
<1> QED
  BY <1>1, <1>2, <1>3, <1>4, <1>5, <1>6, <1>7, <1>8, <1>9, <1>10, <1>11, <1>12, <1>13, <1>14, <1>15, <1>16, <1>17, <1>18, <1>19, <1>20
     DEF Next, AttachStep, RequestStep, CommandStep, ConsoleStep

(* Every step keeps the cached palettes fresh. *)
LEMMA PaletteStep ==
  ASSUME TypeOK, PaletteInv, [Next]_vars
  PROVE  PaletteInv'
<1>0. TypeOK /\ PaletteInv /\ NoneAssumption
  BY NoneAssumption DEF NoneAssumption
<1>1. ASSUME NEW s \in Sessions, OpenSession(s) PROVE PaletteInv'
  BY <1>0, <1>1 DEF TypeOK, Palette, PaletteInv, PaletteAt, OpenSession
<1>2. ASSUME NEW s \in Sessions, Attach(s) PROVE PaletteInv'
  BY <1>0, <1>2 DEF TypeOK, Palette, PaletteInv, PaletteAt, Attach
<1>3. ASSUME NEW s \in Sessions, AttachFails(s) PROVE PaletteInv'
  BY <1>0, <1>3 DEF TypeOK, Palette, PaletteInv, PaletteAt, AttachFails
<1>4. ASSUME NEW s \in Sessions, NEW i \in BOOLEAN, BeginRequest(s, i) PROVE PaletteInv'
  BY <1>0, <1>4 DEF TypeOK, Palette, PaletteInv, PaletteAt, BeginRequest
<1>5. ASSUME NEW s \in Sessions, NEW c \in Contents, NEW q \in Scripts, Elaborate(s, c, q) PROVE PaletteInv'
  BY <1>0, <1>5 DEF TypeOK, Palette, PaletteInv, PaletteAt, Elaborate
<1>6. ASSUME NEW s \in Sessions, CommitRequest(s) PROVE PaletteInv'
  BY <1>0, <1>6 DEF TypeOK, Palette, PaletteInv, PaletteAt, CommitRequest, CommittedSessionId
<1>7. ASSUME NEW s \in Sessions, RollbackRequest(s) PROVE PaletteInv'
  BY <1>0, <1>7 DEF TypeOK, Palette, PaletteInv, PaletteAt, RollbackRequest, Restored
<1>8. ASSUME NEW s \in Sessions, FinishRequest(s) PROVE PaletteInv'
  BY <1>0, <1>8 DEF TypeOK, Palette, PaletteInv, PaletteAt, FinishRequest
<1>9. ASSUME NEW s \in Sessions, PublishBegins(s) PROVE PaletteInv'
  BY <1>0, <1>9 DEF TypeOK, Palette, PaletteInv, PaletteAt, PublishBegins, NextCommand, Snapshot
<1>10. ASSUME NEW s \in Sessions, PublishInstalls(s) PROVE PaletteInv'
  BY <1>0, <1>10 DEF TypeOK, Palette, PaletteInv, PaletteAt, PublishInstalls
<1>11. ASSUME NEW s \in Sessions, PublishFails(s) PROVE PaletteInv'
  BY <1>0, <1>11 DEF TypeOK, Palette, PaletteInv, PaletteAt, PublishFails
<1>12. ASSUME NEW s \in Sessions, Prepare(s) PROVE PaletteInv'
  BY <1>0, <1>12 DEF TypeOK, Palette, PaletteInv, PaletteAt, Prepare, NextCommand, Snapshot
<1>13. ASSUME NEW s \in Sessions, PrepareFails(s) PROVE PaletteInv'
  BY <1>0, <1>13 DEF TypeOK, Palette, PaletteInv, PaletteAt, PrepareFails, NextCommand
<1>14. ASSUME NEW s \in Sessions, CommitPublication(s) PROVE PaletteInv'
  BY <1>0, <1>14 DEF TypeOK, Palette, PaletteInv, PaletteAt, CommitPublication, NextCommand
<1>15. ASSUME NEW s \in Sessions, CommitRefused(s) PROVE PaletteInv'
  BY <1>0, <1>15 DEF TypeOK, Palette, PaletteInv, PaletteAt, CommitRefused, NextCommand
<1>16. ASSUME NEW s \in Sessions, Refresh(s) PROVE PaletteInv'
  BY <1>0, <1>16 DEF TypeOK, Palette, PaletteInv, PaletteAt, Refresh, RefreshTarget, Select, NextCommand
<1>17. ASSUME NEW s \in Sessions, SelectBaseline(s) PROVE PaletteInv'
  BY <1>0, <1>17 DEF TypeOK, Palette, PaletteInv, PaletteAt, SelectBaseline, Select, NextCommand, Baseline
<1>18. ASSUME NEW s \in Sessions, Highlight(s) PROVE PaletteInv'
  BY <1>0, <1>18 DEF TypeOK, Palette, PaletteInv, PaletteAt, Highlight
<1>19. ASSUME NEW s \in Sessions, NEW c \in Contents, Complete(s, c) PROVE PaletteInv'
  BY <1>0, <1>19 DEF TypeOK, Palette, PaletteInv, PaletteAt, Complete
<1>20. CASE UNCHANGED vars
  BY <1>0, <1>20 DEF vars, TypeOK, Palette, PaletteInv, PaletteAt
<1> QED
  BY <1>1, <1>2, <1>3, <1>4, <1>5, <1>6, <1>7, <1>8, <1>9, <1>10, <1>11, <1>12, <1>13, <1>14, <1>15, <1>16, <1>17, <1>18, <1>19, <1>20
     DEF Next, AttachStep, RequestStep, CommandStep, ConsoleStep

(* The settled states stay settled. *)
LEMMA SettledGrows ==
  ASSUME [Next]_vars
  PROVE  settled \subseteq settled'
<1> USE DEF OpenSession, Attach, AttachFails, BeginRequest, Elaborate, CommitRequest,
            RollbackRequest, FinishRequest, PublishBegins, PublishInstalls, PublishFails,
            Prepare, PrepareFails, CommitPublication, CommitRefused, Refresh,
            SelectBaseline, Select, Highlight, Complete
<1>1. ASSUME NEW s \in Sessions, OpenSession(s) \/ AttachStep(s) \/ RequestStep(s)
                                   \/ ConsoleStep(s)
      PROVE  settled \subseteq settled'
  BY <1>1 DEF AttachStep, RequestStep, ConsoleStep
<1>2. ASSUME NEW s \in Sessions, CommandStep(s) PROVE settled \subseteq settled'
  BY <1>2 DEF CommandStep
<1> QED
  BY <1>1, <1>2 DEF Next, vars

(* What a step adds to the log was settled on its way there. *)
LEMMA LogSettledStep ==
  ASSUME IInv, PublishedWasSettled, Settlement, [Next]_vars
  PROVE  PublishedWasSettled'
<1>1. settled \subseteq settled' /\ current'.content \in settled'
  BY SettledGrows, SettlementStep DEF IInv, Settlement
<1>2. CASE UNCHANGED <<current, log>>
  BY <1>1, <1>2 DEF PublishedWasSettled
<1>3. ASSUME NEW g \in Generation, current' = g, log' = Append(log, g)
      PROVE  PublishedWasSettled'
  <2> DEFINE S == Generation
  <2>1. log \in Seq(S) /\ g \in S
    BY DEF IInv, TypeOK
  <2> HIDE DEF S
  <2>2. \A i \in DOMAIN log' : (i \in DOMAIN log /\ log'[i] = log[i]) \/ log'[i] = g
    BY <1>3, <2>1
  <2> QED
    BY <1>1, <1>3, <2>2 DEF PublishedWasSettled
<1> QED
  BY <1>2, <1>3, LogStep

(* No state of a request that was running or was rolled back is ever        *)
(* published: what a session publishes was made by a committed request, a   *)
(* completion provider or the generation it attached to.                    *)
THEOREM PublishedIsSettled == Spec => []PublishedWasSettled
<1>1. Init => PublishedWasSettled /\ Settlement
  <2> SUFFICES ASSUME Init PROVE PublishedWasSettled /\ Settlement
    OBVIOUS
  <2>1. /\ log = <<Baseline>> /\ settled = {BaseContent} /\ current = Baseline
        /\ Baseline.content = BaseContent
    BY DEF Init, Baseline
  <2>2. PublishedWasSettled
    BY <2>1 DEF PublishedWasSettled
  <2>3. Settlement
    BY <2>1, PublicationAssumption DEF Init, Settlement, SettledAt, Baseline
  <2> QED
    BY <2>2, <2>3
<1>2. IInv /\ PublishedWasSettled /\ Settlement /\ [Next]_vars
        => (PublishedWasSettled /\ Settlement)'
  BY LogSettledStep, SettlementStep DEF IInv
<1> QED
  BY <1>1, <1>2, Invariance, PTL DEF Spec

(* The console's cached palette is reused only for the language state it    *)
(* was built from.                                                          *)
THEOREM PaletteIsSound == Spec => []PaletteIsFresh
<1>1. Init => PaletteInv
  <2> SUFFICES ASSUME Init, NEW s \in Sessions PROVE PaletteAt(s)
    BY DEF PaletteInv
  <2>1. nextId = 3 /\ sessionId[s] = 0 /\ palette[s] = NoPalette
    BY DEF Init
  <2> QED
    BY <2>1 DEF PaletteAt
<1>2. IInv /\ PaletteInv /\ [Next]_vars => PaletteInv'
  BY PaletteStep DEF IInv
<1>3. PaletteInv => PaletteIsFresh
  BY DEF PaletteInv, PaletteAt, PaletteIsFresh
<1> QED
  BY <1>1, <1>2, <1>3, Invariance, PTL DEF Spec
=============================================================================
