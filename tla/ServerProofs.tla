---------------------------- MODULE ServerProofs ----------------------------
(***************************************************************************)
(* Proofs about Server, for any number of connections and descriptors.     *)
(***************************************************************************)
EXTENDS Server, FiniteSetTheorems, TLAPS

MainStates == {"start", "bound", "identified", "console", "joinAcceptor",
               "joinClients", "destroy", "lstat", "unlink", "gone"}
AcceptorStates == {"unborn", "check", "accept", "accepted", "reap", "register", "exited"}

TypeOK ==
  /\ stdio \in BOOLEAN
  /\ path \in {"none", "ours", "foreign"}
  /\ inode \in {"none", "ours", "foreign"}
  /\ main \in MainStates
  /\ acceptor \in AcceptorStates
  /\ stopper \in {"idle", "flagged", "sweeping", "stopped"}
  /\ stopping \in BOOLEAN
  /\ listener \in {Free, Listener}
  /\ shut \subseteq Clients \cup {Listener}
  /\ fd \in [Fds -> Owners]
  /\ clientFds \subseteq Fds
  /\ threads \subseteq Clients
  /\ reaping \subseteq Clients
  /\ client \in [Clients -> ClientStates]
  /\ hungUp \subseteq Clients

(* The descriptor table: an open connection has one number, and no other    *)
(* connection has any.                                                      *)
Open == {"accepted", "serving", "erased"}
OwnNumber ==
  /\ \A m, n \in Fds : fd[m] \in Clients /\ fd[m] = fd[n] => m = n
  /\ \A n \in Fds : fd[n] \in Clients => client[fd[n]] \in Open
  /\ \A c \in Clients : client[c] \in Open => \E n \in Fds : fd[n] = c

(* clientFds_ holds the numbers of the connections that are served, for a   *)
(* number is erased before it is closed and registered before it is used.   *)
RegistryIsServing ==
  \A n \in Fds : n \in clientFds <=> fd[n] \in Clients /\ client[fd[n]] = "serving"

(* The acceptor has one connection in its hands at most. *)
OneAccepted ==
  /\ \A c \in Clients : client[c] = "accepted" => acceptor \in {"accepted", "reap", "register"}
  /\ \A c, d \in Clients : client[c] = "accepted" /\ client[d] = "accepted" => c = d

(* Every thread that was started and not joined is in one of the two lists. *)
Running == {"serving", "erased", "closed", "finished"}
Late == {"joinClients", "destroy", "lstat", "unlink", "gone"}
ThreadsAreListed ==
  /\ threads \cap reaping = {}
  /\ \A c \in Clients : c \in threads \cup reaping <=> client[c] \in Running
  /\ reaping # {} => main = "joinClients"
  /\ main \in Late => threads = {} /\ acceptor \in {"unborn", "exited"}

(* Nothing connects before the acceptor runs. *)
Unborn ==
  /\ main \in {"start", "bound", "identified"} => acceptor = "unborn"
  /\ acceptor = "unborn" => listener = Free /\ \A c \in Clients : client[c] = "absent"

(* What the sweep of stop() missed was registered by the acceptor's last    *)
(* round, which ends at the flag.                                           *)
Missed(c) == client[c] = "serving" /\ c \notin shut
SweepMissesOne ==
  /\ stopper # "idle" => stopping
  /\ stopper = "stopped" =>
       /\ acceptor \in {"accept", "accepted", "reap", "register"} => \A c \in Clients : ~Missed(c)
       /\ \A c, d \in Clients : Missed(c) /\ Missed(d) => c = d

IInv ==
  /\ TypeOK
  /\ OwnNumber
  /\ RegistryIsServing
  /\ OneAccepted
  /\ ThreadsAreListed
  /\ Unborn
  /\ SweepMissesOne

-----------------------------------------------------------------------------
(* The absent owner, the listener and the rest of the process differ. *)
LEMMA OwnersDiffer == Free # Listener /\ Free # OtherFile /\ Listener # OtherFile
<1>1. ASSUME NEW a, NEW b PROVE {Free, Listener, OtherFile} # {a, b}
  <2>1. IsFiniteSet({b}) /\ Cardinality({b}) = 1
    BY FS_Singleton
  <2>2. /\ Cardinality({b} \cup {a}) = IF a \in {b} THEN Cardinality({b}) ELSE Cardinality({b}) + 1
    BY <2>1, FS_AddElement
  <2>3. Cardinality({b} \cup {a}) # 3
    BY <2>1, <2>2
  <2>4. {b} \cup {a} = {a, b}
    OBVIOUS
  <2> QED
    BY <2>3, <2>4, OwnersAssumption
<1>2. ASSUME Free = Listener PROVE {Free, Listener, OtherFile} = {Free, OtherFile}
  BY <1>2
<1>3. ASSUME Free = OtherFile PROVE {Free, Listener, OtherFile} = {Free, Listener}
  BY <1>3
<1>4. ASSUME Listener = OtherFile PROVE {Free, Listener, OtherFile} = {Free, Listener}
  BY <1>4
<1> QED
  BY <1>1, <1>2, <1>3, <1>4

LEMMA OwnersApart ==
  /\ Free \notin Clients /\ Listener \notin Clients /\ OtherFile \notin Clients
  /\ Free # Listener /\ Free # OtherFile /\ Listener # OtherFile
BY OwnersDiffer, OwnersAssumption

(* A connection's number is the one the table gives it. *)
LEMMA NumberOf ==
  ASSUME TypeOK, OwnNumber, NEW c \in Clients, client[c] \in Open
  PROVE  /\ FdOf(c) \in Fds /\ fd[FdOf(c)] = c
         /\ \A n \in Fds : fd[n] = c => n = FdOf(c)
BY DEF OwnNumber, FdOf

LEMMA InitIInv == Init => IInv
BY OwnersApart DEF Init, IInv, TypeOK, OwnNumber, RegistryIsServing, OneAccepted, ThreadsAreListed, Unborn,
   SweepMissesOne, Missed, Open, Running, Late, MainStates, AcceptorStates, ClientStates, Owners

LEMMA TypeStep == IInv /\ [Next]_vars => TypeOK'
<1> USE OwnersApart DEF TypeOK, envVars, pathVars, threadVars, MainStates, AcceptorStates, ClientStates, Owners
<1> SUFFICES ASSUME IInv, [Next]_vars PROVE TypeOK'
  OBVIOUS
<1>0. TypeOK /\ OwnNumber /\ RegistryIsServing
  BY DEF IInv
<1>1. CASE RunThread
  <2>1. ASSUME NEW c \in Clients, JoinClient(c) PROVE TypeOK'
    BY <1>0, <2>1 DEF JoinClient
  <2>2. CASE Bind
    BY <1>0, <2>2 DEF Bind
  <2>3. CASE Identify \/ ListenFails
    BY <1>0, <2>3 DEF Identify, Identified, ListenFails
  <2>4. CASE BindFails \/ Listen \/ ConsoleEnds \/ TakeThreads \/ Return
    BY <1>0, <2>4 DEF BindFails, Listen, ConsoleEnds, TakeThreads, JoinAcceptor, Return
  <2>5. CASE Destroy
    BY <1>0, <2>5 DEF Destroy
  <2>6. CASE CheckSocket \/ Unlink
    BY <1>0, <2>6 DEF CheckSocket, Unlink
  <2> QED
    BY <1>1, <2>1, <2>2, <2>3, <2>4, <2>5, <2>6 DEF RunThread
<1>2. CASE StopThread
  <2>1. CASE StopListener
    BY <1>0, <2>1 DEF StopListener, ShutListener
  <2>2. CASE StopClients
    <3>1. {fd[n] : n \in clientFds} \subseteq Clients
      BY <1>0 DEF RegistryIsServing
    <3> QED
      BY <1>0, <2>2, <3>1 DEF StopClients
  <2> QED
    BY <1>2, <2>1, <2>2 DEF StopThread
<1>3. CASE AcceptorThread
  <2>1. CASE CheckStopping \/ AcceptFails
    BY <1>0, <2>1 DEF CheckStopping, AcceptFails
  <2>2. CASE Accept
    BY <1>0, <2>2 DEF Accept
  <2>3. CASE Dismiss
    BY <1>0, <2>3 DEF Dismiss
  <2>4. CASE Reap
    BY <1>0, <2>4 DEF Reap
  <2>5. CASE Register
    <3> PICK c \in Clients : /\ client[c] = "accepted"
                             /\ clientFds' = RegisteredFds(c)
                             /\ threads' = threads \cup {c}
                             /\ client' = [client EXCEPT ![c] = "serving"]
      BY <2>5 DEF Register
    <3>1. FdOf(c) \in Fds
      BY <1>0, NumberOf DEF Open
    <3> QED
      BY <1>0, <2>5, <3>1 DEF Register, RegisteredFds
  <2> QED
    BY <1>3, <2>1, <2>2, <2>3, <2>4, <2>5 DEF AcceptorThread
<1>4. CASE Environment
  <2>1. ASSUME NEW c \in Clients, Connect(c) \/ HangUp(c) PROVE TypeOK'
    BY <1>0, <2>1 DEF Connect, HangUp
  <2>2. CASE OpenOther \/ CloseOther
    BY <1>0, <2>2 DEF OpenOther, CloseOther
  <2>3. CASE StopFlag
    BY <1>0, <2>3 DEF StopFlag, Stopping
  <2>4. CASE ReplacePath \/ RemovePath
    BY <1>0, <2>4 DEF ReplacePath, RemovePath
  <2> QED
    BY <1>4, <2>1, <2>2, <2>3, <2>4 DEF Environment
<1>5. ASSUME NEW c \in Clients, ClientThread(c) PROVE TypeOK'
  BY <1>0, <1>5 DEF ClientThread, ServeEnds, Leave, CloseClient, Finish
<1>6. CASE UNCHANGED vars
  BY <1>0, <1>6 DEF vars
<1> QED
  BY <1>1, <1>2, <1>3, <1>4, <1>5, <1>6 DEF Next

-----------------------------------------------------------------------------
(***************************************************************************)
(* The conjuncts of the inductive invariant, one step lemma each.           *)
(***************************************************************************)
(* A descriptor changes hands only with its connection. *)
LEMMA OwnNumberStep == IInv /\ [Next]_vars => OwnNumber'
<1> USE OwnersApart DEF OwnNumber, TypeOK, Open, Owners, envVars, pathVars, threadVars
<1> SUFFICES ASSUME IInv, [Next]_vars PROVE OwnNumber'
  OBVIOUS
<1>0. TypeOK /\ OwnNumber
  BY DEF IInv
<1>1. CASE Bind
  BY <1>0, <1>1 DEF Bind
<1>2. CASE Identify \/ ListenFails
  BY <1>0, <1>2 DEF Identify, Identified, ListenFails
<1>3. CASE Accept
  BY <1>0, <1>3 DEF Accept
<1>4. CASE Dismiss
  BY <1>0, <1>4, NumberOf DEF Dismiss
<1>5. CASE Reap
  BY <1>0, <1>5 DEF Reap
<1>6. CASE Register
  BY <1>0, <1>6 DEF Register, RegisteredFds
<1>7. ASSUME NEW c \in Clients, ServeEnds(c) PROVE OwnNumber'
  BY <1>0, <1>7 DEF ServeEnds, Leave
<1>8. ASSUME NEW c \in Clients, CloseClient(c) PROVE OwnNumber'
  BY <1>0, <1>8 DEF CloseClient
<1>9. ASSUME NEW c \in Clients, Finish(c) PROVE OwnNumber'
  BY <1>0, <1>9 DEF Finish
<1>10. ASSUME NEW c \in Clients, JoinClient(c) PROVE OwnNumber'
  BY <1>0, <1>10 DEF JoinClient
<1>11. CASE Destroy
  BY <1>0, <1>11 DEF Destroy
<1>12. ASSUME NEW c \in Clients, Connect(c) PROVE OwnNumber'
  BY <1>0, <1>12 DEF Connect
<1>13. CASE OpenOther
  BY <1>0, <1>13 DEF OpenOther
<1>14. CASE CloseOther
  BY <1>0, <1>14 DEF CloseOther
<1>15. CASE BindFails \/ Listen \/ ConsoleEnds \/ TakeThreads \/ Return
          \/ CheckSocket \/ Unlink \/ StopListener \/ StopClients \/ CheckStopping
          \/ AcceptFails \/ StopFlag \/ ReplacePath \/ RemovePath
  BY <1>0, <1>15 DEF BindFails, Listen, ConsoleEnds, TakeThreads, JoinAcceptor
         , Return, CheckSocket, Unlink, StopListener, ShutListener, StopClients
         , CheckStopping, AcceptFails, StopFlag, Stopping, ReplacePath, RemovePath
<1>16. ASSUME NEW c \in Clients, HangUp(c) PROVE OwnNumber'
  BY <1>0, <1>16 DEF HangUp
<1>17. CASE UNCHANGED vars
  BY <1>0, <1>17 DEF vars
<1> QED
  BY <1>1, <1>2, <1>3, <1>4, <1>5, <1>6, <1>7, <1>8, <1>9, <1>10, <1>11
         , <1>12, <1>13, <1>14, <1>15, <1>16, <1>17
     DEF Next, RunThread, StopThread, AcceptorThread, ClientThread, Environment

(* The registry follows the connections that are served. *)
LEMMA RegistryStep == IInv /\ [Next]_vars => RegistryIsServing'
<1> USE OwnersApart DEF OwnNumber, RegistryIsServing, TypeOK, Open, Owners, envVars, pathVars, threadVars
<1> SUFFICES ASSUME IInv, [Next]_vars PROVE RegistryIsServing'
  OBVIOUS
<1>0. TypeOK /\ OwnNumber /\ RegistryIsServing
  BY DEF IInv
<1>1. CASE Bind
  BY <1>0, <1>1 DEF Bind
<1>2. CASE Identify \/ ListenFails
  BY <1>0, <1>2 DEF Identify, Identified, ListenFails
<1>3. CASE Accept
  BY <1>0, <1>3 DEF Accept
<1>4. CASE Dismiss
  BY <1>0, <1>4, NumberOf DEF Dismiss
<1>5. CASE Reap
  BY <1>0, <1>5 DEF Reap
<1>6. CASE Register
  BY <1>0, <1>6, NumberOf DEF Register, RegisteredFds
<1>7. ASSUME NEW c \in Clients, ServeEnds(c) PROVE RegistryIsServing'
  BY <1>0, <1>7, NumberOf DEF ServeEnds, Leave
<1>8. ASSUME NEW c \in Clients, CloseClient(c) PROVE RegistryIsServing'
  BY <1>0, <1>8 DEF CloseClient
<1>9. ASSUME NEW c \in Clients, Finish(c) PROVE RegistryIsServing'
  BY <1>0, <1>9 DEF Finish
<1>10. ASSUME NEW c \in Clients, JoinClient(c) PROVE RegistryIsServing'
  BY <1>0, <1>10 DEF JoinClient
<1>11. CASE Destroy
  BY <1>0, <1>11 DEF Destroy
<1>12. ASSUME NEW c \in Clients, Connect(c) PROVE RegistryIsServing'
  BY <1>0, <1>12 DEF Connect
<1>13. CASE OpenOther
  BY <1>0, <1>13 DEF OpenOther
<1>14. CASE CloseOther
  BY <1>0, <1>14 DEF CloseOther
<1>15. CASE BindFails \/ Listen \/ ConsoleEnds \/ TakeThreads \/ Return
          \/ CheckSocket \/ Unlink \/ StopListener \/ StopClients \/ CheckStopping
          \/ AcceptFails \/ StopFlag \/ ReplacePath \/ RemovePath
  BY <1>0, <1>15 DEF BindFails, Listen, ConsoleEnds, TakeThreads, JoinAcceptor
         , Return, CheckSocket, Unlink, StopListener, ShutListener, StopClients
         , CheckStopping, AcceptFails, StopFlag, Stopping, ReplacePath, RemovePath
<1>16. ASSUME NEW c \in Clients, HangUp(c) PROVE RegistryIsServing'
  BY <1>0, <1>16 DEF HangUp
<1>17. CASE UNCHANGED vars
  BY <1>0, <1>17 DEF vars
<1> QED
  BY <1>1, <1>2, <1>3, <1>4, <1>5, <1>6, <1>7, <1>8, <1>9, <1>10, <1>11
         , <1>12, <1>13, <1>14, <1>15, <1>16, <1>17
     DEF Next, RunThread, StopThread, AcceptorThread, ClientThread, Environment

(* Only the acceptor takes a connection, and it hands on the last one first. *)
LEMMA AcceptedStep == IInv /\ [Next]_vars => OneAccepted'
<1> USE OwnersApart DEF OneAccepted, TypeOK, Unborn, envVars, pathVars, threadVars
<1> SUFFICES ASSUME IInv, [Next]_vars PROVE OneAccepted'
  OBVIOUS
<1>0. TypeOK /\ OneAccepted /\ ThreadsAreListed /\ Unborn
  BY DEF IInv
<1>1. CASE Accept
  BY <1>0, <1>1 DEF Accept
<1>2. CASE Dismiss
  BY <1>0, <1>2 DEF Dismiss
<1>3. CASE Reap
  BY <1>0, <1>3 DEF Reap
<1>4. CASE Register
  BY <1>0, <1>4 DEF Register, RegisteredFds
<1>5. ASSUME NEW c \in Clients, Connect(c) PROVE OneAccepted'
  BY <1>0, <1>5 DEF Connect
<1>6. ASSUME NEW c \in Clients, ServeEnds(c) PROVE OneAccepted'
  BY <1>0, <1>6 DEF ServeEnds, Leave
<1>7. ASSUME NEW c \in Clients, CloseClient(c) PROVE OneAccepted'
  BY <1>0, <1>7 DEF CloseClient
<1>8. ASSUME NEW c \in Clients, Finish(c) PROVE OneAccepted'
  BY <1>0, <1>8 DEF Finish
<1>9. ASSUME NEW c \in Clients, JoinClient(c) PROVE OneAccepted'
  BY <1>0, <1>9 DEF JoinClient
<1>10. CASE Bind \/ BindFails \/ Identify \/ Listen \/ ListenFails \/ ConsoleEnds \/ TakeThreads
          \/ Return \/ Destroy \/ CheckSocket \/ Unlink \/ StopListener
          \/ StopClients \/ CheckStopping \/ AcceptFails \/ StopFlag \/ OpenOther
          \/ CloseOther \/ ReplacePath \/ RemovePath
  BY <1>0, <1>10 DEF Bind, BindFails, Identify, Identified, Listen, ListenFails, ConsoleEnds
         , TakeThreads, JoinAcceptor, Return, Destroy, CheckSocket, Unlink
         , StopListener, ShutListener, StopClients, CheckStopping, AcceptFails
         , StopFlag, Stopping, OpenOther, CloseOther, ReplacePath, RemovePath
<1>11. ASSUME NEW c \in Clients, HangUp(c) PROVE OneAccepted'
  BY <1>0, <1>11 DEF HangUp
<1>12. CASE UNCHANGED vars
  BY <1>0, <1>12 DEF vars
<1> QED
  BY <1>1, <1>2, <1>3, <1>4, <1>5, <1>6, <1>7, <1>8, <1>9, <1>10, <1>11
         , <1>12
     DEF Next, RunThread, StopThread, AcceptorThread, ClientThread, Environment

(* Threads stay in one of the lists until they are joined. *)
LEMMA ThreadsStep == IInv /\ [Next]_vars => ThreadsAreListed'
<1> USE OwnersApart DEF ThreadsAreListed, TypeOK, Running, Late, OneAccepted, Unborn, envVars, pathVars, threadVars
<1> SUFFICES ASSUME IInv, [Next]_vars PROVE ThreadsAreListed'
  OBVIOUS
<1>0. TypeOK /\ ThreadsAreListed /\ Unborn /\ OneAccepted
  BY DEF IInv
<1>1. CASE Accept
  BY <1>0, <1>1 DEF Accept
<1>2. CASE Dismiss
  BY <1>0, <1>2 DEF Dismiss
<1>3. CASE Reap
  BY <1>0, <1>3 DEF Reap
<1>4. CASE Register
  BY <1>0, <1>4 DEF Register, RegisteredFds
<1>5. ASSUME NEW c \in Clients, Connect(c) PROVE ThreadsAreListed'
  BY <1>0, <1>5 DEF Connect
<1>6. ASSUME NEW c \in Clients, ServeEnds(c) PROVE ThreadsAreListed'
  BY <1>0, <1>6 DEF ServeEnds, Leave
<1>7. ASSUME NEW c \in Clients, CloseClient(c) PROVE ThreadsAreListed'
  BY <1>0, <1>7 DEF CloseClient
<1>8. ASSUME NEW c \in Clients, Finish(c) PROVE ThreadsAreListed'
  BY <1>0, <1>8 DEF Finish
<1>9. ASSUME NEW c \in Clients, JoinClient(c) PROVE ThreadsAreListed'
  BY <1>0, <1>9 DEF JoinClient
<1>10. CASE TakeThreads
  BY <1>0, <1>10 DEF TakeThreads, JoinAcceptor
<1>11. CASE Return
  BY <1>0, <1>11 DEF Return
<1>12. CASE Destroy
  BY <1>0, <1>12 DEF Destroy
<1>13. CASE BindFails
  BY <1>0, <1>13 DEF BindFails
<1>14. CASE Identify \/ ListenFails
  BY <1>0, <1>14 DEF Identify, Identified, ListenFails
<1>15. CASE Bind \/ Listen \/ ConsoleEnds \/ CheckSocket \/ Unlink \/ StopListener
          \/ StopClients \/ CheckStopping \/ AcceptFails \/ StopFlag \/ OpenOther
          \/ CloseOther \/ ReplacePath \/ RemovePath
  BY <1>0, <1>15 DEF Bind, Listen, ConsoleEnds, CheckSocket, Unlink, StopListener
         , ShutListener, StopClients, CheckStopping, AcceptFails, StopFlag, Stopping
         , OpenOther, CloseOther, ReplacePath, RemovePath
<1>16. ASSUME NEW c \in Clients, HangUp(c) PROVE ThreadsAreListed'
  BY <1>0, <1>16 DEF HangUp
<1>17. CASE UNCHANGED vars
  BY <1>0, <1>17 DEF vars
<1> QED
  BY <1>1, <1>2, <1>3, <1>4, <1>5, <1>6, <1>7, <1>8, <1>9, <1>10, <1>11
         , <1>12, <1>13, <1>14, <1>15, <1>16, <1>17
     DEF Next, RunThread, StopThread, AcceptorThread, ClientThread, Environment

(* The listener exists for others once the acceptor runs. *)
LEMMA UnbornStep == IInv /\ [Next]_vars => Unborn'
<1> USE OwnersApart DEF Unborn, TypeOK, Running, ThreadsAreListed, OneAccepted, envVars, pathVars, threadVars
<1> SUFFICES ASSUME IInv, [Next]_vars PROVE Unborn'
  OBVIOUS
<1>0. TypeOK /\ Unborn /\ OneAccepted /\ ThreadsAreListed
  BY DEF IInv
<1>1. CASE Accept
  BY <1>0, <1>1 DEF Accept
<1>2. CASE Dismiss
  BY <1>0, <1>2 DEF Dismiss
<1>3. CASE Reap
  BY <1>0, <1>3 DEF Reap
<1>4. CASE Register
  BY <1>0, <1>4 DEF Register, RegisteredFds
<1>5. ASSUME NEW c \in Clients, Connect(c) PROVE Unborn'
  BY <1>0, <1>5 DEF Connect
<1>6. ASSUME NEW c \in Clients, ServeEnds(c) PROVE Unborn'
  BY <1>0, <1>6 DEF ServeEnds, Leave
<1>7. ASSUME NEW c \in Clients, CloseClient(c) PROVE Unborn'
  BY <1>0, <1>7 DEF CloseClient
<1>8. ASSUME NEW c \in Clients, Finish(c) PROVE Unborn'
  BY <1>0, <1>8 DEF Finish
<1>9. ASSUME NEW c \in Clients, JoinClient(c) PROVE Unborn'
  BY <1>0, <1>9 DEF JoinClient
<1>10. CASE Listen
  BY <1>0, <1>10 DEF Listen
<1>11. CASE Destroy
  BY <1>0, <1>11 DEF Destroy
<1>12. CASE Bind \/ BindFails \/ Identify \/ ListenFails \/ ConsoleEnds \/ TakeThreads \/ Return
          \/ CheckSocket \/ Unlink \/ StopListener \/ StopClients \/ CheckStopping
          \/ AcceptFails \/ StopFlag \/ OpenOther \/ CloseOther \/ ReplacePath
          \/ RemovePath
  BY <1>0, <1>12 DEF Bind, BindFails, Identify, Identified, ListenFails, ConsoleEnds, TakeThreads
         , JoinAcceptor, Return, CheckSocket, Unlink, StopListener, ShutListener
         , StopClients, CheckStopping, AcceptFails, StopFlag, Stopping, OpenOther
         , CloseOther, ReplacePath, RemovePath
<1>13. ASSUME NEW c \in Clients, HangUp(c) PROVE Unborn'
  BY <1>0, <1>13 DEF HangUp
<1>14. CASE UNCHANGED vars
  BY <1>0, <1>14 DEF vars
<1> QED
  BY <1>1, <1>2, <1>3, <1>4, <1>5, <1>6, <1>7, <1>8, <1>9, <1>10, <1>11
         , <1>12, <1>13, <1>14
     DEF Next, RunThread, StopThread, AcceptorThread, ClientThread, Environment

(* After the flag the acceptor ends its round; a second one is not begun. *)
LEMMA SweepStep == IInv /\ [Next]_vars => SweepMissesOne'
<1> USE OwnersApart DEF SweepMissesOne, TypeOK, Missed, OneAccepted, Open, envVars, pathVars, threadVars
<1> SUFFICES ASSUME IInv, [Next]_vars PROVE SweepMissesOne'
  OBVIOUS
<1>0. TypeOK /\ OwnNumber /\ RegistryIsServing /\ OneAccepted /\ SweepMissesOne /\ Unborn
  BY DEF IInv
<1>1. CASE StopFlag
  BY <1>0, <1>1 DEF StopFlag, Stopping
<1>2. CASE StopListener
  BY <1>0, <1>2 DEF StopListener, ShutListener
<1>3. CASE StopClients
  <2>1. ASSUME NEW d \in Clients, client[d] = "serving" PROVE d \in shut'
    <3>1. FdOf(d) \in clientFds /\ fd[FdOf(d)] = d
      BY <1>0, <2>1, NumberOf DEF RegistryIsServing
    <3> QED
      BY <3>1, <1>3 DEF StopClients
  <2> QED
    BY <1>0, <2>1, <1>3 DEF StopClients
<1>4. CASE CheckStopping
  BY <1>0, <1>4 DEF CheckStopping
<1>5. CASE Accept
  BY <1>0, <1>5 DEF Accept
<1>6. CASE AcceptFails
  BY <1>0, <1>6 DEF AcceptFails
<1>7. CASE Dismiss
  BY <1>0, <1>7 DEF Dismiss
<1>8. CASE Reap
  BY <1>0, <1>8 DEF Reap
<1>9. CASE Register
  BY <1>0, <1>9 DEF Register, RegisteredFds
<1>10. ASSUME NEW c \in Clients, Connect(c) PROVE SweepMissesOne'
  BY <1>0, <1>10 DEF Connect
<1>11. ASSUME NEW c \in Clients, ServeEnds(c) PROVE SweepMissesOne'
  BY <1>0, <1>11 DEF ServeEnds, Leave
<1>12. ASSUME NEW c \in Clients, CloseClient(c) PROVE SweepMissesOne'
  BY <1>0, <1>12 DEF CloseClient
<1>13. ASSUME NEW c \in Clients, Finish(c) PROVE SweepMissesOne'
  BY <1>0, <1>13 DEF Finish
<1>14. ASSUME NEW c \in Clients, JoinClient(c) PROVE SweepMissesOne'
  BY <1>0, <1>14 DEF JoinClient
<1>15. CASE Listen
  BY <1>0, <1>15 DEF Listen
<1>16. CASE Destroy
  BY <1>0, <1>16 DEF Destroy
<1>17. CASE Bind \/ BindFails \/ Identify \/ ListenFails \/ ConsoleEnds \/ TakeThreads \/ Return
          \/ CheckSocket \/ Unlink \/ OpenOther \/ CloseOther \/ ReplacePath
          \/ RemovePath
  BY <1>0, <1>17 DEF Bind, BindFails, Identify, Identified, ListenFails, ConsoleEnds, TakeThreads
         , JoinAcceptor, Return, CheckSocket, Unlink, OpenOther, CloseOther
         , ReplacePath, RemovePath
<1>18. ASSUME NEW c \in Clients, HangUp(c) PROVE SweepMissesOne'
  BY <1>0, <1>18 DEF HangUp
<1>19. CASE UNCHANGED vars
  BY <1>0, <1>19 DEF vars
<1> QED
  BY <1>1, <1>2, <1>3, <1>4, <1>5, <1>6, <1>7, <1>8, <1>9, <1>10, <1>11
         , <1>12, <1>13, <1>14, <1>15, <1>16, <1>17, <1>18, <1>19
     DEF Next, RunThread, StopThread, AcceptorThread, ClientThread, Environment

-----------------------------------------------------------------------------
(***************************************************************************)
(* The inductive invariant holds in every run of the server.                *)
(***************************************************************************)
THEOREM Invariance == Spec => []IInv
<1>1. IInv /\ [Next]_vars => IInv'
  BY TypeStep, OwnNumberStep, RegistryStep, AcceptedStep, ThreadsStep, UnbornStep, SweepStep DEF IInv
<1> QED
  BY InitIInv, <1>1, PTL DEF Spec

(***************************************************************************)
(* Every variable keeps its type; in particular what the server has shut    *)
(* down is the listener or a client's connection, never another descriptor  *)
(* of the process that was given the number of a closed one.                *)
(***************************************************************************)
THEOREM TypeCorrect == Spec => []TypeOK
<1>1. IInv => TypeOK
  BY DEF IInv
<1> QED
  BY Invariance, <1>1, PTL

(***************************************************************************)
(* stop() shuts down its own connections only and misses one at most, for   *)
(* any number of connections (Server.cpp:334, 675-679).                     *)
(***************************************************************************)
THEOREM StopIsSound == Spec => []StopReachesItsOwn
<1>1. IInv => StopReachesItsOwn
  <2> SUFFICES ASSUME IInv, stopper = "stopped"
               PROVE  Cardinality({c \in Clients : client[c] \in {"accepted", "serving"} /\ c \notin shut}) <= 1
    BY DEF IInv, TypeOK, StopReachesItsOwn
  <2> DEFINE left == {c \in Clients : client[c] \in {"accepted", "serving"} /\ c \notin shut}
  <2>1. ASSUME NEW c \in left, NEW d \in left PROVE c = d
    BY DEF IInv, OneAccepted, SweepMissesOne, Missed
  <2>2. left = {} \/ \E c \in left : left = {c}
    BY <2>1
  <2> HIDE DEF left
  <2>3. Cardinality(left) \in {0, 1}
    BY <2>2, FS_EmptySet, FS_Singleton
  <2> QED
    BY <2>3 DEF left
<1> QED
  BY Invariance, <1>1, PTL

(***************************************************************************)
(* When run() has returned no thread, registered number or open connection  *)
(* is left for the destructor to race with (Server.cpp:778).                *)
(***************************************************************************)
THEOREM ReturnIsClean == Spec => []ReturnLeavesNothing
<1>1. IInv => ReturnLeavesNothing
  <2> SUFFICES ASSUME IInv, main \in {"destroy", "lstat", "unlink", "gone"}
               PROVE  /\ acceptor \in {"unborn", "exited"}
                      /\ threads = {} /\ reaping = {} /\ clientFds = {}
                      /\ \A c \in Clients : client[c] \in {"absent", "queued", "joined", "dropped"}
                      /\ \A n \in Fds : fd[n] \notin Clients
    BY DEF ReturnLeavesNothing
  <2>1. acceptor \in {"unborn", "exited"} /\ threads = {} /\ reaping = {}
    BY DEF IInv, ThreadsAreListed, Late
  <2>2. \A c \in Clients : client[c] \notin Running \cup {"accepted"}
    BY <2>1 DEF IInv, ThreadsAreListed, OneAccepted
  <2>3. \A n \in Fds : fd[n] \notin Clients
    BY <2>2 DEF IInv, OwnNumber, Open, Running
  <2>4. clientFds = {}
    BY <2>3 DEF IInv, TypeOK, RegistryIsServing
  <2> QED
    BY <2>1, <2>2, <2>3, <2>4 DEF IInv, TypeOK, ClientStates, Running
<1> QED
  BY Invariance, <1>1, PTL

-----------------------------------------------------------------------------
(***************************************************************************)
(* The socket file.  Between bind and lstat, and between lstat and unlink,  *)
(* the code relies on nobody replacing the path.                            *)
(***************************************************************************)
PathIsOwn ==
  /\ inode # "foreign"
  /\ main \in {"bound", "unlink"} => path # "foreign"

LEMMA PathStep ==
  ASSUME ~PathRaces, PathIsOwn, [Next]_vars
  PROVE  PathIsOwn' /\ (path = "foreign" => path' = "foreign")
<1> USE DEF PathIsOwn, envVars, pathVars, threadVars
<1>1. CASE Bind \/ BindFails
  BY <1>1 DEF Bind, BindFails
<1>2. CASE Identify \/ Listen \/ ListenFails
  BY <1>2 DEF Identify, Identified, Listen, ListenFails
<1>3. CASE CheckSocket \/ Unlink
  BY <1>3 DEF CheckSocket, IsOwnSocket, Unlink
<1>4. CASE ReplacePath \/ RemovePath
  BY <1>4 DEF ReplacePath, RemovePath
<1>5. CASE ConsoleEnds \/ TakeThreads \/ Return \/ Destroy
  BY <1>5 DEF ConsoleEnds, TakeThreads, JoinAcceptor, Return, Destroy
<1>6. ASSUME StopThread \/ AcceptorThread \/ StopFlag \/ OpenOther \/ CloseOther
             \/ \E c \in Clients : JoinClient(c) \/ Connect(c) \/ HangUp(c) \/ ClientThread(c)
      PROVE  UNCHANGED <<pathVars, main>>
  BY <1>6 DEF StopThread, StopListener, StopClients, AcceptorThread, CheckStopping, Accept, AcceptFails,
     Dismiss, Reap, Register, StopFlag, OpenOther, CloseOther, JoinClient, Connect, HangUp, ClientThread,
     ServeEnds, CloseClient, Finish
<1>7. CASE UNCHANGED vars
  BY <1>7 DEF vars
<1> QED
  BY <1>1, <1>2, <1>3, <1>4, <1>5, <1>6, <1>7 DEF Next, RunThread, Environment

(***************************************************************************)
(* Unless another process replaces the path in one of those two moments,    *)
(* the server removes nothing that another process has put there            *)
(* (removeUnixSocket, Server.cpp:325-332).                                      *)
(***************************************************************************)
THEOREM ForeignPathIsKept == ~PathRaces => (Spec => ForeignPathSurvives)
<1> SUFFICES ASSUME ~PathRaces PROVE Spec => ForeignPathSurvives
  OBVIOUS
<1>1. Init => PathIsOwn
  BY DEF Init, PathIsOwn
<1>2. PathIsOwn /\ [Next]_vars => PathIsOwn'
  BY PathStep
<1>3. PathIsOwn /\ [Next]_vars => [path = "foreign" => path' = "foreign"]_vars
  BY PathStep
<1> QED
  BY <1>1, <1>2, <1>3, PTL DEF Spec, ForeignPathSurvives
=============================================================================
