------------------------------- MODULE Server -------------------------------
(***************************************************************************)
(* The Unix-socket server (source/runtime/Server.cpp): the thread of run(), *)
(* the acceptor thread runUnix(), one thread per accepted connection, the   *)
(* thread that calls stop(), and the process's descriptor table, in which   *)
(* a closed number is given out again.  What a client thread does with its  *)
(* requests is left to the modules of the session; here it serves until its *)
(* peer goes away, its connection is shut down, or it decides to leave.     *)
(*                                                                         *)
(* Every clientsMutex_ section is one step.  Joining a thread that has set  *)
(* its finished flag is one step, for nothing of the thread is left to run. *)
(***************************************************************************)
EXTENDS Naturals, FiniteSets

CONSTANTS
  Clients,      \* the connections that may be made
  Fds,          \* the process's descriptor numbers
  PathRaces     \* whether another process may replace the path between bind
                \* and lstat, or between lstat and unlink

ASSUME PathRacesAssumption == PathRaces \in BOOLEAN

(***************************************************************************)
(* Owners of a descriptor number besides a client: nobody, the listener,    *)
(* and everything else this process opens.                                  *)
(***************************************************************************)
CONSTANTS Free, Listener, OtherFile
ASSUME OwnersAssumption ==
  /\ Cardinality({Free, Listener, OtherFile}) = 3
  /\ Clients \cap {Free, Listener, OtherFile} = {}

VARIABLES
  stdio,      \* options_.stdio: run() reads a console and then calls stop()
  path,       \* what the socket path names: "none", "ours" or "foreign"
  inode,      \* unixInode_: what removeUnixSocket takes for its own socket
  main,       \* where run() and then ~Server stand
  acceptor,   \* where runUnix() stands
  stopper,    \* where the caller of stop() stands
  stopping,   \* stopping_
  listener,   \* listener_, Free (-1) until openUnix has opened it
  shut,       \* connections, and the Listener, shut down by the server
  fd,         \* the descriptor table: the owner of every number
  clientFds,  \* clientFds_
  threads,    \* clientThreads_, by the connection each serves
  reaping,    \* the threads reapClients(true) has taken out and still joins
  client,     \* how far each connection has come
  hungUp      \* connections whose peer has closed its end

vars == <<stdio, path, inode, main, acceptor, stopper, stopping, listener, shut, fd,
          clientFds, threads, reaping, client, hungUp>>

threadVars == <<clientFds, threads, reaping, client>>
pathVars   == <<path, inode>>
envVars    == <<stdio, hungUp>>

FdOf(c) == CHOOSE n \in Fds : fd[n] = c

ClientStates == {"absent", "queued", "accepted", "serving", "erased",
                 "closed", "finished", "joined", "dropped"}

Init ==
  /\ stdio \in BOOLEAN
  /\ path \in {"none", "foreign"}
  /\ inode = "none"
  /\ main = "start"
  /\ acceptor = "unborn"
  /\ stopper = "idle"
  /\ stopping = FALSE
  /\ listener = Free
  /\ shut = {}
  /\ fd = [n \in Fds |-> Free]
  /\ clientFds = {}
  /\ threads = {}
  /\ reaping = {}
  /\ client = [c \in Clients |-> "absent"]
  /\ hungUp = {}

-----------------------------------------------------------------------------
(***************************************************************************)
(* openUnix(): socket and bind, lstat, chmod and listen.  Without a free    *)
(* number, or on an existing path, run() throws and only ~Server follows.   *)
(***************************************************************************)
Bind ==
  /\ main = "start"
  /\ path = "none"
  /\ \E n \in Fds :
       /\ fd[n] = Free
       /\ fd' = [fd EXCEPT ![n] = Listener]
  /\ path' = "ours"
  /\ main' = "bound"
  /\ UNCHANGED <<inode, acceptor, stopper, stopping, listener, shut, envVars, threadVars>>

BindFails ==
  /\ main = "start"
  /\ path = "foreign" \/ \A n \in Fds : fd[n] # Free
  /\ main' = "destroy"
  /\ UNCHANGED <<acceptor, stopper, stopping, listener, shut, fd, envVars, pathVars, threadVars>>

(***************************************************************************)
(* The identity of the bound socket is read back through the path; a path   *)
(* that names no socket any more is an error.                               *)
(***************************************************************************)
Identified == path

Identify ==
  /\ main = "bound"
  /\ IF path = "none"
     THEN /\ main' = "destroy"
          /\ fd' = [n \in Fds |-> IF fd[n] = Listener THEN Free ELSE fd[n]]
          /\ UNCHANGED inode
     ELSE inode' = Identified /\ main' = "identified" /\ UNCHANGED fd
  /\ UNCHANGED <<path, acceptor, stopper, stopping, listener, shut, envVars, threadVars>>

(* listen, the publication of listener_, and the acceptor thread. *)
Listen ==
  /\ main = "identified"
  /\ listener' = Listener
  /\ acceptor' = "check"
  /\ main' = IF stdio THEN "console" ELSE "joinAcceptor"
  /\ UNCHANGED <<stopper, stopping, shut, fd, envVars, pathVars, threadVars>>

(* chmod or listen fails: the file is removed as ~Server does, which then  *)
(* has nothing left to remove, so that its removal stands for both.        *)
ListenFails ==
  /\ main = "identified"
  /\ main' = "destroy"
  /\ fd' = [n \in Fds |-> IF fd[n] = Listener THEN Free ELSE fd[n]]
  /\ UNCHANGED <<acceptor, stopper, stopping, listener, shut, envVars, pathVars, threadVars>>

(***************************************************************************)
(* stop(), called by run() when its console ends, and by another thread     *)
(* otherwise: the flag, then the listener, then every registered client.    *)
(***************************************************************************)
StoppingFault == stopping
Stopping == TRUE

StopFlag ==
  /\ stopper = "idle"
  /\ stdio => main = "console"
  /\ main \notin {"lstat", "unlink", "gone"}
  /\ stopping' = Stopping
  /\ stopper' = "flagged"
  /\ UNCHANGED <<main, acceptor, listener, shut, fd, envVars, pathVars, threadVars>>

ShutListenerFault == shut
ShutListener == shut \cup ({listener} \ {Free})

StopListener ==
  /\ stopper = "flagged"
  /\ shut' = ShutListener
  /\ stopper' = "sweeping"
  /\ UNCHANGED <<main, acceptor, stopping, listener, fd, envVars, pathVars, threadVars>>

(* shutdown() acts on whatever the number names now. *)
StopClients ==
  /\ stopper = "sweeping"
  /\ shut' = shut \cup {fd[n] : n \in clientFds}
  /\ stopper' = "stopped"
  /\ UNCHANGED <<main, acceptor, stopping, listener, fd, envVars, pathVars, threadVars>>

-----------------------------------------------------------------------------
(***************************************************************************)
(* runUnix().  accept4 takes a queued connection even from a listener that  *)
(* was shut down; with none queued it fails on such a listener and waits    *)
(* otherwise.  With no free number it fails and the loop tries again, which *)
(* changes nothing.                                                         *)
(***************************************************************************)
CheckStopping ==
  /\ acceptor = "check"
  /\ acceptor' = IF stopping THEN "exited" ELSE "accept"
  /\ UNCHANGED <<main, stopper, stopping, listener, shut, fd, envVars, pathVars, threadVars>>

Accept ==
  /\ acceptor = "accept"
  /\ \E c \in Clients, n \in Fds :
       /\ client[c] = "queued"
       /\ fd[n] = Free
       /\ fd' = [fd EXCEPT ![n] = c]
       /\ client' = [client EXCEPT ![c] = "accepted"]
  /\ acceptor' = "accepted"
  /\ UNCHANGED <<main, stopper, stopping, listener, shut, clientFds, threads, reaping, envVars, pathVars>>

AcceptFails ==
  /\ acceptor = "accept"
  /\ Listener \in shut
  /\ \A c \in Clients : client[c] # "queued"
  /\ acceptor' = IF stopping THEN "exited" ELSE "check"
  /\ UNCHANGED <<main, stopper, stopping, listener, shut, fd, envVars, pathVars, threadVars>>

(* A connection that arrives while the server stops is closed at once. *)
Dismiss ==
  /\ acceptor = "accepted"
  /\ \E c \in Clients :
       /\ client[c] = "accepted"
       /\ IF stopping
          THEN /\ acceptor' = "exited"
               /\ fd' = [fd EXCEPT ![FdOf(c)] = Free]
               /\ client' = [client EXCEPT ![c] = "dropped"]
          ELSE acceptor' = "reap" /\ UNCHANGED <<fd, client>>
  /\ UNCHANGED <<main, stopper, stopping, listener, shut, clientFds, threads, reaping, envVars, pathVars>>

(* reapClients(): the finished threads leave clientThreads_ and are joined. *)
Reap ==
  /\ acceptor = "reap"
  /\ LET done == {c \in threads : client[c] = "finished"}
     IN  /\ threads' = threads \ done
         /\ client' = [c \in Clients |-> IF c \in done THEN "joined" ELSE client[c]]
  /\ acceptor' = "register"
  /\ UNCHANGED <<main, stopper, stopping, listener, shut, fd, clientFds, reaping, envVars, pathVars>>

(***************************************************************************)
(* Under clientsMutex_ the number is registered and its thread started, so  *)
(* that the thread cannot erase the number before it is there.              *)
(***************************************************************************)
RegisteredFds(c) == clientFds \cup {FdOf(c)}

Register ==
  /\ acceptor = "register"
  /\ \E c \in Clients :
       /\ client[c] = "accepted"
       /\ clientFds' = RegisteredFds(c)
       /\ threads' = threads \cup {c}
       /\ client' = [client EXCEPT ![c] = "serving"]
  /\ acceptor' = "check"
  /\ UNCHANGED <<main, stopper, stopping, listener, shut, fd, reaping, envVars, pathVars>>

-----------------------------------------------------------------------------
(***************************************************************************)
(* serveUnixClient(): the number is unregistered before it is closed.  A    *)
(* client may also leave on its own (:quit, a failed send).                 *)
(***************************************************************************)
Leave(c) ==
  /\ client' = [client EXCEPT ![c] = "erased"]
  /\ clientFds' = clientFds \ {FdOf(c)}
  /\ UNCHANGED fd

ServeEnds(c) ==
  /\ client[c] = "serving"
  /\ Leave(c)
  /\ UNCHANGED <<main, acceptor, stopper, stopping, listener, shut, threads, reaping, envVars, pathVars>>

CloseClient(c) ==
  /\ client[c] = "erased"
  /\ client' = [client EXCEPT ![c] = "closed"]
  /\ fd' = [n \in Fds |-> IF fd[n] = c THEN Free ELSE fd[n]]
  /\ UNCHANGED <<main, acceptor, stopper, stopping, listener, shut, clientFds, threads, reaping, envVars, pathVars>>

Finish(c) ==
  /\ client[c] = "closed"
  /\ client' = [client EXCEPT ![c] = "finished"]
  /\ UNCHANGED <<main, acceptor, stopper, stopping, listener, shut, fd, clientFds, threads, reaping, envVars, pathVars>>

-----------------------------------------------------------------------------
(***************************************************************************)
(* The end of run(): the console's stop() has returned, the acceptor is     *)
(* joined, then every client thread is taken and joined.                    *)
(***************************************************************************)
ConsoleEnds ==
  /\ main = "console"
  /\ stopper = "stopped"
  /\ main' = "joinAcceptor"
  /\ UNCHANGED <<acceptor, stopper, stopping, listener, shut, fd, envVars, pathVars, threadVars>>

JoinAcceptorFault == main = "joinAcceptor"
JoinAcceptor == main = "joinAcceptor" /\ acceptor = "exited"

TakeThreads ==
  /\ JoinAcceptor
  /\ reaping' = threads
  /\ threads' = {}
  /\ main' = "joinClients"
  /\ UNCHANGED <<acceptor, stopper, stopping, listener, shut, fd, clientFds, client, envVars, pathVars>>

JoinClient(c) ==
  /\ main = "joinClients"
  /\ c \in reaping
  /\ client[c] = "finished"
  /\ reaping' = reaping \ {c}
  /\ client' = [client EXCEPT ![c] = "joined"]
  /\ UNCHANGED <<main, acceptor, stopper, stopping, listener, shut, fd, clientFds, threads, envVars, pathVars>>

Return ==
  /\ main = "joinClients"
  /\ reaping = {}
  /\ main' = "destroy"
  /\ UNCHANGED <<acceptor, stopper, stopping, listener, shut, fd, envVars, pathVars, threadVars>>

(***************************************************************************)
(* ~Server, after the caller of stop() is done with the object: its stop()  *)
(* and reapClients(true) find no client; it closes the listener and removes *)
(* the socket file if the path still names the socket it identified.        *)
(***************************************************************************)
Destroy ==
  /\ main = "destroy"
  /\ stopper \in {"idle", "stopped"}
  /\ fd' = [n \in Fds |-> IF fd[n] = Listener THEN Free ELSE fd[n]]
  /\ listener' = Free
  /\ stopping' = TRUE
  /\ main' = "lstat"
  /\ UNCHANGED <<acceptor, stopper, shut, envVars, pathVars, threadVars>>

IsOwnSocket == inode # "none" /\ path = inode

CheckSocket ==
  /\ main = "lstat"
  /\ main' = IF IsOwnSocket THEN "unlink" ELSE "gone"
  /\ UNCHANGED <<acceptor, stopper, stopping, listener, shut, fd, envVars, pathVars, threadVars>>

Unlink ==
  /\ main = "unlink"
  /\ path' = "none"
  /\ main' = "gone"
  /\ UNCHANGED <<inode, acceptor, stopper, stopping, listener, shut, fd, envVars, threadVars>>

-----------------------------------------------------------------------------
(***************************************************************************)
(* The environment: peers connect to a live listener and hang up, the rest  *)
(* of the process opens and closes descriptors, and another process may     *)
(* replace or remove what the path names.                                   *)
(***************************************************************************)
Connect(c) ==
  /\ client[c] = "absent"
  /\ listener = Listener /\ Listener \notin shut
  /\ path = "ours"
  /\ client' = [client EXCEPT ![c] = "queued"]
  /\ UNCHANGED <<main, acceptor, stopper, stopping, listener, shut, fd, clientFds, threads, reaping, envVars, pathVars>>

HangUp(c) ==
  /\ client[c] \in {"queued", "accepted", "serving"}
  /\ c \notin hungUp
  /\ hungUp' = hungUp \cup {c}
  /\ UNCHANGED <<stdio, main, acceptor, stopper, stopping, listener, shut, fd, pathVars, threadVars>>

OpenOther ==
  /\ \E n \in Fds :
       /\ fd[n] = Free
       /\ fd' = [fd EXCEPT ![n] = OtherFile]
  /\ UNCHANGED <<main, acceptor, stopper, stopping, listener, shut, envVars, pathVars, threadVars>>

CloseOther ==
  /\ \E n \in Fds :
       /\ fd[n] = OtherFile
       /\ fd' = [fd EXCEPT ![n] = Free]
  /\ UNCHANGED <<main, acceptor, stopper, stopping, listener, shut, envVars, pathVars, threadVars>>

ReplacePath ==
  /\ main \notin {"start", "gone"}
  /\ main \in {"bound", "unlink"} => PathRaces
  /\ path' = "foreign"
  /\ path # "foreign"
  /\ UNCHANGED <<inode, main, acceptor, stopper, stopping, listener, shut, fd, envVars, threadVars>>

RemovePath ==
  /\ main \notin {"start", "gone"}
  /\ path = "ours"
  /\ path' = "none"
  /\ UNCHANGED <<inode, main, acceptor, stopper, stopping, listener, shut, fd, envVars, threadVars>>

RunThread ==
  \/ Bind \/ BindFails \/ Identify \/ Listen \/ ListenFails \/ ConsoleEnds \/ TakeThreads
  \/ \E c \in Clients : JoinClient(c)
  \/ Return \/ Destroy \/ CheckSocket \/ Unlink

StopThread == StopListener \/ StopClients

AcceptorThread ==
  CheckStopping \/ Accept \/ AcceptFails \/ Dismiss \/ Reap \/ Register

ClientThread(c) == ServeEnds(c) \/ CloseClient(c) \/ Finish(c)

Environment ==
  \/ StopFlag \/ OpenOther \/ CloseOther \/ ReplacePath \/ RemovePath
  \/ \E c \in Clients : Connect(c) \/ HangUp(c)

Next ==
  \/ RunThread \/ StopThread \/ AcceptorThread \/ Environment
  \/ \E c \in Clients : ClientThread(c)

Spec == Init /\ [][Next]_vars

(***************************************************************************)
(* Threads are scheduled, and a client thread whose connection has ended,   *)
(* from either side, notices.  Nothing makes the console end.  The rest of  *)
(* the process gives descriptors back (SF, for accept4 is retried until one *)
(* is free), and, for StopEnds alone, peers hang up in the end: a client    *)
(* registered after the sweep of stop() is waited for.                      *)
(***************************************************************************)
Ended(c) == c \in hungUp \/ c \in shut

Fairness ==
  /\ WF_vars(RunThread)
  /\ WF_vars(StopThread)
  /\ SF_vars(AcceptorThread)
  /\ \A c \in Clients : WF_vars((client[c] = "serving" => Ended(c)) /\ ClientThread(c))
  /\ WF_vars(CloseOther)

PeersHangUp == \A c \in Clients : WF_vars(HangUp(c))

FairSpec == Spec /\ Fairness /\ PeersHangUp

-----------------------------------------------------------------------------
Owners == Clients \cup {Free, Listener, OtherFile}

(***************************************************************************)
(* stop() never shuts down a descriptor that is not a client's: whoever     *)
(* reuses the number of a closed connection is left alone (Server.cpp:334,  *)
(* 675-679).  It can miss a connection that the acceptor took before the    *)
(* flag and registers after the sweep, but never more than one.             *)
(***************************************************************************)
StopReachesItsOwn ==
  /\ shut \subseteq Clients \cup {Listener}
  /\ stopper = "stopped" =>
       Cardinality({c \in Clients : client[c] \in {"accepted", "serving"} /\ c \notin shut}) <= 1

(***************************************************************************)
(* When run() has returned no client thread is left to touch the Server     *)
(* that is about to be destroyed, every accepted connection is closed, and  *)
(* the acceptor is gone.                                                    *)
(***************************************************************************)
ReturnLeavesNothing ==
  main \in {"destroy", "lstat", "unlink", "gone"} =>
    /\ acceptor \in {"unborn", "exited"}
    /\ threads = {} /\ reaping = {} /\ clientFds = {}
    /\ \A c \in Clients : client[c] \in {"absent", "queued", "joined", "dropped"}
    /\ \A n \in Fds : fd[n] \notin Clients

(***************************************************************************)
(* The server removes the socket file it bound and nothing that another     *)
(* process has put in its place (removeUnixSocket).                         *)
(***************************************************************************)
ForeignPathSurvives == [][path = "foreign" => path' = "foreign"]_vars

(***************************************************************************)
(* Once stop() is called, run() returns and the Server is destroyed.        *)
(***************************************************************************)
StopEnds == (stopper # "idle") ~> (main = "gone")
=============================================================================
