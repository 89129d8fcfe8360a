------------------------- MODULE ProxyServer -------------------------
(***************************************************************************)
(* src/proxy_server.cpp (POSIX build): the owner calls start(), stop() and  *)
(* deletes the object; one accept thread selects and accepts; one detached  *)
(* thread per client reads the request, dials the remote host and relays.   *)
(* Threads share the object's fields, and the process one descriptor table, *)
(* whose numbers are reused as soon as they are closed.  What is relayed is *)
(* not modelled, nor are the bytes of a request beyond its kind.            *)
(***************************************************************************)
EXTENDS Naturals, FiniteSets

CONSTANTS
  Fds,        \* descriptors the process may have
  NoFd,       \* -1
  Handlers,   \* slots for detached handler threads
  MaxPending, \* connections waiting in the listen queue
  MaxStarts   \* times the owner creates and starts a server

ASSUME ServerAssumption ==
  NoFd \notin Fds /\ MaxPending \in Nat /\ MaxStarts \in Nat

VARIABLES
  owner,         \* where the owning thread is: see TypeOK
  starts,        \* servers started so far
  running,       \* running_
  serverSocket,  \* serverSocket_
  shut,          \* shutdown() was called on the listener
  acceptor,      \* where the accept thread is
  pending,       \* completed connections nobody accepted yet
  handler,       \* where each handler thread is
  request,       \* what its client asked for
  client,        \* its clientSocket
  remote,        \* its remoteSocket
  born,          \* the server that spawned it, counted by starts
  open           \* descriptors open in the process

ownerVars == <<owner, starts, running, serverSocket, shut>>
handlerVars == <<handler, request, client, remote, born>>
vars == <<ownerVars, acceptor, pending, handlerVars, open>>

Alive == owner # "none"

\* What handler h may find in running_: once the server it was spawned by is
\* deleted, that memory may hold anything.
RunningSeenBy(h) == IF Alive /\ born[h] = starts THEN {running} ELSE BOOLEAN

Init ==
  /\ owner = "none" /\ starts = 0 /\ running = FALSE
  /\ serverSocket = NoFd /\ shut = FALSE
  /\ acceptor = "none" /\ pending = 0
  /\ handler = [h \in Handlers |-> "none"]
  /\ request = [h \in Handlers |-> "none"]
  /\ client = [h \in Handlers |-> NoFd]
  /\ remote = [h \in Handlers |-> NoFd]
  /\ born = [h \in Handlers |-> 0]
  /\ open = {}

\* The program is gone with all its threads and descriptors; it may be started
\* again.
ProgramEnds ==
  /\ owner' = "none" /\ running' = FALSE /\ serverSocket' = NoFd /\ shut' = FALSE
  /\ acceptor' = "none" /\ pending' = 0 /\ open' = {}
  /\ handler' = [h \in Handlers |-> "none"]
  /\ request' = [h \in Handlers |-> "none"]
  /\ client' = [h \in Handlers |-> NoFd]
  /\ remote' = [h \in Handlers |-> NoFd]
  /\ UNCHANGED <<starts, born>>

------------------------------------------------------------------------
(* The owner: new, start(), stop(), delete. *)

\* setupServer(): a listening socket; or none, for bind() and listen() close
\* the descriptor when they fail.
SetupServer(fd) == open' = open \cup {fd} /\ serverSocket' = fd

SetupServerFails == serverSocket' = NoFd /\ UNCHANGED open

\* start() of a new object; with a listener it spawns the accept thread.
Start ==
  /\ owner = "none" /\ starts < MaxStarts
  /\ starts' = starts + 1
  /\ shut' = FALSE
  /\ \/ /\ \E fd \in Fds \ open : SetupServer(fd)
        /\ running' = TRUE /\ acceptor' = "loop" /\ owner' = "up"
     \/ /\ SetupServerFails
        /\ owner' = "stopped"
        /\ UNCHANGED <<running, acceptor>>
  /\ pending' = 0
  /\ UNCHANGED handlerVars

\* Mutant: the accept thread is not told.
ClearRunningMutant == UNCHANGED running

ClearRunning == running' = FALSE

\* stop(): running_ = false ...
Stop ==
  /\ owner = "up"
  /\ ClearRunning
  /\ owner' = "shutdown"
  /\ UNCHANGED <<starts, serverSocket, shut, acceptor, pending, handlerVars, open>>

\* Mutant: no shutdown(), a blocked accept() is left blocked.
ShutMutant == UNCHANGED shut

Shut == shut' = TRUE

\* ... shutdown() wakes select and accept, and resets what is still queued ...
Shutdown ==
  /\ owner = "shutdown"
  /\ Shut
  /\ pending' = 0
  /\ owner' = "join"
  /\ UNCHANGED <<starts, running, serverSocket, acceptor, handlerVars, open>>

\* Mutant: the thread is not waited for.
JoinableMutant == TRUE

Joinable == acceptor = "exited"

\* ... join() ...
Join ==
  /\ owner = "join"
  /\ Joinable
  /\ owner' = "close"
  /\ UNCHANGED <<starts, running, serverSocket, shut, acceptor, pending, handlerVars, open>>

\* ... and the listener is closed.
CloseListener ==
  /\ owner = "close"
  /\ open' = open \ {serverSocket}
  /\ serverSocket' = NoFd
  /\ owner' = "stopped"
  /\ UNCHANGED <<starts, running, shut, acceptor, pending, handlerVars>>

\* delete proxyServer_: ~ProxyServer calls stop() again, which finds running_
\* false and returns.
Delete ==
  /\ owner = "stopped"
  /\ owner' = "none"
  /\ UNCHANGED <<starts, running, serverSocket, shut, acceptor, pending, handlerVars, open>>

------------------------------------------------------------------------
(* acceptConnections(), in the accept thread. *)

\* while (running_)
AcceptLoop ==
  /\ acceptor = "loop"
  /\ acceptor' = IF running THEN "select" ELSE "exited"
  /\ UNCHANGED <<ownerVars, pending, handlerVars, open>>

\* select() for at most 200 ms: ready with a connection, or once shut down.
AcceptSelect ==
  /\ acceptor = "select"
  /\ acceptor' = IF pending > 0 \/ shut THEN "check" ELSE "loop"
  /\ UNCHANGED <<ownerVars, pending, handlerVars, open>>

\* || !running_
AcceptCheck ==
  /\ acceptor = "check"
  /\ acceptor' = IF running THEN "accept" ELSE "loop"
  /\ UNCHANGED <<ownerVars, pending, handlerVars, open>>

\* accept() and a detached thread for the client.
Accept(h) ==
  /\ acceptor = "accept" /\ pending > 0 /\ handler[h] = "none"
  /\ \E fd \in Fds \ open :
       /\ open' = open \cup {fd}
       /\ client' = [client EXCEPT ![h] = fd]
  /\ pending' = pending - 1
  /\ handler' = [handler EXCEPT ![h] = "first"]
  /\ born' = [born EXCEPT ![h] = starts]
  /\ acceptor' = "loop"
  /\ UNCHANGED <<ownerVars, request, remote>>

\* There is a client but no thread for it: std::thread throws in the accept
\* thread, where nobody catches it.
NoThread ==
  /\ acceptor = "accept" /\ pending > 0 /\ open # Fds
  /\ ProgramEnds

\* Mutant: the thread gives up when accept() fails.
AfterFailedAcceptMutant == "exited"

AfterFailedAccept == "loop"

\* accept() fails once the listener is shut down, or with no descriptor left.
\* It blocks if the connection select() saw has been withdrawn.
AcceptFails ==
  /\ acceptor = "accept"
  /\ shut \/ (pending > 0 /\ open = Fds)
  /\ acceptor' = AfterFailedAccept
  /\ UNCHANGED <<ownerVars, pending, handlerVars, open>>

------------------------------------------------------------------------
(* handleClientConnection(), in a detached thread. *)

Goto(h, step) == handler' = [handler EXCEPT ![h] = step]

\* The first recv(), for which no timeout is set, and the dispatch on what it
\* brought: nothing, or a request of one of three kinds, or one not understood.
FirstRead(h) ==
  /\ handler[h] = "first"
  /\ \/ Goto(h, "closeClient") /\ UNCHANGED request
     \/ \E kind \in {"connect", "socks", "http"} :
          /\ request' = [request EXCEPT ![h] = kind]
          /\ Goto(h, IF kind = "socks" THEN "greet" ELSE "dial")
  /\ UNCHANGED <<ownerVars, acceptor, pending, client, remote, born, open>>

\* SOCKS5: the method answer, then a second recv() with the real request.
Greet(h) ==
  /\ handler[h] = "greet"
  /\ Goto(h, "dial") \/ Goto(h, "closeClient")
  /\ UNCHANGED <<ownerVars, acceptor, pending, request, client, remote, born, open>>

\* A failed connectToRemote() is reported, except for plain HTTP.
AfterFailedDial(h) == IF request[h] = "http" THEN "closeClient" ELSE "refuse"

\* connectToRemote(): the name, then the socket.
Dial(h) ==
  /\ handler[h] = "dial"
  /\ \/ \E fd \in Fds \ open :
          /\ open' = open \cup {fd}
          /\ remote' = [remote EXCEPT ![h] = fd]
          /\ Goto(h, "connecting")
     \/ Goto(h, AfterFailedDial(h)) /\ UNCHANGED <<remote, open>>
  /\ UNCHANGED <<ownerVars, acceptor, pending, request, client, born>>

\* Mutant: a socket that could not be connected is not closed.
DropRemoteMutant(h) == remote' = [remote EXCEPT ![h] = NoFd] /\ UNCHANGED open

DropRemote(h) ==
  /\ open' = open \ {remote[h]}
  /\ remote' = [remote EXCEPT ![h] = NoFd]

\* connect(), bounded by the send timeout of 6 s.
Connect(h) ==
  /\ handler[h] = "connecting"
  /\ \/ Goto(h, "reply") /\ UNCHANGED <<remote, open>>
     \/ Goto(h, AfterFailedDial(h)) /\ DropRemote(h)
  /\ UNCHANGED <<ownerVars, acceptor, pending, request, client, born>>

\* The positive answer, or for plain HTTP the request passed on.
Reply(h) ==
  /\ handler[h] = "reply"
  /\ Goto(h, "relay")
  /\ UNCHANGED <<ownerVars, acceptor, pending, request, client, remote, born, open>>

\* pipeSockets(): while (running_)
Relay(h) ==
  /\ handler[h] = "relay"
  /\ \E seen \in RunningSeenBy(h) : Goto(h, IF seen THEN "select" ELSE "closeRemote")
  /\ UNCHANGED <<ownerVars, acceptor, pending, request, client, remote, born, open>>

\* select() for at most 30 s.
RelaySelect(h) ==
  /\ handler[h] = "select"
  /\ Goto(h, "forward") \/ Goto(h, "closeRemote")
  /\ UNCHANGED <<ownerVars, acceptor, pending, request, client, remote, born, open>>

\* recv() and send(), in one or both directions; either may fail.
Forward(h) ==
  /\ handler[h] = "forward"
  /\ Goto(h, "relay") \/ Goto(h, "closeRemote")
  /\ UNCHANGED <<ownerVars, acceptor, pending, request, client, remote, born, open>>

CloseRemote(h) ==
  /\ handler[h] = "closeRemote"
  /\ DropRemote(h)
  /\ Goto(h, "closeClient")
  /\ UNCHANGED <<ownerVars, acceptor, pending, request, client, born>>

\* The negative answer.
Refuse(h) ==
  /\ handler[h] = "refuse"
  /\ Goto(h, "closeClient")
  /\ UNCHANGED <<ownerVars, acceptor, pending, request, client, remote, born, open>>

CloseClient(h) ==
  /\ handler[h] = "closeClient"
  /\ open' = open \ {client[h]}
  /\ client' = [client EXCEPT ![h] = NoFd]
  /\ request' = [request EXCEPT ![h] = "none"]
  /\ Goto(h, "none")
  /\ UNCHANGED <<ownerVars, acceptor, pending, remote, born>>

\* send() to a connection its peer has reset raises SIGPIPE, which nothing
\* ignores.
BrokenPipe(h) ==
  /\ handler[h] \in {"greet", "reply", "forward", "refuse"}
  /\ ProgramEnds

------------------------------------------------------------------------
(* Clients. *)

Listening == serverSocket # NoFd /\ ~shut

Arrive ==
  /\ Listening /\ pending < MaxPending
  /\ pending' = pending + 1
  /\ UNCHANGED <<ownerVars, acceptor, handlerVars, open>>

\* A client resets its connection before it is accepted; some kernels then take
\* it out of the queue.
Withdraw ==
  /\ pending > 0
  /\ pending' = pending - 1
  /\ UNCHANGED <<ownerVars, acceptor, handlerVars, open>>

------------------------------------------------------------------------
StopStep == Shutdown \/ Join \/ CloseListener

AcceptStep ==
  \/ AcceptLoop \/ AcceptSelect \/ AcceptCheck \/ AcceptFails \/ NoThread
  \/ \E h \in Handlers : Accept(h)

HandlerStep(h) ==
  \/ FirstRead(h) \/ Greet(h) \/ Dial(h) \/ Connect(h) \/ Reply(h) \/ Relay(h)
  \/ RelaySelect(h) \/ Forward(h) \/ CloseRemote(h) \/ Refuse(h) \/ CloseClient(h)
  \/ BrokenPipe(h)

Next ==
  \/ Start \/ Stop \/ StopStep \/ Delete \/ AcceptStep \/ Arrive \/ Withdraw
  \/ \E h \in Handlers : HandlerStep(h)

Spec == Init /\ [][Next]_vars

\* stop() goes on once it is called, and the accept thread runs.  Nothing is
\* assumed of the handlers, which wait for their peers.
FairSpec == Spec /\ WF_vars(StopStep) /\ WF_vars(AcceptStep)

------------------------------------------------------------------------
(* Properties. *)

\* Every variable stays within the values the code gives it, and running_ is
\* true exactly between start() and stop().
TypeOK ==
  /\ owner \in {"none", "up", "shutdown", "join", "close", "stopped"}
  /\ starts \in 0..MaxStarts
  /\ running \in BOOLEAN
  /\ running <=> owner = "up"
  /\ serverSocket \in Fds \cup {NoFd}
  /\ shut \in BOOLEAN
  /\ acceptor \in {"none", "loop", "select", "check", "accept", "exited"}
  /\ pending \in 0..MaxPending
  /\ handler \in [Handlers -> {"none", "first", "greet", "dial", "connecting", "reply",
                               "relay", "select", "forward", "closeRemote", "refuse",
                               "closeClient"}]
  /\ request \in [Handlers -> {"none", "connect", "socks", "http"}]
  /\ client \in [Handlers -> Fds \cup {NoFd}]
  /\ remote \in [Handlers -> Fds \cup {NoFd}]
  /\ born \in [Handlers -> 0..MaxStarts]
  /\ open \in SUBSET Fds

\* What is open is what somebody holds ...
NoLeak ==
  \A fd \in Fds :
    fd \in open <=> fd = serverSocket \/ \E h \in Handlers : fd = client[h] \/ fd = remote[h]

\* ... and nobody holds what another one holds.
NoSharing ==
  /\ \A h, g \in Handlers :
       /\ client[h] # NoFd => client[h] # remote[g]
       /\ client[h] # NoFd /\ h # g => client[h] # client[g]
       /\ remote[h] # NoFd /\ h # g => remote[h] # remote[g]
  /\ serverSocket # NoFd =>
       \A h \in Handlers : client[h] # serverSocket /\ remote[h] # serverSocket

\* Every descriptor of the process is held exactly once: on no path through the
\* handlers, start() and stop() is one leaked, closed twice, or closed while
\* another thread still uses its number (proxy_server.cpp:50-75, 204-208,
\* 248-359).
DescriptorsAccounted == NoLeak /\ NoSharing

\* As long as the accept thread runs, the object it reads exists and the
\* listener it selects on is its own open descriptor (join before close and
\* delete, lines 65-72).
AcceptorHasListener ==
  acceptor \notin {"none", "exited"} => Alive /\ serverSocket \in open

\* stop() returns, even while the accept thread is blocked in accept() because
\* the connection select() reported is gone (lines 57-67).
StopReturns == owner = "shutdown" ~> owner \in {"stopped", "none"}

\* A waiting connection is accepted whatever the clients before it do: it never
\* waits forever while there are descriptors and threads to be had
\* (lines 142-171).
PendingServed ==
  []<>(\/ pending = 0 \/ ~running \/ open = Fds
       \/ \A h \in Handlers : handler[h] # "none")

\* "Stopping proxy gracefully..." (main.cpp:241): no relaying handler is about to
\* read running_ of a server that has been deleted (lines 170, 218).
HandlersUseLiveServer ==
  \A h \in Handlers : handler[h] = "relay" => Alive /\ born[h] = starts
========================================================================
