----------------------- MODULE ProxyServerProofs -----------------------
(***************************************************************************)
(* Proofs about ProxyServer for any number of descriptors, handlers,        *)
(* waiting connections and restarts.  ServerInv is inductive: which thread  *)
(* holds a descriptor at which point.                                       *)
(***************************************************************************)
EXTENDS ProxyServer, TLAPS

\* A handler holds its client until it ends, and a remote socket from dialling
\* until the relay is over.
HandlerHolds ==
  \A h \in Handlers :
    /\ client[h] # NoFd <=> handler[h] # "none"
    /\ remote[h] # NoFd <=>
         handler[h] \in {"connecting", "reply", "relay", "select", "forward", "closeRemote"}

\* The owner has a listener from start() until close(), the accept thread runs
\* at most until join().
OwnerHolds ==
  /\ serverSocket # NoFd <=> owner \in {"up", "shutdown", "join", "close"}
  /\ acceptor \notin {"none", "exited"} => owner \in {"up", "shutdown", "join"}

ServerInv == TypeOK /\ NoLeak /\ NoSharing /\ HandlerHolds /\ OwnerHolds

USE DEF ownerVars, handlerVars, vars

\* No server yet: nothing is held.
LEMMA ServerInitInv == Init => ServerInv
<1> SUFFICES ASSUME Init PROVE ServerInv
  OBVIOUS
<1>1. TypeOK
  <2>1. starts \in 0..MaxStarts /\ pending \in 0..MaxPending
    BY ServerAssumption DEF Init
  <2>2. running \in BOOLEAN /\ shut \in BOOLEAN
    BY DEF Init
  <2>3. born \in [Handlers -> 0..MaxStarts]
    BY ServerAssumption DEF Init
  <2>4. client \in [Handlers -> Fds \cup {NoFd}] /\ remote \in [Handlers -> Fds \cup {NoFd}]
    BY DEF Init
  <2> QED BY <2>1, <2>2, <2>3, <2>4 DEF Init, TypeOK
<1>2. NoLeak /\ NoSharing /\ HandlerHolds /\ OwnerHolds
  BY ServerAssumption DEF Init, NoLeak, NoSharing, HandlerHolds, OwnerHolds
<1> QED BY <1>1, <1>2 DEF ServerInv

\* A handler step that neither opens nor closes anything moves it between points
\* where it holds the same.
SamePlace(h) ==
  /\ UNCHANGED <<ownerVars, acceptor, pending, client, remote, born, open>>
  /\ request' \in [Handlers -> {"none", "connect", "socks", "http"}]
  /\ \/ /\ handler[h] \in {"first", "greet", "dial", "refuse"}
        /\ \E step \in {"greet", "dial", "refuse", "closeClient"} :
             handler' = [handler EXCEPT ![h] = step]
     \/ /\ handler[h] \in {"connecting", "reply", "relay", "select", "forward"}
        /\ \E step \in {"reply", "relay", "select", "forward", "closeRemote"} :
             handler' = [handler EXCEPT ![h] = step]

\* A handler step that opens and closes nothing preserves the invariant.
LEMMA SamePlaceInv ==
  ASSUME ServerInv, NEW h \in Handlers, SamePlace(h)
  PROVE  ServerInv'
BY DEF ServerInv, TypeOK, NoLeak, NoSharing, HandlerHolds, OwnerHolds, SamePlace

\* A program that is gone holds nothing.
LEMMA ProgramEndsInv ==
  ASSUME ServerInv, ProgramEnds
  PROVE  ServerInv'
<1> USE ServerAssumption DEF ProgramEnds, ServerInv
<1>1. TypeOK'
  <2>1. running' \in BOOLEAN /\ shut' \in BOOLEAN
    OBVIOUS
  <2>2. starts' \in 0..MaxStarts /\ pending' \in 0..MaxPending
    BY DEF TypeOK
  <2> QED BY <2>1, <2>2 DEF TypeOK
<1>2. (NoLeak /\ NoSharing /\ HandlerHolds /\ OwnerHolds)'
  BY DEF NoLeak, NoSharing, HandlerHolds, OwnerHolds
<1> QED BY <1>1, <1>2

\* The steps of the owner.
LEMMA OwnerInv ==
  ASSUME ServerInv, Start \/ Stop \/ StopStep \/ Delete
  PROVE  ServerInv'
<1> USE ServerAssumption DEF ServerInv, TypeOK, NoLeak, NoSharing, HandlerHolds, OwnerHolds
<1>1. CASE Start
  <2>1. starts' \in 0..MaxStarts /\ pending' \in 0..MaxPending
    BY <1>1 DEF Start
  <2> shut' \in BOOLEAN
    BY <1>1 DEF Start
  <2>2. ASSUME NEW fd \in Fds \ open, SetupServer(fd),
               running' = TRUE /\ acceptor' = "loop" /\ owner' = "up"
        PROVE  ServerInv'
    <3>1. running' \in BOOLEAN
      BY <2>2
    <3> QED BY <1>1, <2>1, <2>2, <3>1 DEF Start, SetupServer
  <2>3. CASE SetupServerFails /\ owner' = "stopped" /\ UNCHANGED <<running, acceptor>>
    <3>1. running' \in BOOLEAN
      BY <2>3
    <3> QED BY <1>1, <2>1, <2>3, <3>1 DEF Start, SetupServerFails
  <2> QED BY <1>1, <2>2, <2>3 DEF Start
<1>2. CASE Stop
  BY <1>2 DEF Stop, ClearRunning
<1>3. CASE Shutdown
  BY <1>3 DEF Shutdown, Shut
<1>4. CASE Join
  BY <1>4 DEF Join, Joinable
<1>5. CASE CloseListener
  BY <1>5 DEF CloseListener
<1>6. CASE Delete
  BY <1>6 DEF Delete
<1> QED BY <1>1, <1>2, <1>3, <1>4, <1>5, <1>6 DEF StopStep

\* The steps of the accept thread and of the clients.
LEMMA AcceptInv ==
  ASSUME ServerInv, AcceptStep \/ Arrive \/ Withdraw
  PROVE  ServerInv'
<1> USE ServerAssumption DEF ServerInv, TypeOK, NoLeak, NoSharing, HandlerHolds, OwnerHolds
<1>1. CASE AcceptLoop
  BY <1>1 DEF AcceptLoop
<1>2. CASE AcceptSelect
  BY <1>2 DEF AcceptSelect
<1>3. CASE AcceptCheck
  BY <1>3 DEF AcceptCheck
<1>4. CASE AcceptFails
  BY <1>4 DEF AcceptFails, AfterFailedAccept
<1>5. ASSUME NEW h \in Handlers, Accept(h) PROVE ServerInv'
  <2>1. PICK fd \in Fds \ open :
          open' = open \cup {fd} /\ client' = [client EXCEPT ![h] = fd]
    BY <1>5 DEF Accept
  <2>2. pending' \in 0..MaxPending
    BY <1>5 DEF Accept
  <2>3. TypeOK'
    BY <1>5, <2>1, <2>2 DEF Accept
  <2>4. NoLeak'
    BY <1>5, <2>1 DEF Accept
  <2>5. NoSharing'
    BY <1>5, <2>1 DEF Accept
  <2>6. HandlerHolds' /\ OwnerHolds'
    BY <1>5, <2>1 DEF Accept
  <2> QED BY <2>3, <2>4, <2>5, <2>6
<1>6. CASE Arrive
  BY <1>6 DEF Arrive
<1>7. CASE Withdraw
  BY <1>7 DEF Withdraw
<1>8. CASE NoThread
  BY <1>8, ProgramEndsInv DEF NoThread
<1> QED BY <1>1, <1>2, <1>3, <1>4, <1>5, <1>6, <1>7, <1>8 DEF AcceptStep

\* The steps of a handler.
LEMMA HandlerInv ==
  ASSUME ServerInv, NEW h \in Handlers, HandlerStep(h)
  PROVE  ServerInv'
<1> USE ServerAssumption DEF Goto
<1>1. CASE \/ FirstRead(h) \/ Greet(h) \/ Reply(h) \/ Relay(h) \/ RelaySelect(h)
           \/ Forward(h) \/ Refuse(h)
  <2>1. SamePlace(h)
    BY <1>1 DEF FirstRead, Greet, Reply, Relay, RelaySelect, Forward, Refuse, SamePlace,
                ServerInv, TypeOK
  <2> QED BY <2>1, SamePlaceInv
<1>2. ASSUME NEW fd \in Fds \ open,
             handler[h] = "dial",
             open' = open \cup {fd},
             remote' = [remote EXCEPT ![h] = fd],
             handler' = [handler EXCEPT ![h] = "connecting"],
             UNCHANGED <<ownerVars, acceptor, pending, request, client, born>>
      PROVE  ServerInv'
  <2> USE <1>2 DEF ServerInv, TypeOK, HandlerHolds, OwnerHolds
  <2>1. TypeOK'
    OBVIOUS
  <2>2. NoLeak'
    BY DEF NoLeak
  <2>3. NoSharing'
    BY DEF NoLeak, NoSharing
  <2>4. HandlerHolds' /\ OwnerHolds'
    OBVIOUS
  <2> QED BY <2>1, <2>2, <2>3, <2>4
<1>3. ASSUME NEW step \in {"closeClient", "refuse"},
             handler[h] \in {"connecting", "closeRemote"},
             DropRemote(h),
             handler' = [handler EXCEPT ![h] = step],
             UNCHANGED <<ownerVars, acceptor, pending, request, client, born>>
      PROVE  ServerInv'
  <2> USE <1>3 DEF ServerInv, TypeOK, HandlerHolds, OwnerHolds, DropRemote
  <2>1. TypeOK'
    OBVIOUS
  <2>2. NoLeak'
    BY DEF NoLeak, NoSharing
  <2>3. NoSharing'
    BY DEF NoSharing
  <2>4. HandlerHolds' /\ OwnerHolds'
    OBVIOUS
  <2> QED BY <2>1, <2>2, <2>3, <2>4
<1>4. CASE Dial(h)
  <2>1. CASE \E fd \in Fds \ open :
               /\ open' = open \cup {fd}
               /\ remote' = [remote EXCEPT ![h] = fd]
               /\ Goto(h, "connecting")
    BY <1>2, <1>4, <2>1 DEF Dial
  <2>2. CASE Goto(h, AfterFailedDial(h)) /\ UNCHANGED <<remote, open>>
    <3>1. SamePlace(h)
      BY <1>4, <2>2 DEF Dial, AfterFailedDial, SamePlace, ServerInv, TypeOK
    <3> QED BY <3>1, SamePlaceInv
  <2> QED BY <1>4, <2>1, <2>2 DEF Dial
<1>5. CASE Connect(h)
  <2>1. CASE Goto(h, "reply") /\ UNCHANGED <<remote, open>>
    <3>1. SamePlace(h)
      BY <1>5, <2>1 DEF Connect, SamePlace, ServerInv, TypeOK
    <3> QED BY <3>1, SamePlaceInv
  <2>2. CASE Goto(h, AfterFailedDial(h)) /\ DropRemote(h)
    BY <1>3, <1>5, <2>2 DEF Connect, AfterFailedDial
  <2> QED BY <1>5, <2>1, <2>2 DEF Connect
<1>6. CASE CloseRemote(h)
  BY <1>3, <1>6 DEF CloseRemote
<1>7. CASE CloseClient(h)
  <2> USE <1>7 DEF CloseClient, ServerInv, TypeOK, HandlerHolds, OwnerHolds
  <2>1. TypeOK'
    OBVIOUS
  <2>2. NoLeak'
    BY DEF NoLeak, NoSharing
  <2>3. NoSharing'
    BY DEF NoSharing
  <2>4. HandlerHolds' /\ OwnerHolds'
    OBVIOUS
  <2> QED BY <2>1, <2>2, <2>3, <2>4
<1>8. CASE BrokenPipe(h)
  BY <1>8, ProgramEndsInv DEF BrokenPipe
<1> QED BY <1>1, <1>4, <1>5, <1>6, <1>7, <1>8 DEF HandlerStep

\* Every step preserves the invariant.
LEMMA ServerNextInv == ServerInv /\ [Next]_vars => ServerInv'
<1> SUFFICES ASSUME ServerInv, [Next]_vars PROVE ServerInv'
  OBVIOUS
<1>1. CASE UNCHANGED vars
  BY <1>1 DEF ServerInv, TypeOK, NoLeak, NoSharing, HandlerHolds, OwnerHolds
<1> QED BY <1>1, OwnerInv, AcceptInv, HandlerInv DEF Next

\* The inductive invariant holds for any number of handlers and descriptors.
THEOREM ServerSafe == Spec => []ServerInv
BY ServerInitInv, ServerNextInv, PTL DEF Spec

\* Type correctness of the server.
THEOREM ServerTypeCorrect == Spec => []TypeOK
BY ServerSafe, PTL DEF ServerInv

\* No descriptor is leaked, closed twice, or closed under another thread.
THEOREM ServerDescriptorsAccounted == Spec => []DescriptorsAccounted
<1>1. ServerInv => DescriptorsAccounted
  BY DEF ServerInv, DescriptorsAccounted
<1> QED BY <1>1, ServerSafe, PTL

\* The accept thread never outlives its listener or its object.
THEOREM ServerAcceptorHasListener == Spec => []AcceptorHasListener
<1>1. ServerInv => AcceptorHasListener
  BY ServerAssumption
  DEF ServerInv, TypeOK, NoLeak, OwnerHolds, Alive, AcceptorHasListener
<1> QED BY <1>1, ServerSafe, PTL

------------------------------------------------------------------------
(* The way through stop(). *)

\* Steps of the owner and of the accept thread until stop() has returned.
StopLeft ==
  (CASE owner = "shutdown" -> 3 [] owner = "join" -> 2 [] owner = "close" -> 1 [] OTHER -> 0)
  + (CASE acceptor = "select" -> 3 [] acceptor \in {"check", "accept"} -> 2
       [] acceptor = "loop" -> 1 [] OTHER -> 0)

Stopping == owner \in {"shutdown", "join", "close"}

\* Within stop() neither thread goes round in a circle: each of their steps leaves
\* less to do, and nobody else's step changes where they are
\* (proxy_server.cpp:57-75, 142-165).
StopAdvances ==
  [][Stopping => StopLeft' < StopLeft \/ UNCHANGED <<owner, acceptor>>]_vars

\* join() waits for a thread that can go on: it is not blocked in accept(), which
\* fails on a listener that is shut down, whatever became of the connection that
\* select() reported (lines 61-67, 164).
JoinNotStuck ==
  owner = "join" =>
    acceptor \in {"loop", "select", "check", "exited"} \/ (acceptor = "accept" /\ shut)

\* stop() comes nearer to its return with each step of the two threads.
THEOREM ServerStopAdvances == Spec => StopAdvances
<1>1. ASSUME ServerInv, [Next]_vars, Stopping
      PROVE  StopLeft' < StopLeft \/ UNCHANGED <<owner, acceptor>>
  <2>1. ~running /\ owner \in {"shutdown", "join", "close"}
    BY <1>1 DEF Stopping, ServerInv, TypeOK
  <2>2. CASE StopStep
    BY <2>1, <2>2 DEF StopStep, Shutdown, Join, CloseListener, StopLeft
  <2>3. CASE ProgramEnds
    BY <2>1, <2>3 DEF ProgramEnds, StopLeft
  <2>4. CASE AcceptLoop \/ AcceptSelect \/ AcceptCheck \/ AcceptFails
    BY <2>1, <2>4 DEF AcceptLoop, AcceptSelect, AcceptCheck, AcceptFails, AfterFailedAccept, StopLeft
  <2>5. ASSUME NEW h \in Handlers, Accept(h) PROVE StopLeft' < StopLeft
    BY <2>1, <2>5 DEF Accept, StopLeft
  <2>6. CASE Arrive \/ Withdraw \/ UNCHANGED vars
    BY <2>6 DEF Arrive, Withdraw
  <2>7. ASSUME NEW h \in Handlers, HandlerStep(h)
        PROVE  ProgramEnds \/ UNCHANGED <<owner, acceptor>>
    BY <2>7 DEF HandlerStep, FirstRead, Greet, Dial, Connect, Reply, Relay, RelaySelect,
                Forward, CloseRemote, Refuse, CloseClient, BrokenPipe
  <2>8. ~Start /\ ~Stop /\ ~Delete
    BY <2>1 DEF Start, Stop, Delete
  <2> QED
    BY <1>1, <2>2, <2>3, <2>4, <2>5, <2>6, <2>7, <2>8 DEF Next, AcceptStep, NoThread
<1> QED BY <1>1, ServerSafe, PTL DEF Spec, StopAdvances

\* There is an accept thread to wait for, and it finds the listener shut down.
JoinInv ==
  /\ owner \in {"up", "shutdown", "join"} => acceptor # "none"
  /\ owner = "join" => shut

\* The accept thread cannot keep join() waiting.
THEOREM ServerJoinNotStuck == Spec => []JoinNotStuck
<1>1. Init => JoinInv
  BY DEF Init, JoinInv
<1>2. JoinInv /\ [Next]_vars => JoinInv'
  <2> SUFFICES ASSUME JoinInv, [Next]_vars PROVE JoinInv'
    OBVIOUS
  <2> USE DEF JoinInv
  <2>1. CASE Start
    BY <2>1 DEF Start
  <2>2. CASE Stop \/ StopStep \/ Delete
    BY <2>2 DEF Stop, StopStep, Shutdown, Shut, Join, CloseListener, Delete
  <2>3. CASE ProgramEnds
    BY <2>3 DEF ProgramEnds
  <2>4. CASE AcceptLoop \/ AcceptSelect \/ AcceptCheck \/ AcceptFails
    BY <2>4 DEF AcceptLoop, AcceptSelect, AcceptCheck, AcceptFails, AfterFailedAccept
  <2>5. ASSUME NEW h \in Handlers, Accept(h) PROVE JoinInv'
    BY <2>5 DEF Accept
  <2>6. CASE Arrive \/ Withdraw \/ UNCHANGED vars
    BY <2>6 DEF Arrive, Withdraw
  <2>7. ASSUME NEW h \in Handlers, HandlerStep(h)
        PROVE  ProgramEnds \/ UNCHANGED <<ownerVars, acceptor>>
    BY <2>7 DEF HandlerStep, FirstRead, Greet, Dial, Connect, Reply, Relay, RelaySelect,
                Forward, CloseRemote, Refuse, CloseClient, BrokenPipe
  <2> QED
    BY <2>1, <2>2, <2>3, <2>4, <2>5, <2>6, <2>7 DEF Next, AcceptStep, NoThread
<1>3. ServerInv /\ JoinInv => JoinNotStuck
  BY DEF ServerInv, TypeOK, JoinInv, JoinNotStuck
<1> QED BY <1>1, <1>2, <1>3, ServerSafe, PTL DEF Spec
========================================================================
