------------------------ MODULE EmergencyProxy ------------------------
(***************************************************************************)
(* EmergencyConnectProxy (src/emergency_proxy.cpp) around the tunnel of     *)
(* OpenVPNTunnel.  One thread calls initialize, start and stop, in any      *)
(* order a caller may choose, and the program may be killed at any point.   *)
(* start() tries the endpoints in turn and then listens; cleanup() closes   *)
(* the listener first and the tunnel second.  The synchronous endpoint      *)
(* fetch is one step: EndpointFetch shows what it returns.  Nothing in the  *)
(* repository calls the asynchronous one, which is left out.                *)
(***************************************************************************)
EXTENDS OpenVPNTunnel, EndpointMerge

CONSTANTS
  Endpoint,    \* EmergencyEndpoint: address, port and protocol
  Fetchable,   \* lists getIpEndpointsSync may return
  Configured   \* endpoint lists a ProxyConfig may bring

ASSUME ProxyAssumption ==
  Fetchable \cup Configured \subseteq Seq(Endpoint) /\ <<>> \notin Fetchable

VARIABLES
  epc,        \* where the caller is inside start/stop
  endpoints,  \* config_.endpoints
  idx,        \* i of the attempt loop, from 1
  running,    \* running_
  vpnTunnel,  \* vpnTunnel_ is not null
  server      \* proxyServer_: "none", "created" (not started), "listening"

proxyVars == <<epc, endpoints, idx, running, vpnTunnel, server>>
vars == <<proxyVars, tunnelVars>>

Init ==
  /\ TunnelInit
  /\ epc = "idle" /\ endpoints = <<>> /\ idx = 1
  /\ running = FALSE /\ vpnTunnel = FALSE /\ server = "none"

------------------------------------------------------------------------
\* fetchRemoteEndpoints(false): never empty-handed, so the list is always merged.
FetchRemoteEndpoints(held) ==
  \E fetched \in Fetchable : endpoints' = Merge(fetched, held)

\* initialize(config), which nothing forbids while the proxy runs: the fetch is
\* skipped only if it is switched off and the configuration has endpoints.
Initialize(configured, auto) ==
  /\ epc = "idle"
  /\ IF auto \/ configured = <<>>
       THEN FetchRemoteEndpoints(configured)
       ELSE endpoints' = configured
  /\ UNCHANGED <<epc, idx, running, vpnTunnel, server, tunnelVars>>

\* start(): refused while running.
Start ==
  /\ epc = "idle" /\ ~running
  /\ epc' = "setupVPN"
  /\ UNCHANGED <<endpoints, idx, running, vpnTunnel, server, tunnelVars>>

\* setupVPN() up to the loop: a new tunnel object replaces the pointer
\* whatever it held, and an empty list is fetched once more, after which the
\* second test for an empty list (line 168) cannot fail.
SetupVPN ==
  /\ epc = "setupVPN"
  /\ vpnTunnel' = TRUE /\ connected' = FALSE /\ processPid' = NoPid
  /\ IF endpoints = <<>>
       THEN FetchRemoteEndpoints(endpoints)
       ELSE UNCHANGED endpoints
  /\ idx' = 1
  /\ epc' = "attempt"
  /\ UNCHANGED <<running, server, tpc, job, polls, ret, auth, kernel>>

\* The loop calls connect() on the next endpoint.
Attempt ==
  /\ epc = "attempt"
  /\ Connect
  /\ epc' = "connecting"
  /\ UNCHANGED <<endpoints, idx, running, vpnTunnel, server>>

\* Mutant: the loop counter never moves.
NextEndpointMutant == idx

NextEndpoint == idx + 1

\* Mutant: an exhausted list is taken for a session.
AfterConnectMutant ==
  IF ret # "ok" /\ idx < Len(endpoints) THEN "attempt" ELSE "setupProxy"

\* Where start() goes on after connect(): a failed setupVPN returns at once,
\* without cleanup().
AfterConnect ==
  IF ret = "ok" THEN "setupProxy"
  ELSE IF idx < Len(endpoints) THEN "attempt" ELSE "idle"

\* connect() has returned.
Attempted ==
  /\ epc = "connecting" /\ tpc = "idle"
  /\ epc' = AfterConnect
  /\ idx' = IF epc' = "attempt" THEN NextEndpoint ELSE idx
  /\ UNCHANGED <<endpoints, running, vpnTunnel, server, tunnelVars>>

\* Mutant: a failed setupProxy returns without cleanup().
AfterBindFailureMutant == "idle"

AfterBindFailure == "cleanup"

\* setupProxy(), then running_ = true; the socket may be refused.
SetupProxy ==
  /\ epc = "setupProxy"
  /\ \/ server' = "listening" /\ running' = TRUE /\ epc' = "idle"
     \/ server' = "created" /\ epc' = AfterBindFailure /\ UNCHANGED running
  /\ UNCHANGED <<endpoints, idx, vpnTunnel, tunnelVars>>

\* Mutant: stop() does not look at running_.
StopMutant ==
  /\ epc = "idle"
  /\ running' = FALSE
  /\ epc' = "cleanup"
  /\ UNCHANGED <<endpoints, idx, vpnTunnel, server, tunnelVars>>

\* stop(); the destructor calls it too.  Without a running proxy it does nothing.
Stop ==
  /\ epc = "idle" /\ running
  /\ running' = FALSE
  /\ epc' = "cleanup"
  /\ UNCHANGED <<endpoints, idx, vpnTunnel, server, tunnelVars>>

\* Mutant: the server is left alone.
DropServerMutant == UNCHANGED server

DropServer == server' = "none"

\* cleanup(): the server is stopped and deleted ...
CleanupServer ==
  /\ epc = "cleanup"
  /\ DropServer
  /\ epc' = "dropTunnel"
  /\ UNCHANGED <<endpoints, idx, running, vpnTunnel, tunnelVars>>

\* ... and ~OpenVPNTunnel disconnects.
CleanupTunnel ==
  /\ epc = "dropTunnel"
  /\ IF vpnTunnel
       THEN Disconnect /\ epc' = "dropping"
       ELSE epc' = "idle" /\ UNCHANGED tunnelVars
  /\ UNCHANGED <<endpoints, idx, running, vpnTunnel, server>>

TunnelDeleted ==
  /\ epc = "dropping" /\ tpc = "idle"
  /\ vpnTunnel' = FALSE
  /\ epc' = "idle"
  /\ UNCHANGED <<endpoints, idx, running, server, tunnelVars>>

\* The calling thread goes on inside connect() or disconnect().
InTunnel == TunnelStep /\ UNCHANGED proxyVars

\* The program is killed: no destructor runs, the children are orphans, the
\* dead ones are reaped by init, the files in /tmp stay.
Killed ==
  /\ epc' = "idle" /\ endpoints' = <<>> /\ idx' = 1
  /\ running' = FALSE /\ vpnTunnel' = FALSE /\ server' = "none"
  /\ connected' = FALSE /\ processPid' = NoPid
  /\ tpc' = "idle" /\ job' = "none" /\ polls' = 0 /\ ret' = "none"
  /\ proc' = [p \in Pids |-> IF proc[p] = "zombie" THEN "free" ELSE proc[p]]
  /\ term' = { p \in term : Alive(p) }
  /\ children' = {}
  /\ UNCHANGED <<auth, otherTun>>

------------------------------------------------------------------------
ProxyStep ==
  \/ SetupVPN \/ Attempt \/ Attempted \/ SetupProxy
  \/ CleanupServer \/ CleanupTunnel \/ TunnelDeleted \/ InTunnel

Next ==
  \/ \E configured \in Configured, auto \in BOOLEAN : Initialize(configured, auto)
  \/ Start \/ Stop \/ ProxyStep \/ Killed
  \/ Environment /\ UNCHANGED proxyVars

Spec == Init /\ [][Next]_vars

\* The calling thread runs, and an openvpn that was sent SIGTERM ends.
FairSpec ==
  /\ Spec
  /\ WF_vars(ProxyStep)
  /\ \A p \in Pids : WF_vars(p \in term /\ Exit(p) /\ UNCHANGED proxyVars)

------------------------------------------------------------------------
(* Properties. *)

\* Every variable stays within the values the code gives it, and the pointer to
\* the tunnel is set wherever it is used.
TypeOK ==
  /\ TunnelTypeOK
  /\ epc \in {"idle", "setupVPN", "attempt", "connecting", "setupProxy",
              "cleanup", "dropTunnel", "dropping"}
  /\ endpoints \in Seq(Endpoint)
  /\ idx \in Nat \ {0}
  /\ running \in BOOLEAN
  /\ vpnTunnel \in BOOLEAN
  /\ server \in {"none", "created", "listening"}
  /\ epc \notin {"idle", "setupVPN"} => vpnTunnel

\* Clients are accepted only while the tunnel object holds a session: start()
\* opens in that order and cleanup() closes in the other
\* (emergency_proxy.cpp:99-111, 205-216).
ServesOnlyConnected == server = "listening" => connected /\ vpnTunnel

\* Whenever the caller is outside start() and stop(), either everything is up
\* or nothing is held: no path out of start(), stop() or a kill leaves a server,
\* a session or a tracked process to a proxy that does not run.
AllOrNothing ==
  epc = "idle" =>
    IF running
      THEN server = "listening" /\ connected /\ processPid # NoPid
      ELSE server = "none" /\ ~connected /\ processPid = NoPid

\* connect() never refuses an endpoint because of the attempt before, so that
\* failover really tries each one (openvpn_tunnel.cpp:40, emergency_proxy.cpp:182).
AttemptNotRefused == epc = "attempt" => ~connected /\ processPid = NoPid

\* An openvpn that runs although this program neither tracks it nor has told it to
\* stop: an orphan, or a child that was forgotten.
Unasked(p) == Alive(p) /\ p # processPid /\ p \notin term

\* Whatever attempts fail and sessions end, and whatever earlier programs have left
\* running, no step of start() or stop() lets go of an openvpn that was not told to
\* stop; only a kill of the program does, which orphans the one it tracked
\* (emergency_proxy.cpp:156, 212, openvpn_tunnel.cpp:55-81).
OnlyKillOrphans ==
  [][\A p \in Pids : Unasked(p)' /\ ~Unasked(p) => Killed]_vars

\* Whatever is fetched next, and whatever configuration and fetches have left in
\* config_.endpoints, even if more endpoints are listed after it, perhaps again:
\* the merged list starts with the fetched endpoints, forgets and invents none,
\* and adds each other one once, in the order held (emergency_proxy.cpp:38-63).
MergeMeaning ==
  \A fetched \in Fetchable, more \in Configured :
    LET held == endpoints \o more
    IN  Merges(fetched, held, Len(held), Merge(fetched, held))

\* A session that start() undoes or stop() ends takes its credentials file along
\* (openvpn_tunnel.cpp:83-97 through emergency_proxy.cpp:212-215).
CleanupRemovesCredentials == [][TunnelDeleted => ~auth]_vars

\* start() and stop() return, whatever the openvpn processes do.
CallsReturn == epc # "idle" ~> epc = "idle"

\* What start() or stop() still takes once the list is there: an attempt for
\* each endpoint after the one at idx, then the server, then a cleanup.
AttemptSteps == 7 + 2 * MaxPolls
More == IF idx < Len(endpoints) THEN Len(endpoints) - idx ELSE 0
StepsLeft ==
  CASE epc = "idle" -> 0
    [] epc = "dropping" -> 1 + CallLeft
    [] epc = "dropTunnel" -> 5
    [] epc = "cleanup" -> 6
    [] epc = "setupProxy" -> 7
    [] epc = "connecting" -> 8 + CallLeft + More * AttemptSteps
    [] OTHER -> 7 + AttemptSteps + More * AttemptSteps

\* Within start() and stop() the calling thread never goes round in a circle: each
\* of its steps leaves less to do, whatever endpoint it is at and whatever the
\* processes do meanwhile (emergency_proxy.cpp:176, openvpn_tunnel.cpp:52).
CallsAdvance ==
  [][epc \notin {"idle", "setupVPN"} =>
       \/ StepsLeft' < StepsLeft
       \/ StepsLeft' = StepsLeft /\ UNCHANGED <<epc, tpc>>]_vars

Lifecycle == INSTANCE ProxyLifecycle WITH
  phase <- IF epc = "idle" THEN (IF running THEN "running" ELSE "stopped")
           ELSE IF epc \in {"setupVPN", "attempt", "connecting", "setupProxy"}
                THEN "starting" ELSE "stopping",
  session <- connected,
  serving <- server = "listening"

\* The proxy implements ProxyLifecycle.
ImplementsLifecycle == Lifecycle!Spec

\* "Poll to verify that OpenVPN completed its handshake and was given a virtual
\* IP" (comment at openvpn_tunnel.cpp:50): a connect() of start() that returns
\* success has given a tunnel to the process of this attempt, whatever became of
\* the attempts before.  Other VPN clients and orphans of killed programs, whose
\* interfaces would mislead it as well, are left out.
ConnectedIsOwnTunnel ==
  [][/\ connected' /\ ~connected
     /\ ~otherTun /\ \A p \in Pids \ children : ~Alive(p)
     => proc[processPid] = "up"]_vars

\* "All traffic goes through the encrypted OpenVPN tunnel" (README.md:204): as
\* long as clients are accepted some tunnel is up.
TrafficOnlyThroughTunnel == server = "listening" => TunnelIP
=======================================================================
