# emergency-connect-proxy: specification and proofs

TLA+ modules for the emergency proxy: a program that gets the addresses of
emergency VPN endpoints, brings up an openvpn process against the first one
that works, and then serves an HTTP/SOCKS5 proxy on a local port. Paths below
are relative to the repository root.

The modules follow the POSIX build. Run a configuration with
`tlc -config X.cfg M`, check a proof module with `tlapm M.tla`.

## 1. The system

```
 run_in_netns.sh ──► main.cpp ──► EmergencyConnectProxy ──► EmergencyConnectImpl (resolver, fallback list)
                       │              │        │                 │ detached worker, callback
                 ConfigParser         │        └──► OpenVPNTunnel ──► ProcessManager ──► openvpn child
                                      └──► ProxyServer ──► accept thread ──► detached handler per client
```

### Endpoint provider: `src/wsnet/emergency_connect_impl.cpp`, `WSNetCancelableCallback.h`
- State: per request a cancel flag, shared by the caller's handle and the
  worker; for a synchronous request also mutex, condition variable, `done` and
  the result list, all in the caller's stack frame.
- Operations: `getIpEndpoints` (spawns a detached thread that resolves, builds
  the list, tests the flag, calls back), `cancel`, `getIpEndpointsSync` (the same
  with a callback that fills the frame, a bounded wait, then cancel and fallback).
- Hard: the flag is tested some time before the callback is called; the frame
  may be gone when the callback runs; the deadline races with the answer.
- Correct if: what comes back always holds the fallback endpoints; caller and
  callback agree on the frame; a stored answer is used; the caller returns; a
  cancelled request does not call back.

### VPN tunnel: `src/openvpn_tunnel.cpp`, `src/utils/process.cpp`
- State: `connected_`, `processPid_`; two files in /tmp; in the kernel the child,
  its zombie, its tun interface.
- Operations: `connect` (write files, fork, poll up to 80 times whether the child
  is gone or an address is there), `disconnect` and the destructor (SIGTERM, one
  `waitpid(WNOHANG)`, unlink the files).
- Hard: processes outlive the calls that stop them; zombies; any tun interface
  counts; the fork, the exec or the login may fail.
- Correct if: only own, unreaped children are signalled; none is let go of without
  being told to stop; the fields agree between calls; the calls return; success means that
  this attempt's process has a tunnel, and an early exit is noticed.

### Controller: `src/emergency_proxy.cpp`
- State: `config_.endpoints`, `running_`, the owned tunnel and server.
- Operations: `initialize`, `fetchRemoteEndpoints` (always called synchronously),
  `start` (tunnel by trying the endpoints in turn, then server), `stop`,
  `cleanup` (server, then tunnel).
- Hard: partial failure of `start`; a tunnel object replaced without being
  deleted; a session that dies later; the program killed at any point.
- Correct if: clients are served only while a session is held; outside the calls
  everything or nothing is held; every endpoint is really tried; merging loses
  and doubles no endpoint.

### Proxy server: `src/proxy_server.cpp`
- State: `running_` (atomic), `serverSocket_`, the accept thread; the process's
  descriptor table; per handler a client and perhaps a remote descriptor, a request
  and the bytes under way.
- Operations: `start`, `stop`, delete; accept loop; per client: first read,
  dispatch to CONNECT, SOCKS5 or plain HTTP, dial, answer, relay, close.
- Hard: three kinds of threads, one descriptor table whose numbers are reused;
  `accept` on a blocking listener after `select`; detached handlers that outlive
  the object; requests cut by `recv`; short and blocking `send`; peers that finish,
  close or reset at any time; SIGPIPE.
- Correct if: every descriptor has exactly one holder; the accept thread never
  outlives its listener; `stop` returns; waiting clients are accepted; handlers
  use a live object; what is relayed arrives in order and, towards the client,
  complete; a relay ends when it should.

### Command line and configuration file: `src/main.cpp`, `src/utils/config.cpp`
- State: option variables, the parsed file (one flat map), `g_running`.
- Operations: read environment, command line and file, build the `ProxyConfig`,
  carry out one command; SIGINT and SIGTERM clear `g_running`.
- Hard: four sources for one value; the file's nesting is ignored; a word may be no
  number, a number no port; a signal before the handlers are set, or during `start`.
- Correct if: the value meant reaches the controller; a signal ends the program and
  never one that holds a session; the exit status tells the truth.

### Namespace script: `scripts/run_in_netns.sh`
- State: the host: namespace, veth pair, NAT rules, forwarding, DNS file; openvpn.
- Operations: thirteen commands under `set -e`, the program in the foreground, and
  `cleanup` as the trap of EXIT, INT and TERM.
- Hard: any command may fail, those of `cleanup` unheard (`|| true`); bash runs a
  trap and then *goes on*; a signal in `cleanup` runs it again inside; SIGKILL; the
  next run meets what is left.
- Correct if: a run leaves the host as it was; the program never runs half
  isolated; Ctrl-C ends the script.

### Not modelled
- `WSNet` singleton (`src/wsnet/WSNet.cpp`): an instance behind a mutex, and an
  unlocked `initialize`. `main` initializes before there are threads and nobody
  calls `cleanup`: in this program it is a constant.
- `fetchRemoteEndpoints(true)`: the repository has no call of it. Its answer would
  move-assign `config_.endpoints` from a detached worker without a lock
  (`emergency_proxy.cpp:62`), and so free the vector through which `setupVPN` holds a
  reference (lines 176-182): undefined behaviour, which no step
  of a model stands for.
- What `--stop` and `--status` are for. They ask the controller of their own, new
  process, which never ran: `--stop` answers 0 and the running proxy goes on, against
  `README.md:47, 102`. The model has this step (`OneShot`), but no second program.
- `Logger`: a shared stream without a lock; it only writes, and no decision of the
  program reads what it keeps.
- `NetworkUtils`, `StringUtils`: stateless, without callers.
- The text of hosts, ports and configuration files, the Windows build.
- The openvpn processes of other users of the host, which the `pkill` at
  `run_in_netns.sh:46` ends with the program's own, since a network namespace is no
  PID namespace.

PROJECT.json lists all hazards found, each at its line, with the properties
that cover it or the reason why none does.

## 2. Modules

| module | models | interacts through |
|---|---|---|
| `EndpointFetch` | endpoint provider | returns the lists of `Fetchable` in `EmergencyProxy` |
| `EndpointMerge` | merging of a fetched into the held list: `Add`, the loop's body, and `Merge`, the loop | operator `Merge` |
| `OpenVPNTunnel` | tunnel, process calls, kernel | extended by `EmergencyProxy` |
| `EmergencyProxy` | controller composed with the tunnel and the merge | INSTANCE of `ProxyLifecycle` |
| `ProxyLifecycle` | abstract: what the controller promises | |
| `ProxyServer` | listener, accept thread, handlers, descriptors | the server of the controller |
| `ProxyConnection` | one handler with its bytes and its two peers | a handler of `ProxyServer` |
| `MainProgram` | `main` with `ConfigParser`, signals | INSTANCE of `ProxyLifecycle`, whose steps it calls |
| `NetnsScript` | the script and what it changes on the host | ends on Ctrl-C because `MainProgram` does (`SignalEndsProgram`) |

`MC_*` give the small instances, `*Proofs` hold theorems and proofs, `Loops` the lemmas
about induction and recursive functions that two of them need. A
definition whose name ends in `Mutant` is the definition after it with a
plausible bug; each property was seen to fail with at least one of them.

Correspondence with the code:

- **EndpointFetch.** One function per variable, indexed by request. `worker` and
  `caller` are the program counters of the two threads of a request; `mtx`,
  `notified`, `done`, `result` are the frame. `wait_for` is `Lock` (first test
  of the predicate), `Wake` (after a notification or the deadline: the mutex, then
  the last test) and `Expire` (the clock). A spurious wake-up blocks again and
  is a stuttering step. The frame dies in two steps, `Unlock` and `Return`, the
  order of the destructors; a callback that touches it afterwards goes to
  `"stray"`, where nothing more is said, since the behaviour is undefined. The
  resolver returns any set of addresses, in any order `std::shuffle` may produce.
- **OpenVPNTunnel.** `tpc` is the place of the calling thread. The sleep of 100
  ms is the gap between `PollRunning` and the previous step. `proc` holds
  the process table: `"starting"`, `"up"` (its tun interface has an address),
  `"zombie"`, `"free"` (the number may be given out again). `kill(pid, 0)` finds
  anything but `"free"`, which is what the kernel does. Credentials and config file
  are written and removed together; `auth` stands for both. The content of
  the files is left out.
- **EmergencyProxy.** Extends the tunnel, so the steps inside `connect()` and the
  destructor are the tunnel's own (`InTunnel`). The synchronous fetch is one
  step, with any list of `Fetchable`; that such a list is never empty is
  `AnswerUsable` of `EndpointFetch` (assumption `ProxyAssumption`). An early
  return of `initialize`, `start` or `stop` changes nothing and is a stuttering
  step. The server is `"none"`, `"created"` or `"listening"`; its threads are in
  `ProxyServer`. `Killed` is SIGKILL, SIGPIPE or an uncaught exception: no
  destructor, orphans, files stay, init reaps.
- **ProxyServer.** `owner` is the thread inside `start()`, `stop()` and the
  destructor, `acceptor` the accept thread, `handler[h]` the detached threads. A
  handler slot is free again once its thread is done. `open` is the
  descriptor table, and a new descriptor may be any number that is not open.
  `RunningSeenBy` is `running_`, or anything once the object is deleted.
  `recv` and `send` succeed or fail; `BrokenPipe` is the SIGPIPE nobody ignores.
  Calls that wait for a peer wait as long as their step is not taken. `ProgramEnds`
  is the end of the process, by SIGPIPE or by a thread that cannot be made.
- **ProxyConnection.** `inq` and `outq` are the kernel's buffers, `got` what a peer has
  read. `recv` brings any non-empty part of `inq`, `send` moves `buf` in parts as
  far as `Capacity` goes and blocks, or for the remote socket runs into its time-out,
  while the peer does not read. `peer[s]` tells the ends apart that matter to the
  handler: half closed, closed (data is answered by a reset), reset (the next `send`
  fails) and `"pipe"` (it is fatal). A unit stands for any run of bytes, a request for two to
  four units, cut where the code tells the parts apart. Closing the client's
  socket is the end: what a peer reads after that is not said.
- **MainProgram.** One step per argument, then one per part of `main`. Words are
  opaque; `Stoi` is the partial map from words to numbers, and the port is taken mod
  65536. A file is the sequence of its leaves, under their bare keys as the parser
  takes them. `phase`, `session` and `serving` move by the actions of
  `ProxyLifecycle`. `Crash` is any death other than by a signal `main` handles.
- **NetnsScript.** `at` is the next command of the setup, `cleaning` the stack of
  calls of `cleanup`. A trapped signal is `pending` until the foreground command is over.
  Ctrl-C may also end the command under way, TERM to the script does not. A command
  of `cleanup` works, or fails and goes on to the next; `resisted` keeps the commands
  whose last failure left something behind. It is history: no step depends on it.
- **ProxyLifecycle.** Three variables: the phase, whether a session is held,
  whether clients can connect. `EmergencyProxy` maps `epc` and `running` to the
  phase, `connected` to the session, a listening server to serving.

## 3. What is checked

| run | module and bounds | shows |
|---|---|---|
| fetch | `EndpointFetch`: 2 requests, 1 resolvable address, 2 fallbacks | `AnswerUsable`, `NoLateCallback`, `AnswerNotDiscarded`, `NoLostWakeup`, `EarlyCancelIsFinal`, `SyncReturns` |
| fetch_cancel | `EndpointFetch`: 1 request | violated: `CanceledNotInvoked` |
| proxy | `EmergencyProxy`: 2 pids, 2 polls, 3 endpoints, other tuns | `ServesOnlyConnected`, `AllOrNothing`, `AttemptNotRefused`, `NoUnsignalledStray`, `TracksOwnChild`, `MergeMeaning`, `CleanupRemovesCredentials`, `OnlyKillOrphans`, `ImplementsLifecycle`, `CallsAdvance`, `CallsReturn`, `StrayEventuallyGone` |
| proxy_traffic | `EmergencyProxy`: 2 pids, no other tun | violated: `TrafficOnlyThroughTunnel` |
| proxy_own | `EmergencyProxy`: 2 pids, 1 poll, no other tun | violated: `ConnectedIsOwnTunnel` |
| tunnel_exit | `OpenVPNTunnel`: 3 pids, 2 polls, no other tun | violated: `ExitNoticed` |
| server | `ProxyServer`: 2 handlers, 3 descriptors, queue of 1, 2 servers | `DescriptorsAccounted`, `AcceptorHasListener`, `StopReturns`, `PendingServed` |
| server_delete | the same, queue of 2 | violated: `HandlersUseLiveServer` |
| connection | `ProxyConnection`: 2 units of payload each way, buffers of 1 | `UpstreamIntact`, `DownstreamIntact`, `ResponseComplete`, `StopEndsRelay`, `RemoteEndEndsRelay` |
| main | `MainProgram`: every sequence of up to 3 of 11 options, 3 environments, 3 files | `ConfigMeaning`, `ExitTellsTruth`, `SignalSparesHolder`, `SignalEndsProgram` |
| netns | `NetnsScript`: 2 runs of the script, 2 signals each | `LeftoversResisted`, `ProxyFullyIsolated`, `InterruptEndsScript` |
| netns_host | `NetnsScript`: 1 run, 1 signal | violated: `HostUntouched` |

The passing runs also check the type invariant. All
the properties of a run are checked in one exploration, under the fairness below;
no symmetry is used, since it is not sound for liveness.

Why the bounds are enough to be interesting:

- `Requests`: requests share nothing in the code; two show that they do not get
  in each other's way in the model.
- `Pids`: two allow a tracked child and a dying predecessor, and a number that is
  reused once a kill has let init reap it. With all
  numbers taken, `fork` can only fail; it may fail anyway.
- `MaxPolls` (80 in the code): one or two polls already separate "gone", "address"
  and "out of polls", and the loop has no other memory.
- `Endpoint`: three, so that a held list has endpoints that are fetched, endpoints that
  are not, and, as `MergeMeaning` lists the configured ones again, repetitions.
- `Fds`: with two handlers the most that can be held is five; three make "no
  descriptor left" reachable while a listener, a client and a remote socket are
  open, and let a number move from one thread to another.
- `MaxPending` (128 in the code) and `MaxStarts`: two servers are the least that
  let an old handler meet a new server.
- `Capacity` and `Payload`: a buffer of one unit and two units to send make every
  `send` of more than one come in parts, block, or be cut short, and let the
  cut fall inside a `recv`.
- Options: three, with their values, are the least that put a flag, a value and a
  file together; a repeated option, a missing value, an option as a value and a
  port that is no number or too large are among the eleven.
- `MaxRuns`, `MaxSignals`: a first run, killed or interrupted in its cleanup, with
  commands that fail anywhere, and one that meets what it left. Three runs were
  checked once and hold as well. The proofs of section 4 need no bound.

Deadlock is checked for the tunnel and the controller, which can always be called
again. It is not for a fetch whose requests are all done, for a server after its
last start, for a connection or a program that has ended, and for a script
after its last run: these really stop.

### Findings

Six statements of the repository that the code does not keep; the traces are short.

1. *A cancelled callback is invoked* (`tests/test_wsnet.cpp:52`): cancel after
   the test at `emergency_connect_impl.cpp:183`, before the call at 190.
   With `getIpEndpointsSync`, which cancels its own request at line 213 and
   returns, the callback then uses a dead stack frame.
2. *Connected through the previous attempt's tunnel* (comment at
   `openvpn_tunnel.cpp:50`): within one `start()`, the first endpoint's attempt times
   out, its process gets SIGTERM and is forgotten; `setupVPN` tries the next
   endpoint, the old process's interface gets its address, and `connect()` succeeds
   for a process that has no tunnel. Neither an orphan of a killed program nor
   another VPN client is needed; the property leaves both out.
3. *An early exit is not noticed* (`utils/process.h:14`, message at
   `openvpn_tunnel.cpp:56`): the dead child is a zombie and `kill(pid, 0)` finds it.
4. *Traffic outside the tunnel* (`README.md:204`): openvpn dies after `start()`,
   and the server goes on.
5. *Handlers outlive the server* (`main.cpp:241`): a relaying handler reads
   `running_` after `stop()` and delete.
6. *The host is not left untouched* (`scripts/run_in_netns.sh:60`, also line 7 and
   `README.md:117`): line 101 switches IPv4 forwarding on and nothing switches it off
   again, in a run without any failure or signal.

What came up besides, without a run of its own:

- the relay loses what `send` did not take (`short` in `UpstreamIntact`) and
  what arrives together with a CONNECT request or apart from its beginning (`parsed`);
- the last `"port"` of a file counts, whatever object it stands in, so that
  `--config config/default.conf` listens on an endpoint's 1194 and not on the 8888 of
  `config/default.conf:3` and `README.md:108, 133` (`Store`, `ConfigMeaning`);
- `--port 8888` cannot override a file (`ConfigMeaning`);
- `--stop` answers 0 and stops nothing (section 1);
- `--no-auto-fetch` (`main.cpp:30`) has no effect: no option brings endpoints, and
  `initialize` fetches whenever there are none (`emergency_proxy.cpp:26`).

### Fairness

- `EndpointFetch`: both threads of a request run, the clock advances. Nothing is
  assumed of the resolver, since `getaddrinfo` may block for as long as it likes;
  `SyncReturns` holds all the same.
- `EmergencyProxy`: the calling thread runs. `StrayEventuallyGone` alone also needs
  that a process with SIGTERM pending ends, which is openvpn's own behaviour.
- `ProxyServer`: `stop()` goes on once called, and the accept thread runs
  (`select` has a time-out of 200 ms). Nothing is assumed of handlers and
  clients. `PendingServed` leaves out the states in which every handler slot is taken;
  the code has no limit of threads, the model needs one.
- `ProxyConnection`: the handler runs (`select` has a time-out, the remote socket a
  send time-out), and nothing else is assumed, neither of the client nor of the remote
  host. The client's socket has no send time-out, so that a client that neither reads
  nor ends holds its handler in a `send` for good. `StopEndsRelay` and
  `RemoteEndEndsRelay` say that a relay ends unless just that happens (`HeldByClient`).
- `MainProgram`: the thread of `main` runs, `start` and `stop` return (`CallsReturn`).
- `NetnsScript`: commands end, successfully or not, and the program ends after Ctrl-C
  (`SignalEndsProgram`), not after a TERM to the script, which nobody passes on.

## 4. What is proved

tlapm checks, for every value of the constants (any number of requests, processes,
polls, endpoints, handlers, descriptors, payload units, options, runs, signals):

| module | theorems |
|---|---|
| `EndpointFetchProofs` | `FetchTypeCorrect`, `FetchNoLateCallback`, `FetchAnswerNotDiscarded`, `FetchNoLostWakeup`, `FetchAnswerUsable`, `FetchEarlyCancelIsFinal` |
| `OpenVPNTunnelProofs` | `TunnelTypeCorrect`, `TunnelTracksOwnChild`, `TunnelLeavesNoStray`, `TunnelFieldsAgree` |
| `EmergencyProxyProofs` | `ProxyTypeCorrect`, `ProxyServesOnlyConnected`, `ProxyAllOrNothing`, `ProxyAttemptNotRefused`, `ProxyLeavesNoStray`, `ProxyOnlyKillOrphans`, `ProxyTracksOwnChild`, `ProxyCleanupRemovesCredentials`, `ProxyMergeMeaning`, `ProxyCallsAdvance`, `ProxyImplementsLifecycle` |
| `ProxyServerProofs` | `ServerTypeCorrect`, `ServerDescriptorsAccounted`, `ServerAcceptorHasListener`, `ServerStopAdvances`, `ServerJoinNotStuck` |
| `ProxyConnectionProofs` | `ConnectionTypeCorrect`, `ConnectionDownstreamIntact`, `ConnectionResponseComplete`, `ConnectionUpstreamIntact`, `ConnectionStopAdvances`, `ConnectionRemoteEndAdvances` |
| `MainProgramProofs` | `MainTypeCorrect`, `MainConfigMeaning`, `MainExitTellsTruth`, `MainSignalSparesHolder` |
| `NetnsScriptProofs` | `ScriptTypeCorrect`, `ScriptLeftoversResisted`, `ScriptProxyFullyIsolated` |

Assumptions: `FetchAssumption` (the address sets are finite, there is a fallback),
`TunnelAssumption` (-1 is no pid), `ProxyAssumption` (what is configured and fetched are
finite sequences of endpoints, and a fetch is never empty),
`ServerAssumption` (-1 is no descriptor), `ConnectionAssumption` (payloads are finite
sequences, the kernel buffers at least a unit), `MainAssumption` (command lines and files
are finite sequences; `std::stoi` reads back what `std::to_string`
writes), `ScriptAssumption` (the bounds are numbers).

The arguments:

- **Loops.** No prover here can use an induction principle that takes an operator.
  `Least` gets the least-number principle from the well-foundedness of `<`, which speaks of
  a set, and `Inductive` turns it into: a set of places of `0..n` that has 0 and the successor
  of each of its members below n is all of `0..n`. `Iteration` builds from it the values of a loop, pass
  by pass, so that a recursive function is known to satisfy the equation it is defined by. The
  merge loop and the parser are such functions, and their proofs have a loop invariant as
  one would write it beside the C++.
- **Fetch.** `FetchInv` says where the two threads of a request can be together:
  which of them holds the mutex, and that `done` is set exactly from the store
  in the callback on. From that a caller that saw `done` finds the callback
  over, because it got the mutex after the callback released it. For
  `FetchAnswerUsable`, `UsableInv` adds that every list stored anywhere
  offers all fallbacks; the lemma `OrderCovers` is the pigeonhole step that a shuffle
  reaches every element. `FetchEarlyCancelIsFinal` rests on a stable fact: a cancelled request
  whose worker is before the test stays cancelled, and the test can only drop it.
- **Tunnel.** The properties are not inductive alone: `CallShape` ties the
  program counter to the fields (in the poll loop a process is tracked and the
  object is not connected; while stopping, a process is tracked). With it, a pid is
  given up only after SIGTERM or after it was reaped.
- **Controller.** `ProxyInv` keeps the tunnel's invariant (`TunnelPart`: each
  step is a step of the tunnel, a stutter, or a kill) and says what is held at each
  place of `start()` and `stop()`. `NewTunnelLosesNothing` is the reason
  why the overwritten pointer at `emergency_proxy.cpp:156` is harmless to the
  session: the object it drops has none. `NoUnsignalledStray` speaks of the children of
  this program, and a kill leaves it none; what a kill leaves on the host is the subject
  of `OnlyKillOrphans`, over all processes: `TunnelStepAsks` goes through the steps that
  clear `processPid`, each of which comes after SIGTERM or after the process is gone.
- **Merge.** `Merges(fetched, held, n, list)` is the invariant of the loop at
  `emergency_proxy.cpp:50` after n endpoints (`MergePass`: a pass keeps it), and for
  `n = Len(held)` it is what `MergeMeaning` claims.
- **Refinement.** `LifecycleInit` and `LifecycleStep`: each step of the composition
  is a step of `ProxyLifecycle` or a stutter under the mapping.
- **Server.** `ServerInv` lists, for each place of each thread, which descriptors it
  holds. The accept thread is tied to the owner: it runs only from `start()`
  to the `join()`.
- **Connection.** `Relayed` is a conservation law: while the client reads, what it was
  handed, what `send` still holds for it and what is unread from the remote host make
  up, in this order, the answer and all the remote host has sent. `recv`, each part of a
  `send` and a peer's own reads move units along this line and never off it. A client
  that is gone breaks the law, for `send` drops units then; `NothingElse` says what is
  left of it, and holds on because nothing is handed on any more.
  Upstream units do get lost, so that the law is one of places: `UpInv` says that the units in
  hand and those unread stand together, right after the first `Behind` units of the
  client's stream, and that what was handed on is what is left of those. What is dropped leaves a gap
  before `Behind` that never closes. Only while the request was read exactly and no
  `send` was cut short (`Exact`) does the part handed on join the part in hand, without
  a gap; that is the condition in `UpstreamIntact`.
- **Program.** Before the handlers are set the controller is stopped, and it holds
  something only while `main` is inside `start`, waits, or is inside `stop`;
  that ties `pc` to `phase`, and `asked` to leaving the wait. For `MainConfigMeaning`,
  `Parsing` says that after n arguments each option variable has the last value given for it among
  them, or the environment's, and that the next argument stands on its own: it is no value
  of the option before it (`OptionPlaces`). `ParseFileLast` says that the flat map has the
  last value of each key, and `Merged` carries both over the reading of the file; a port
  goes through a number and back there, which is where `MainAssumption` is used.
- **Script.** Not inductive are the two claims alone, since an interrupt takes the
  script back to a host that fits no place of the setup. `SettingUp` says that
  the host is what the commands before `at` made of it, *or the namespace is gone*,
  *or its deletion failed*;
  in the second case no command that needs it succeeds, and the program is not
  launched. `CleaningUp` says of what the innermost `cleanup` has passed that it is
  undone or in `resisted` (`UndoneUpTo`, `ResistedUpTo`); it is claimed only while no
  signal is pending, because an interrupted
  command may be skipped, and the next trap starts anew. `Counts` bounds the rules.

Of liveness the provers reach the part that is safety: that the threads do not go
round in a circle. `CallLeft` and `StepsLeft` count what `connect()`, `start()` and
`stop()` have left to do, and each step of the calling thread lowers the count
(`ProxyCallsAdvance`; with it goes `CallsReturn`, as long as the thread runs). `StopLeft` does the same for `ProxyServer::stop()` and the accept
thread together, and `ServerJoinNotStuck` says that the one is never blocked while the other
waits for it. For a relay after `stop()`, or after the end of the remote host,
the count is `AfterStop`, or the unread data with `UntilRemote`, and next to it what is left
of the `send()` under way; a `send()` to the client that stays blocked is the exception of
`HeldByClient`. The measures of the server and of the relay are in their proof modules.

Only model-checked is liveness itself, which is out of the prover's reach: `SyncReturns`,
`CallsReturn`, `StrayEventuallyGone`, `StopReturns`, `PendingServed`, `StopEndsRelay`,
`RemoteEndEndsRelay`, `SignalEndsProgram`, `InterruptEndsScript`. Every invariant and every
action property of the passing runs is proved. The properties of the violated runs
are false.

## 5. What is left

1. The orphan openvpn of a killed program, whose interface the next run takes for its
   own (`emergency_proxy.cpp:10`): it is in the model, but what the repository promises
   of it no property states.
2. `ProxyServer` in place of the controller's abstract server, and its descriptors
   together with those of the tunnel.
3. Two programs that share the files in /tmp.
4. The end of the process under a detached worker (`--fetch-endpoints`), with the
   `WSNet` singleton and the `Logger` it uses.
5. A measure for the script after Ctrl-C, and for `main` after a signal, as for the other
   threads in section 4.
