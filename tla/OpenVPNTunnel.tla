------------------------- MODULE OpenVPNTunnel -------------------------
(***************************************************************************)
(* src/openvpn_tunnel.cpp over the process calls of src/utils/process.cpp   *)
(* (POSIX build).  One thread calls connect() and disconnect(); it forks an *)
(* openvpn child, polls until the child is gone, an address shows up on a   *)
(* tun interface, or the polls run out, and stops the child with SIGTERM    *)
(* and one waitpid(WNOHANG).  The kernel and the openvpn processes are the  *)
(* environment: between any two calls a process may exit or bring its       *)
(* interface up, also one that was told to stop long ago.                   *)
(***************************************************************************)
EXTENDS Naturals

CONSTANTS
  Pids,        \* process ids the kernel hands out
  NoPid,       \* processPid_ = -1
  MaxPolls,    \* polls per attempt (80 in the code)
  ForeignTun   \* whether tun interfaces of other programs come and go

ASSUME TunnelAssumption ==
  NoPid \notin Pids /\ MaxPolls \in Nat /\ ForeignTun \in BOOLEAN

VARIABLES
  connected,   \* connected_
  processPid,  \* processPid_
  tpc,         \* where the calling thread is inside connect/disconnect
  job,         \* which of the two it is in
  polls,       \* i of the polling loop
  ret,         \* what the last connect() returned
  auth,        \* the credentials file is in /tmp (the config file goes with it)
  proc,        \* per pid: "free", "starting", "up" (has a tun), "zombie"
  term,        \* pids with SIGTERM sent
  children,    \* pids forked by this program and not reaped
  otherTun     \* another program's tun interface is up

object == <<connected, processPid>>
kernel == <<proc, term, children, otherTun>>
tunnelVars == <<object, tpc, job, polls, ret, auth, kernel>>

Alive(p) == proc[p] \in {"starting", "up"}

\* kill(pid, 0): succeeds for any entry of the process table.
IsProcessRunning(p) == proc[p] # "free"

\* getTunnelIP(): the first address on any tun or utun interface.
TunnelIP == otherTun \/ \E p \in Pids : proc[p] = "up"

TunnelInit ==
  /\ connected = FALSE /\ processPid = NoPid
  /\ tpc = "idle" /\ job = "none" /\ polls = 0 /\ ret = "none"
  /\ auth = FALSE
  /\ proc = [p \in Pids |-> "free"] /\ term = {} /\ children = {}
  /\ otherTun = FALSE

Finish(value) == tpc' = "idle" /\ job' = "none" /\ ret' = value

------------------------------------------------------------------------
\* connect(): refused while connected; otherwise the config file is written.
Connect ==
  /\ tpc = "idle"
  /\ IF connected
       THEN Finish("failed")
       ELSE tpc' = "spawn" /\ job' = "connect" /\ ret' = "none"
  /\ UNCHANGED <<object, polls, auth, kernel>>

\* startProcess(): fork and exec.  Whether exec works shows only later.
Fork(p) ==
  /\ proc[p] = "free"
  /\ proc' = [proc EXCEPT ![p] = "starting"]
  /\ children' = children \cup {p}
  /\ processPid' = p

\* startOpenVPNProcess(): the credentials file, then the child.  A failed fork
\* leaves -1 in processPid_.
StartOpenVPNProcess ==
  /\ tpc = "spawn"
  /\ auth' = TRUE
  /\ \/ /\ \E p \in Pids : Fork(p)
        /\ tpc' = "poll" /\ polls' = 0
        /\ UNCHANGED <<job, ret>>
     \/ /\ processPid' = NoPid
        /\ Finish("failed")
        /\ UNCHANGED <<polls, proc, children>>
  /\ UNCHANGED <<connected, term, otherTun>>

\* Mutant: a failed attempt returns without stopping its process.
GiveUpMutant == Finish("failed")

\* stopOpenVPNProcess() on the failure paths of connect().
GiveUp == tpc' = "kill" /\ UNCHANGED <<job, ret>>

\* Mutant: one poll too many.
MorePollsMutant == polls <= MaxPolls

MorePolls == polls < MaxPolls

\* One iteration, first half: out of polls, or is the process still there?
PollRunning ==
  /\ tpc = "poll"
  /\ IF MorePolls /\ IsProcessRunning(processPid)
       THEN tpc' = "address" /\ UNCHANGED <<job, ret>>
       ELSE GiveUp
  /\ UNCHANGED <<object, polls, auth, kernel>>

\* Mutant: the loop counter never moves.
NextPollMutant == polls

NextPoll == polls + 1

\* Second half: an address on a tun interface means connected.
PollTunnelIP ==
  /\ tpc = "address"
  /\ IF TunnelIP
       THEN connected' = TRUE /\ Finish("ok") /\ UNCHANGED polls
       ELSE tpc' = "poll" /\ polls' = NextPoll /\ UNCHANGED <<connected, job, ret>>
  /\ UNCHANGED <<processPid, auth, kernel>>

\* Mutant: the signal is never sent.
SignalMutant(p) == UNCHANGED term

Signal(p) == term' = IF Alive(p) THEN term \cup {p} ELSE term

\* stopOpenVPNProcess(): kill(SIGTERM) ...
Kill ==
  /\ tpc = "kill"
  /\ Signal(processPid)
  /\ tpc' = "wait"
  /\ UNCHANGED <<object, job, polls, ret, auth, proc, children, otherTun>>

\* Mutant: the pid is kept after the process was stopped.
ForgetMutant == UNCHANGED processPid

Forget == processPid' = NoPid

\* ... then waitpid(WNOHANG), which reaps only a child that is gone already;
\* the pid is forgotten either way.
WaitNoHang ==
  /\ tpc = "wait"
  /\ IF proc[processPid] = "zombie"
       THEN /\ proc' = [proc EXCEPT ![processPid] = "free"]
            /\ children' = children \ {processPid}
            /\ term' = term \ {processPid}
       ELSE UNCHANGED <<proc, children, term>>
  /\ Forget
  /\ IF job = "connect"
       THEN Finish("failed")
       ELSE tpc' = "unlink" /\ UNCHANGED <<job, ret>>
  /\ UNCHANGED <<connected, polls, auth, otherTun>>

\* disconnect(), also called by the destructor.
Disconnect ==
  /\ tpc = "idle"
  /\ tpc' = IF processPid # NoPid THEN "kill" ELSE "unlink"
  /\ job' = "disconnect"
  /\ UNCHANGED <<object, polls, ret, auth, kernel>>

\* Mutant: the files are left behind.
RemoveFilesMutant == UNCHANGED auth

\* The files are removed only if a session had been established.
RemoveFiles == auth' = (auth /\ ~connected)

\* The rest of disconnect(), reached with or without a process.
FinishDisconnect ==
  /\ tpc = "unlink"
  /\ connected' = FALSE
  /\ RemoveFiles
  /\ tpc' = "idle" /\ job' = "none"
  /\ UNCHANGED <<processPid, polls, ret, kernel>>

------------------------------------------------------------------------
(* The kernel and the openvpn processes. *)

\* openvpn got an address; a pending SIGTERM may still be unread.
TunnelUp(p) ==
  /\ proc[p] = "starting"
  /\ proc' = [proc EXCEPT ![p] = "up"]
  /\ UNCHANGED <<object, tpc, job, polls, ret, auth, term, children, otherTun>>

\* The process ends (exec failure, refused, SIGTERM, crash) and its interface
\* with it.  A child stays in the process table; init reaps an orphan.
Exit(p) ==
  /\ Alive(p)
  /\ proc' = [proc EXCEPT ![p] = IF p \in children THEN "zombie" ELSE "free"]
  /\ term' = IF p \in children THEN term ELSE term \ {p}
  /\ UNCHANGED <<object, tpc, job, polls, ret, auth, children, otherTun>>

\* Another VPN client on the machine.
OtherTun ==
  /\ ForeignTun
  /\ otherTun' = ~otherTun
  /\ UNCHANGED <<object, tpc, job, polls, ret, auth, proc, term, children>>

TunnelStep ==
  \/ StartOpenVPNProcess \/ PollRunning \/ PollTunnelIP
  \/ Kill \/ WaitNoHang \/ FinishDisconnect

Environment == OtherTun \/ \E p \in Pids : TunnelUp(p) \/ Exit(p)

TunnelNext == Connect \/ Disconnect \/ TunnelStep \/ Environment

TunnelSpec == TunnelInit /\ [][TunnelNext]_tunnelVars

\* The calling thread runs; openvpn obeys SIGTERM.
TunnelFairness ==
  /\ WF_tunnelVars(TunnelStep)
  /\ \A p \in Pids : WF_tunnelVars(p \in term /\ Exit(p))

FairTunnelSpec == TunnelSpec /\ TunnelFairness

------------------------------------------------------------------------
(* Properties. *)

\* Every variable stays within the values the code gives it.
TunnelTypeOK ==
  /\ connected \in BOOLEAN
  /\ processPid \in Pids \cup {NoPid}
  /\ tpc \in {"idle", "spawn", "poll", "address", "kill", "wait", "unlink"}
  /\ job \in {"none", "connect", "disconnect"}
  /\ polls \in 0..MaxPolls
  /\ ret \in {"none", "ok", "failed"}
  /\ auth \in BOOLEAN
  /\ proc \in [Pids -> {"free", "starting", "up", "zombie"}]
  /\ term \in SUBSET Pids
  /\ children \in SUBSET Pids
  /\ otherTun \in BOOLEAN

\* The pid that kill and waitpid are called with is always an unreaped child of
\* this program, never a number the kernel may have handed to someone else
\* (openvpn_tunnel.cpp:256-275).
TracksOwnChild == processPid # NoPid => processPid \in children

\* A child that is no longer tracked has been told to stop: whatever path
\* connect() and disconnect() leave by, no openvpn is left running unasked
\* (lines 55-60, 73-75, 78-81).
NoUnsignalledStray ==
  \A p \in children : Alive(p) /\ p # processPid => p \in term

\* Between calls the two fields agree: connected exactly if a process is
\* tracked, so that disconnect() and the destructor stop what connect() left.
FieldsAgree == tpc = "idle" => (connected <=> processPid # NoPid)

\* connect() and disconnect() return, whatever the processes do (80 polls).
CallReturns == tpc # "idle" ~> tpc = "idle"

\* What connect(), or disconnect(), still takes: two steps a poll, one each for
\* kill, waitpid and the files.
CallLeft ==
  CASE tpc = "idle" -> 0
    [] tpc = "unlink" -> 1
    [] tpc = "wait" -> 2
    [] tpc = "kill" -> 3
    [] tpc = "address" -> 3 + 2 * (MaxPolls - polls)
    [] tpc = "poll" -> 4 + 2 * (MaxPolls - polls)
    [] tpc = "spawn" -> 5 + 2 * MaxPolls

\* A child that is no longer tracked is eventually gone; the orphans of a killed
\* program are nobody's children here, and may run on for ever.
StrayEventuallyGone ==
  \A p \in Pids : (p \in children /\ p # processPid) ~> (~Alive(p) \/ p = processPid)

\* "Check whether the process is running" (utils/process.h:14), which the
\* early exit at openvpn_tunnel.cpp:55 relies on: an attempt does not go on
\* polling for a process that has exited.
ExitNoticed ==
  [][PollRunning /\ tpc' = "address" => Alive(processPid)]_tunnelVars
========================================================================
