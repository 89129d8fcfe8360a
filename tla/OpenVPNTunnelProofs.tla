---------------------- MODULE OpenVPNTunnelProofs ----------------------
(***************************************************************************)
(* Proofs about OpenVPNTunnel for any set of pids and any number of polls.  *)
(* TunnelInv is the inductive invariant: what the calling thread may rely   *)
(* on at each point of connect() and disconnect().                          *)
(***************************************************************************)
EXTENDS OpenVPNTunnel, TLAPS

\* Where no call is in progress the two fields agree; connect() works on a
\* tracked child once it has forked one; a process about to be forgotten has
\* its signal.
CallShape ==
  /\ tpc = "idle" => (connected <=> processPid # NoPid)
  /\ tpc = "spawn" => ~connected /\ processPid = NoPid
  /\ tpc \in {"poll", "address"} => ~connected /\ processPid # NoPid
  /\ tpc \in {"kill", "wait"} => processPid # NoPid
  /\ tpc \in {"kill", "wait"} /\ job = "connect" => ~connected
  /\ tpc = "wait" => (Alive(processPid) => processPid \in term)
  /\ tpc = "unlink" => processPid = NoPid
  /\ tpc = "address" => polls < MaxPolls

TunnelInv == TunnelTypeOK /\ TracksOwnChild /\ NoUnsignalledStray /\ CallShape

USE DEF Alive, object, kernel, tunnelVars

\* A new tunnel object satisfies the invariant.
LEMMA TunnelInitInv == TunnelInit => TunnelInv
<1> SUFFICES ASSUME TunnelInit PROVE TunnelInv
  OBVIOUS
<1>1. TunnelTypeOK
  <2>1. polls \in 0..MaxPolls
    BY TunnelAssumption, SMT DEF TunnelInit
  <2>2. proc \in [Pids -> {"free", "starting", "up", "zombie"}]
    BY DEF TunnelInit
  <2>3. term \in SUBSET Pids /\ children \in SUBSET Pids
    BY DEF TunnelInit
  <2> QED BY <2>1, <2>2, <2>3 DEF TunnelInit, TunnelTypeOK
<1>2. TracksOwnChild /\ NoUnsignalledStray
  BY DEF TunnelInit, TracksOwnChild, NoUnsignalledStray
<1>3. CallShape
  BY DEF TunnelInit, CallShape
<1> QED BY <1>1, <1>2, <1>3 DEF TunnelInv

\* Every step of the calling thread, the processes and the kernel preserves
\* the invariant.
LEMMA TunnelNextInv == TunnelInv /\ [TunnelNext]_tunnelVars => TunnelInv'
<1> SUFFICES ASSUME TunnelInv, [TunnelNext]_tunnelVars PROVE TunnelInv'
  OBVIOUS
<1> USE TunnelAssumption DEF TunnelInv
<1> USE DEF TunnelTypeOK, TracksOwnChild, NoUnsignalledStray, CallShape, Finish
<1>1. CASE Connect
  BY <1>1 DEF Connect
<1>2. CASE StartOpenVPNProcess
  <2>1. ASSUME NEW p \in Pids, Fork(p), tpc' = "poll" /\ polls' = 0, UNCHANGED <<job, ret>>
        PROVE  TunnelInv'
    BY <1>2, <2>1 DEF StartOpenVPNProcess, Fork
  <2>2. CASE processPid' = NoPid /\ Finish("failed") /\ UNCHANGED <<polls, proc, children>>
    BY <1>2, <2>2 DEF StartOpenVPNProcess
  <2> QED BY <1>2, <2>1, <2>2 DEF StartOpenVPNProcess
<1>3. CASE PollRunning
  BY <1>3 DEF PollRunning, MorePolls, GiveUp
<1>4. CASE PollTunnelIP
  <2>1. CASE TunnelIP
    BY <1>4, <2>1 DEF PollTunnelIP
  <2>2. CASE ~TunnelIP
    BY <1>4, <2>2 DEF PollTunnelIP, NextPoll
  <2> QED BY <2>1, <2>2
<1>5. CASE Kill
  BY <1>5 DEF Kill, Signal
<1>6. CASE WaitNoHang
  BY <1>6 DEF WaitNoHang, Forget
<1>7. CASE FinishDisconnect
  BY <1>7 DEF FinishDisconnect, RemoveFiles
<1>8. CASE Disconnect
  BY <1>8 DEF Disconnect
<1>9. CASE OtherTun
  BY <1>9 DEF OtherTun
<1>10. ASSUME NEW p \in Pids, TunnelUp(p) PROVE TunnelInv'
  BY <1>10 DEF TunnelUp
<1>11. ASSUME NEW p \in Pids, Exit(p) PROVE TunnelInv'
  BY <1>11 DEF Exit
<1>12. CASE UNCHANGED tunnelVars
  BY <1>12
<1> QED
  BY <1>1, <1>2, <1>3, <1>4, <1>5, <1>6, <1>7, <1>8, <1>9, <1>10, <1>11, <1>12
  DEF TunnelNext, TunnelStep, Environment

\* The calling thread comes nearer to the end of its call with each step.
LEMMA CallAdvances ==
  TunnelInv => CallLeft \in Nat /\ (TunnelStep => CallLeft' \in Nat /\ CallLeft' < CallLeft)
<1> SUFFICES ASSUME TunnelInv
             PROVE  CallLeft \in Nat /\ (TunnelStep => CallLeft' \in Nat /\ CallLeft' < CallLeft)
  OBVIOUS
<1> USE TunnelAssumption DEF CallLeft, TunnelInv, TunnelTypeOK, CallShape, Finish
<1>0. CallLeft \in Nat
  OBVIOUS
<1> SUFFICES ASSUME TunnelStep PROVE CallLeft' \in Nat /\ CallLeft' < CallLeft
  BY <1>0
<1>1. CASE StartOpenVPNProcess
  BY <1>1 DEF StartOpenVPNProcess
<1>2. CASE PollRunning
  BY <1>2 DEF PollRunning, MorePolls, GiveUp
<1>3. CASE PollTunnelIP
  BY <1>3 DEF PollTunnelIP, NextPoll
<1>4. CASE Kill
  BY <1>4 DEF Kill
<1>5. CASE WaitNoHang
  BY <1>5 DEF WaitNoHang
<1>6. CASE FinishDisconnect
  BY <1>6 DEF FinishDisconnect
<1> QED BY <1>1, <1>2, <1>3, <1>4, <1>5, <1>6 DEF TunnelStep

\* The inductive invariant holds in every run of connect() and disconnect().
THEOREM TunnelSafe == TunnelSpec => []TunnelInv
BY TunnelInitInv, TunnelNextInv, PTL DEF TunnelSpec

\* Type correctness of the tunnel.
THEOREM TunnelTypeCorrect == TunnelSpec => []TunnelTypeOK
BY TunnelSafe, PTL DEF TunnelInv

\* The pid in processPid_ is always an unreaped child (openvpn_tunnel.cpp:256).
THEOREM TunnelTracksOwnChild == TunnelSpec => []TracksOwnChild
BY TunnelSafe, PTL DEF TunnelInv

\* No call leaves a running openvpn behind that was not told to stop.
THEOREM TunnelLeavesNoStray == TunnelSpec => []NoUnsignalledStray
BY TunnelSafe, PTL DEF TunnelInv

\* Between calls, connected_ says whether a process is tracked.
THEOREM TunnelFieldsAgree == TunnelSpec => []FieldsAgree
<1>1. TunnelInv => FieldsAgree
  BY DEF TunnelInv, CallShape, FieldsAgree
<1> QED BY <1>1, TunnelSafe, PTL
========================================================================
