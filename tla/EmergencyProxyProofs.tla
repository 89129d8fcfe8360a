---------------------- MODULE EmergencyProxyProofs ----------------------
(***************************************************************************)
(* Proofs about EmergencyProxy for any pids, polls and endpoint lists: what *)
(* merging does to a list, what the proxy holds at each point of start()    *)
(* and stop(), and that it implements ProxyLifecycle.                       *)
(***************************************************************************)
EXTENDS EmergencyProxy, OpenVPNTunnelProofs, Loops

------------------------------------------------------------------------
(* The merge. *)

\* The passes of the loop; a recursive function is only known to be chosen, so
\* that it meets its equation has to be shown.
LEMMA MergeLoop ==
  ASSUME NEW X, NEW fetched \in Seq(X), NEW held \in Seq(X)
  PROVE  \E list \in [0..Len(held) -> Seq(X)] :
           /\ list[0] = fetched
           /\ \A n \in 1..Len(held) : list[n] = Add(list[n - 1], held[n])
           /\ Merge(fetched, held) = list[Len(held)]
<1> DEFINE n == Len(held)
           step == [i \in 1..n |-> [l \in Seq(X) |-> Add(l, held[i])]]
           Eq(f) == f = [i \in 0..n |-> IF i = 0 THEN fetched ELSE Add(f[i - 1], held[i])]
           list == CHOOSE f : Eq(f)
<1>1. n \in Nat /\ \A i \in 1..n : held[i] \in X
  OBVIOUS
<1>2. step \in [1..n -> [Seq(X) -> Seq(X)]]
  <2>1. ASSUME NEW i \in 1..n, NEW l \in Seq(X) PROVE Add(l, held[i]) \in Seq(X)
    BY <1>1 DEF Add
  <2> QED BY <2>1
<1>3. PICK f \in [0..n -> Seq(X)] : f[0] = fetched /\ \A i \in 1..n : f[i] = step[i][f[i - 1]]
  <2>1. step \in Passes(Seq(X), n)
    BY <1>2 DEF Passes
  <2> HIDE DEF n, step
  <2>2. Runs(Seq(X), fetched, n, step) # {}
    BY ONLY <1>1, <2>1, fetched \in Seq(X), Iteration
  <2> QED BY <2>2 DEF Runs
<1>4. ASSUME NEW i \in 1..n PROVE f[i] = Add(f[i - 1], held[i])
  <2>1. i - 1 \in 0..n
    BY <1>1
  <2>2. f[i - 1] \in Seq(X)
    BY <1>3, <2>1
  <2> QED BY <1>3, <2>2
<1>5. f = [i \in 0..n |-> f[i]] /\ \A i \in 0..n : i # 0 => i \in 1..n
  BY <1>1, <1>3
<1>6. Eq(f)
  <2> HIDE DEF n, step
  <2> QED BY <1>3, <1>4, <1>5
<1>7. Eq(list)
  <2> HIDE DEF Eq
  <2> QED BY <1>6
<1>8. Merge(fetched, held) = list[n]
  BY DEF Merge
<1>9. list[0] = fetched /\ \A i \in 1..n : list[i] = Add(list[i - 1], held[i])
  <2> HIDE DEF n, list
  <2> QED BY <1>1, <1>7
<1>10. list \in [0..n -> Seq(X)]
  <2> DEFINE T == { i \in 0..n : list[i] \in Seq(X) }
  <2>1. 0 \in T
    BY <1>1, <1>9
  <2>2. ASSUME NEW i \in 0..(n - 1), i \in T PROVE i + 1 \in T
    <3>1. i + 1 \in 1..n /\ (i + 1) - 1 = i /\ i + 1 \in 0..n
      BY <1>1
    <3>2. held[i + 1] \in X /\ list[i] \in Seq(X)
      BY <1>1, <2>2, <3>1
    <3>3. list[i + 1] = Add(list[i], held[i + 1])
      <4> HIDE DEF n, list
      <4> QED BY <1>9, <3>1
    <3>4. Add(list[i], held[i + 1]) \in Seq(X)
      <4> HIDE DEF n, list
      <4> QED BY <3>2 DEF Add
    <3> QED BY <3>1, <3>3, <3>4
  <2>3. \A i \in 0..n : i \in T
    <3>1. \A i \in 0..(n - 1) : i \in T => i + 1 \in T
      BY <2>2
    <3> HIDE DEF n, T
    <3> QED BY <1>1, <2>1, <3>1, Inductive
  <2>4. list = [i \in 0..n |-> list[i]]
    <3> HIDE DEF n, list
    <3> QED BY <1>7
  <2> HIDE DEF n, list
  <2> QED BY <2>3, <2>4
<1> HIDE DEF n, list
<1>11. \E g \in [0..n -> Seq(X)] :
         /\ g[0] = fetched
         /\ \A i \in 1..n : g[i] = Add(g[i - 1], held[i])
         /\ Merge(fetched, held) = g[n]
  BY <1>8, <1>9, <1>10
<1> QED BY <1>11 DEF n

\* One pass: the next held endpoint joins the list unless it is there.
LEMMA MergePass ==
  ASSUME NEW X, NEW fetched \in Seq(X), NEW held \in Seq(X), NEW list \in Seq(X),
         NEW n \in 0..(Len(held) - 1), Merges(fetched, held, n, list)
  PROVE  Merges(fetched, held, n + 1, Add(list, held[n + 1]))
<1> DEFINE e == held[n + 1]
           more == Add(list, e)
           L == Len(fetched)
<1>1. n \in Nat /\ n + 1 \in Nat /\ n + 1 \in 1..Len(held) /\ e \in X /\ L \in Nat /\ Len(list) \in Nat
  OBVIOUS
<1>2. 1..(n + 1) = (1..n) \cup {n + 1}
  BY <1>1
<1>3. { held[p] : p \in 1..(n + 1) } = { held[p] : p \in 1..n } \cup {e}
  BY <1>2
<1>4. /\ L <= Len(list) /\ \A i \in 1..L : list[i] = fetched[i]
      /\ ToSet(list) = ToSet(fetched) \cup { held[p] : p \in 1..n }
      /\ \A i \in (L + 1)..Len(list) : \A j \in 1..(i - 1) : list[j] # list[i]
  BY DEF Merges
<1>5. ASSUME NEW i \in (L + 1)..Len(list), NEW j \in (L + 1)..Len(list), i < j
      PROVE  \E p \in 1..(n + 1) : held[p] = list[i] /\ \A q \in 1..p : held[q] # list[j]
  <2>1. PICK p \in 1..n : held[p] = list[i] /\ \A q \in 1..p : held[q] # list[j]
    BY <1>5 DEF Merges
  <2> QED BY <1>2, <2>1
<1>6. CASE e \in ToSet(list)
  <2>1. more = list
    BY <1>6 DEF Add
  <2>2. ToSet(list) = ToSet(fetched) \cup { held[p] : p \in 1..(n + 1) }
    <3> HIDE DEF e
    <3> QED BY <1>3, <1>4, <1>6
  <2>3. Merges(fetched, held, n + 1, list)
    <3> HIDE DEF e, more
    <3> QED BY <1>4, <1>5, <2>2 DEF Merges
  <2> QED BY <2>1, <2>3
<1>7. CASE e \notin ToSet(list)
  <2>1. more = Append(list, e)
    BY <1>7 DEF Add
  <2>2. /\ more \in Seq(X) /\ Len(more) = Len(list) + 1
        /\ \A i \in 1..Len(list) : more[i] = list[i]
        /\ more[Len(list) + 1] = e
    BY <1>1, <2>1
  <2> HIDE DEF e, more
  <2>3. ToSet(more) = ToSet(list) \cup {e}
    <3>1. DOMAIN more = 1..(Len(list) + 1) /\ DOMAIN list = 1..Len(list)
      BY <2>2
    <3>2. 1..(Len(list) + 1) = (1..Len(list)) \cup {Len(list) + 1}
      BY <1>1
    <3>3. ToSet(list) = { list[i] : i \in 1..Len(list) }
      BY ONLY <3>1 DEF ToSet
    <3>4. ToSet(more) = { more[i] : i \in (1..Len(list)) \cup {Len(list) + 1} }
      BY ONLY <3>1, <3>2 DEF ToSet
    <3>5. { more[i] : i \in 1..Len(list) } = { list[i] : i \in 1..Len(list) }
      BY ONLY <2>2
    <3>6. ToSet(more) = { more[i] : i \in 1..Len(list) } \cup {e}
      BY ONLY <2>2, <3>4
    <3> QED BY ONLY <3>3, <3>5, <3>6
  <2>4. L <= Len(more) /\ \A i \in 1..L : more[i] = fetched[i]
    <3>1. 1..L \subseteq 1..Len(list)
      BY ONLY <1>1, <1>4
    <3>2. L <= Len(more)
      BY ONLY <1>1, <1>4, <2>2
    <3> QED BY ONLY <1>4, <2>2, <3>1, <3>2
  <2>9. (L + 1)..Len(more) = ((L + 1)..Len(list)) \cup {Len(list) + 1}
    BY ONLY <1>1, <1>4, <2>2
  <2>5. ASSUME NEW i \in (L + 1)..Len(more), NEW j \in 1..(i - 1) PROVE more[j] # more[i]
    <3>1. j \in 1..Len(list) /\ more[j] = list[j] /\ j \in Nat
      BY <1>1, <2>2
    <3>2. CASE i \in (L + 1)..Len(list)
      <4>1. more[i] = list[i]
        BY <1>1, <2>2, <3>2
      <4> QED BY <1>4, <3>1, <3>2, <4>1
    <3>3. CASE i = Len(list) + 1
      BY <1>7, <2>2, <3>1, <3>3 DEF ToSet
    <3> QED BY <2>9, <3>2, <3>3
  <2>6. ToSet(more) = ToSet(fetched) \cup { held[p] : p \in 1..(n + 1) }
    BY <1>3, <1>4, <2>3
  <2>7. ASSUME NEW i \in (L + 1)..Len(more), NEW j \in (L + 1)..Len(more), i < j
        PROVE  \E p \in 1..(n + 1) : held[p] = more[i] /\ \A q \in 1..p : held[q] # more[j]
    <3>1. i \in 1..Len(list) /\ i \in (L + 1)..Len(list) /\ more[i] = list[i]
      BY <1>1, <2>2, <2>7
    <3>2. CASE j \in (L + 1)..Len(list)
      <4>1. more[j] = list[j]
        BY <1>1, <2>2, <3>2
      <4> QED BY <1>5, <2>7, <3>1, <3>2, <4>1
    <3>3. CASE j = Len(list) + 1
      <4>1. list[i] \in ToSet(list)
        BY <3>1 DEF ToSet
      <4>2. \A p \in 1..n : held[p] # e
        BY <1>4, <1>7
      <4>3. CASE list[i] \in { held[p] : p \in 1..n }
        <5>1. PICK p \in 1..n : held[p] = list[i]
          BY <4>3
        <5>2. p \in 1..(n + 1) /\ 1..p \subseteq 1..n
          BY <1>1
        <5> QED BY <2>2, <3>1, <3>3, <4>2, <5>1, <5>2
      <4>4. list[i] \notin ToSet(fetched)
        <5>1. \A k \in 1..L : list[k] # list[i]
          BY <1>1, <1>4, <3>1
        <5>2. \A k \in 1..L : fetched[k] # list[i]
          BY <1>4, <5>1
        <5> QED BY <5>2 DEF ToSet
      <4> QED BY <1>4, <4>1, <4>3, <4>4
    <3> QED BY <2>9, <3>2, <3>3
  <2>8. Merges(fetched, held, n + 1, more)
    BY <1>4, <2>4, <2>5, <2>6, <2>7 DEF Merges
  <2> QED BY ONLY <2>8 DEF e, more
<1> QED BY <1>6, <1>7

\* Before the first pass.
LEMMA MergeStart ==
  ASSUME NEW X, NEW fetched \in Seq(X), NEW held PROVE Merges(fetched, held, 0, fetched)
<1>1. 1..0 = {} /\ (Len(fetched) + 1)..Len(fetched) = {} /\ Len(fetched) \in Nat
  OBVIOUS
<1> QED BY <1>1 DEF Merges

\* The merged list is a sequence and owes nothing.
LEMMA MergeCorrect ==
  ASSUME NEW X, NEW fetched \in Seq(X), NEW held \in Seq(X)
  PROVE  /\ Merge(fetched, held) \in Seq(X)
         /\ Merges(fetched, held, Len(held), Merge(fetched, held))
<1>1. PICK list \in [0..Len(held) -> Seq(X)] :
        /\ list[0] = fetched
        /\ \A n \in 1..Len(held) : list[n] = Add(list[n - 1], held[n])
        /\ Merge(fetched, held) = list[Len(held)]
  BY ONLY fetched \in Seq(X), held \in Seq(X), MergeLoop
<1>2. PICK T : T = { n \in 0..Len(held) : Merges(fetched, held, n, list[n]) }
  OBVIOUS
<1>3. Len(held) \in Nat
  OBVIOUS
<1>4. 0 \in T
  BY <1>1, <1>2, <1>3, MergeStart
<1>5. \A n \in 0..(Len(held) - 1) : n \in T => n + 1 \in T
  <2> SUFFICES ASSUME NEW n \in 0..(Len(held) - 1), n \in T PROVE n + 1 \in T
    OBVIOUS
  <2>1. n \in 0..Len(held) /\ n + 1 \in 1..Len(held) /\ (n + 1) - 1 = n
        /\ n + 1 \in 0..Len(held)
    BY <1>3
  <2>2. list[n] \in Seq(X) /\ Merges(fetched, held, n, list[n])
    BY <1>1, <1>2, <2>1
  <2>3. Merges(fetched, held, n + 1, Add(list[n], held[n + 1]))
    BY <2>2, MergePass
  <2>4. list[n + 1] = Add(list[n], held[n + 1])
    BY <1>1, <2>1
  <2> QED BY <1>2, <2>1, <2>3, <2>4
<1>6. Len(held) \in T
  <2>1. \A n \in 0..Len(held) : n \in T
    BY ONLY <1>3, <1>4, <1>5, Inductive
  <2> QED BY <1>3, <2>1
<1> QED BY <1>1, <1>2, <1>3, <1>6

------------------------------------------------------------------------
(* The proxy. *)

\* Where the caller is inside the tunnel object, seen from start() and stop().
TunnelCall ==
  /\ tpc # "idle" => epc \in {"connecting", "dropping"}
  /\ epc = "connecting" /\ tpc # "idle" =>
       tpc \in {"spawn", "poll", "address", "kill", "wait"} /\ job = "connect"
  /\ epc = "dropping" /\ tpc # "idle" =>
       tpc \in {"kill", "wait", "unlink"} /\ job = "disconnect"

\* Whether there is a session.
Session ==
  /\ epc \in {"setupVPN", "attempt"} => ~connected
  /\ epc \in {"setupProxy", "cleanup", "dropTunnel"} => connected
  /\ epc = "connecting" /\ tpc = "idle" => (ret = "ok" <=> connected)
  /\ epc = "dropping" => IF tpc = "idle" THEN ~connected /\ ~auth ELSE connected
  /\ epc = "idle" => (running <=> connected)

\* What else the proxy holds.
Holdings ==
  /\ epc # "idle" => ~running
  /\ epc = "idle" => server = IF running THEN "listening" ELSE "none"
  /\ epc \notin {"idle", "cleanup"} => server = "none"
  /\ epc \notin {"idle", "setupVPN"} \/ running => vpnTunnel

ProxyInv == TypeOK /\ TunnelInv /\ TunnelCall /\ Session /\ Holdings

USE DEF proxyVars, vars, object, kernel, tunnelVars, Alive

\* A new proxy satisfies the invariant.
LEMMA ProxyInitInv == Init => ProxyInv
<1> SUFFICES ASSUME Init PROVE ProxyInv
  OBVIOUS
<1>1. TunnelInv
  BY TunnelInitInv DEF Init
<1>2. TypeOK
  <2>1. running \in BOOLEAN /\ vpnTunnel \in BOOLEAN
    BY DEF Init
  <2>2. idx \in Nat \ {0}
    BY DEF Init
  <2>3. endpoints \in Seq(Endpoint)
    BY DEF Init
  <2> QED BY <1>1, <2>1, <2>2, <2>3 DEF Init, TypeOK, TunnelInv
<1>3. TunnelCall /\ Session
  BY DEF Init, TunnelInit, TunnelCall, Session
<1>4. Holdings
  BY DEF Init, Holdings
<1> QED BY <1>1, <1>2, <1>3, <1>4 DEF ProxyInv

\* Between two calls of the tunnel object its fields are those of a new one, or
\* those of one with a session.
LEMMA IdleTunnel ==
  ProxyInv /\ tpc = "idle" => (connected <=> processPid # NoPid) /\ connected \in BOOLEAN
BY DEF ProxyInv, TunnelInv, CallShape, TunnelTypeOK

\* new OpenVPNTunnel() loses nothing: the object it replaces, if any, had no
\* session and no process.
LEMMA NewTunnelLosesNothing ==
  ProxyInv /\ SetupVPN => UNCHANGED tunnelVars
BY IdleTunnel DEF ProxyInv, SetupVPN, Session, TunnelCall

\* A kill leaves a tunnel state like that of a new program.
LEMMA KilledTunnelInv == ProxyInv /\ Killed => TunnelInv'
<1> SUFFICES ASSUME ProxyInv, Killed PROVE TunnelInv'
  OBVIOUS
<1>1. TunnelTypeOK'
  <2>1. polls' \in 0..MaxPolls
    BY TunnelAssumption DEF Killed
  <2>2. proc' \in [Pids -> {"free", "starting", "up", "zombie"}]
    BY DEF Killed, ProxyInv, TunnelInv, TunnelTypeOK
  <2>3. term' \in SUBSET Pids /\ children' \in SUBSET Pids
    BY DEF Killed, ProxyInv, TunnelInv, TunnelTypeOK
  <2>4. connected' \in BOOLEAN /\ processPid' \in Pids \cup {NoPid}
    BY DEF Killed
  <2> QED BY <2>1, <2>2, <2>3, <2>4 DEF Killed, ProxyInv, TunnelInv, TunnelTypeOK
<1>2. (TracksOwnChild /\ NoUnsignalledStray /\ CallShape)'
  BY DEF Killed, TracksOwnChild, NoUnsignalledStray, CallShape
<1> QED BY <1>1, <1>2 DEF TunnelInv

\* No step of the tunnel lets go of a process that was not told to stop.
LEMMA TunnelStepAsks ==
  ASSUME TunnelInv, TunnelNext, NEW p \in Pids, Unasked(p)' PROVE Unasked(p)
<1> USE DEF Unasked
<1>1. CASE StartOpenVPNProcess
  <2>1. processPid = NoPid /\ p # NoPid /\ proc \in [Pids -> {"free", "starting", "up", "zombie"}]
    BY <1>1, TunnelAssumption DEF StartOpenVPNProcess, TunnelInv, TunnelTypeOK, CallShape
  <2>2. ASSUME NEW q \in Pids, Fork(q) PROVE p # q /\ UNCHANGED proc[p]
    BY <2>1, <2>2 DEF Fork
  <2> QED BY <1>1, <2>1, <2>2 DEF StartOpenVPNProcess
<1>2. CASE Kill
  BY <1>2 DEF Kill, Signal, TunnelInv, TunnelTypeOK, CallShape
<1>3. CASE WaitNoHang
  BY <1>3 DEF WaitNoHang, Forget, TunnelInv, TunnelTypeOK, CallShape, TracksOwnChild
<1>4. CASE Environment
  BY <1>4 DEF Environment, OtherTun, TunnelUp, Exit, TunnelInv, TunnelTypeOK
<1>5. CASE Connect \/ Disconnect \/ PollRunning \/ PollTunnelIP \/ FinishDisconnect
  BY <1>5 DEF Connect, Disconnect, PollRunning, GiveUp, PollTunnelIP, FinishDisconnect, Finish
<1> QED BY <1>1, <1>2, <1>3, <1>4, <1>5 DEF TunnelNext, TunnelStep

\* The tunnel's invariant survives every step of the composition.
LEMMA TunnelPart == ProxyInv /\ [Next]_vars => TunnelInv'
<1> SUFFICES ASSUME ProxyInv, [Next]_vars PROVE TunnelInv'
  OBVIOUS
<1>1. CASE Killed
  BY <1>1, KilledTunnelInv
<1>2. CASE [TunnelNext]_tunnelVars
  BY <1>2, TunnelNextInv DEF ProxyInv
<1>3. CASE SetupVPN
  BY <1>2, <1>3, NewTunnelLosesNothing
<1>4. CASE UNCHANGED tunnelVars
  BY <1>2, <1>4
<1>5. ProxyStep => SetupVPN \/ TunnelNext \/ UNCHANGED tunnelVars
  BY DEF ProxyStep, Attempt, Attempted, SetupProxy, CleanupServer, CleanupTunnel,
         TunnelDeleted, InTunnel, TunnelNext
<1>6. Next => Killed \/ SetupVPN \/ TunnelNext \/ UNCHANGED tunnelVars
  BY <1>5 DEF Next, Initialize, Start, Stop, TunnelNext
<1> QED BY <1>1, <1>2, <1>3, <1>4, <1>6

\* A fetch leaves a list of endpoints.
LEMMA FetchedList ==
  ASSUME NEW held \in Seq(Endpoint), FetchRemoteEndpoints(held)
  PROVE  endpoints' \in Seq(Endpoint)
BY MergeCorrect, ProxyAssumption DEF FetchRemoteEndpoints

\* config_.endpoints stays a list of endpoints.
LEMMA EndpointsListed == ProxyInv /\ [Next]_vars => endpoints' \in Seq(Endpoint)
<1> SUFFICES ASSUME ProxyInv, [Next]_vars PROVE endpoints' \in Seq(Endpoint)
  OBVIOUS
<1>0. endpoints \in Seq(Endpoint)
  BY DEF ProxyInv, TypeOK
<1>1. ASSUME NEW configured \in Configured, NEW auto \in BOOLEAN, Initialize(configured, auto)
      PROVE  endpoints' \in Seq(Endpoint)
  <2>1. configured \in Seq(Endpoint)
    BY ProxyAssumption
  <2> QED BY <1>1, <2>1, FetchedList DEF Initialize
<1>2. CASE SetupVPN
  BY <1>0, <1>2, FetchedList DEF SetupVPN
<1>3. CASE Killed
  BY <1>3 DEF Killed
<1>4. CASE UNCHANGED endpoints
  BY <1>0, <1>4
<1>5. ProxyStep => SetupVPN \/ UNCHANGED endpoints
  BY DEF ProxyStep, Attempt, Attempted, SetupProxy, CleanupServer, CleanupTunnel,
         TunnelDeleted, InTunnel
<1> QED
  BY <1>1, <1>2, <1>3, <1>4, <1>5 DEF Next, Start, Stop

\* Every step of the composition preserves the invariant.
LEMMA ProxyNextInv == ProxyInv /\ [Next]_vars => ProxyInv'
<1> SUFFICES ASSUME ProxyInv, [Next]_vars PROVE ProxyInv'
  OBVIOUS
<1>0. TunnelInv'
  BY TunnelPart
<1>t. TunnelTypeOK'
  BY <1>0 DEF TunnelInv
<1>e. endpoints' \in Seq(Endpoint)
  BY EndpointsListed
<1> USE DEF ProxyInv, TypeOK, TunnelCall, Session, Holdings
<1>1. ASSUME NEW configured \in Configured, NEW auto \in BOOLEAN, Initialize(configured, auto)
      PROVE  ProxyInv'
  BY <1>0, <1>t, <1>e, <1>1 DEF Initialize
<1>2. CASE Start
  BY <1>0, <1>t, <1>e, <1>2 DEF Start
<1>3. CASE SetupVPN
  BY <1>0, <1>t, <1>e, <1>3 DEF SetupVPN
<1>4. CASE Attempt
  BY <1>0, <1>t, <1>e, <1>4, IdleTunnel DEF Attempt, Connect, Finish
<1>5. CASE Attempted
  BY <1>0, <1>t, <1>e, <1>5 DEF Attempted, AfterConnect, NextEndpoint
<1>6. CASE SetupProxy
  <2>1. CASE server' = "listening" /\ running' = TRUE /\ epc' = "idle"
    BY <1>0, <1>t, <1>e, <1>6, <2>1 DEF SetupProxy
  <2>2. CASE server' = "created" /\ epc' = "cleanup" /\ UNCHANGED running
    BY <1>0, <1>t, <1>e, <1>6, <2>2 DEF SetupProxy
  <2> QED BY <1>6, <2>1, <2>2 DEF SetupProxy, AfterBindFailure
<1>7. CASE Stop
  BY <1>0, <1>t, <1>e, <1>7 DEF Stop
<1>8. CASE CleanupServer
  BY <1>0, <1>t, <1>e, <1>8 DEF CleanupServer, DropServer
<1>9. CASE CleanupTunnel
  BY <1>0, <1>t, <1>e, <1>9 DEF CleanupTunnel, Disconnect
<1>10. CASE TunnelDeleted
  BY <1>0, <1>t, <1>e, <1>10 DEF TunnelDeleted
<1>11. CASE InTunnel
  <2> USE DEF Finish
  <2>1. CASE StartOpenVPNProcess
    BY <1>0, <1>t, <1>e, <1>11, <2>1 DEF InTunnel, StartOpenVPNProcess, TunnelInv, CallShape
  <2>2. CASE PollRunning
    BY <1>0, <1>t, <1>e, <1>11, <2>2 DEF InTunnel, PollRunning, GiveUp
  <2>3. CASE PollTunnelIP
    BY <1>0, <1>t, <1>e, <1>11, <2>3 DEF InTunnel, PollTunnelIP
  <2>4. CASE Kill
    BY <1>0, <1>t, <1>e, <1>11, <2>4 DEF InTunnel, Kill
  <2>5. CASE WaitNoHang
    BY <1>0, <1>t, <1>e, <1>11, <2>5 DEF InTunnel, WaitNoHang, TunnelInv, CallShape
  <2>6. CASE FinishDisconnect
    BY <1>0, <1>t, <1>e, <1>11, <2>6 DEF InTunnel, FinishDisconnect, RemoveFiles
  <2> QED BY <1>11, <2>1, <2>2, <2>3, <2>4, <2>5, <2>6 DEF InTunnel, TunnelStep
<1>12. CASE Killed
  <2>1. TypeOK'
    <3>1. running' \in BOOLEAN /\ vpnTunnel' \in BOOLEAN
      BY <1>12 DEF Killed
    <3>2. idx' \in Nat \ {0}
      BY <1>12 DEF Killed
    <3> QED BY <1>t, <1>e, <1>12, <3>1, <3>2 DEF Killed
  <2>2. TunnelCall' /\ Session'
    BY <1>12 DEF Killed
  <2>3. Holdings'
    BY <1>12 DEF Killed
  <2> QED BY <1>0, <2>1, <2>2, <2>3
<1>13. CASE Environment /\ UNCHANGED proxyVars
  BY <1>0, <1>t, <1>e, <1>13 DEF Environment, OtherTun, TunnelUp, Exit
<1>14. CASE UNCHANGED vars
  BY <1>0, <1>t, <1>e, <1>14
<1> QED
  BY <1>1, <1>2, <1>3, <1>4, <1>5, <1>6, <1>7, <1>8, <1>9, <1>10, <1>11, <1>12,
     <1>13, <1>14
  DEF Next, ProxyStep

\* The inductive invariant holds whatever the caller, openvpn and kills do.
THEOREM ProxySafe == Spec => []ProxyInv
BY ProxyInitInv, ProxyNextInv, PTL DEF Spec

\* Type correctness of the proxy and its tunnel.
THEOREM ProxyTypeCorrect == Spec => []TypeOK
BY ProxySafe, PTL DEF ProxyInv

\* Clients are accepted only while there is a session.
THEOREM ProxyServesOnlyConnected == Spec => []ServesOnlyConnected
<1>1. ProxyInv => ServesOnlyConnected
  BY DEF ProxyInv, Session, Holdings, ServesOnlyConnected
<1> QED BY <1>1, ProxySafe, PTL

\* Outside start() and stop() the proxy holds everything or nothing.
THEOREM ProxyAllOrNothing == Spec => []AllOrNothing
<1>1. ProxyInv => AllOrNothing
  BY IdleTunnel DEF ProxyInv, TunnelCall, Session, Holdings, AllOrNothing
<1> QED BY <1>1, ProxySafe, PTL

\* No attempt is refused because of the one before.
THEOREM ProxyAttemptNotRefused == Spec => []AttemptNotRefused
<1>1. ProxyInv => AttemptNotRefused
  BY IdleTunnel DEF ProxyInv, TunnelCall, Session, AttemptNotRefused
<1> QED BY <1>1, ProxySafe, PTL

\* start() and stop() leave no untracked child that was not told to stop.  After a
\* kill there are no children; its orphan is the subject of the next theorem.
THEOREM ProxyLeavesNoStray == Spec => []NoUnsignalledStray
BY ProxySafe, PTL DEF ProxyInv, TunnelInv

\* Of all openvpn processes, orphans and reused pids included, none comes to run
\* untracked and not told to stop by a step of start() or stop(), only by a kill.
THEOREM ProxyOnlyKillOrphans == Spec => OnlyKillOrphans
<1>1. ASSUME ProxyInv, [Next]_vars, NEW p \in Pids, Unasked(p)', ~Unasked(p) PROVE Killed
  <2> USE DEF Unasked
  <2>1. CASE TunnelNext
    BY <1>1, <2>1, TunnelStepAsks DEF ProxyInv
  <2>2. CASE SetupVPN
    BY <1>1, <2>2, NewTunnelLosesNothing
  <2>3. CASE UNCHANGED tunnelVars
    BY <1>1, <2>3
  <2>4. ProxyStep => SetupVPN \/ TunnelNext \/ UNCHANGED tunnelVars
    BY DEF ProxyStep, Attempt, Attempted, SetupProxy, CleanupServer, CleanupTunnel,
           TunnelDeleted, InTunnel, TunnelNext
  <2>5. Next => Killed \/ SetupVPN \/ TunnelNext \/ UNCHANGED tunnelVars
    BY <2>4 DEF Next, Initialize, Start, Stop, TunnelNext
  <2> QED BY <1>1, <2>1, <2>2, <2>3, <2>5
<1>2. ProxyInv /\ [Next]_vars => [\A p \in Pids : Unasked(p)' /\ ~Unasked(p) => Killed]_vars
  BY <1>1
<1> QED BY <1>2, ProxySafe, PTL DEF Spec, OnlyKillOrphans

\* kill and waitpid are given own, unreaped children, kills included.
THEOREM ProxyTracksOwnChild == Spec => []TracksOwnChild
BY ProxySafe, PTL DEF ProxyInv, TunnelInv

\* Whatever ends a session also removes its credentials file.
THEOREM ProxyCleanupRemovesCredentials == Spec => CleanupRemovesCredentials
<1>1. ProxyInv /\ [Next]_vars => [TunnelDeleted => ~auth]_vars
  BY DEF ProxyInv, Session, TunnelDeleted
<1> QED BY <1>1, ProxySafe, PTL DEF Spec, CleanupRemovesCredentials

\* Whatever is fetched, configured and held, merging keeps what it promises.
THEOREM ProxyMergeMeaning == Spec => []MergeMeaning
<1>1. ProxyInv => MergeMeaning
  <2> SUFFICES ASSUME ProxyInv, NEW fetched \in Fetchable, NEW more \in Configured
               PROVE  Merges(fetched, endpoints \o more, Len(endpoints \o more),
                             Merge(fetched, endpoints \o more))
    BY DEF MergeMeaning
  <2>1. endpoints \in Seq(Endpoint)
    BY DEF ProxyInv, TypeOK
  <2>2. fetched \in Seq(Endpoint) /\ more \in Seq(Endpoint)
    BY ProxyAssumption
  <2>3. PICK held : held = endpoints \o more
    OBVIOUS
  <2>4. held \in Seq(Endpoint)
    BY <2>1, <2>2, <2>3
  <2>5. Merges(fetched, held, Len(held), Merge(fetched, held))
    BY <2>2, <2>4, MergeCorrect
  <2> QED BY <2>3, <2>5
<1> QED BY <1>1, ProxySafe, PTL

------------------------------------------------------------------------
(* The way through start() and stop(). *)

\* What is left is a number.
LEMMA MoreNat == ProxyInv => More \in Nat /\ AttemptSteps \in Nat
BY TunnelAssumption DEF ProxyInv, TypeOK, More, AttemptSteps

LEMMA StepsNat ==
  ASSUME ProxyInv
  PROVE  StepsLeft \in Nat /\ More * AttemptSteps \in Nat
<1>1. PICK rest : rest = More * AttemptSteps
  OBVIOUS
<1>2. rest \in Nat /\ AttemptSteps \in Nat
  BY <1>1, MoreNat
<1>3. CallLeft \in Nat
  BY CallAdvances DEF ProxyInv
<1> QED BY ONLY <1>1, <1>2, <1>3 DEF StepsLeft

\* Inside connect() and disconnect() the tunnel's steps are what advances.
LEMMA InTunnelAdvances == ProxyInv /\ InTunnel => StepsLeft' < StepsLeft
<1> SUFFICES ASSUME ProxyInv, InTunnel PROVE StepsLeft' < StepsLeft
  OBVIOUS
<1>1. CallLeft \in Nat /\ CallLeft' \in Nat /\ CallLeft' < CallLeft
  BY CallAdvances DEF ProxyInv, InTunnel
<1>2. epc' = epc /\ epc \in {"connecting", "dropping"}
  BY DEF InTunnel, ProxyInv, TunnelCall, TunnelStep, StartOpenVPNProcess, PollRunning,
         PollTunnelIP, Kill, WaitNoHang, FinishDisconnect
<1>3. PICK rest : rest = More * AttemptSteps
  OBVIOUS
<1>4. rest \in Nat /\ (More * AttemptSteps)' = rest
  BY <1>3, StepsNat DEF InTunnel, More, AttemptSteps
<1> QED BY ONLY <1>1, <1>2, <1>3, <1>4 DEF StepsLeft

\* The next attempt is for one endpoint less.
LEMMA AttemptedAdvances == ProxyInv /\ Attempted => StepsLeft' < StepsLeft
<1> SUFFICES ASSUME ProxyInv, Attempted PROVE StepsLeft' < StepsLeft
  OBVIOUS
<1>1. PICK m, k : m = More /\ k = AttemptSteps
  OBVIOUS
<1>2. m \in Nat /\ k \in Nat /\ AttemptSteps' = k /\ m * k \in Nat
  BY <1>1, MoreNat, StepsNat DEF AttemptSteps
<1>3. StepsLeft = 8 + m * k
  <2>1. epc = "connecting" /\ CallLeft = 0
    BY DEF Attempted, CallLeft
  <2> QED BY <1>1, <1>2, <2>1 DEF StepsLeft
<1>4. CASE epc' = "attempt"
  <2>1. idx \in Nat /\ Len(endpoints) \in Nat /\ idx < Len(endpoints)
    BY <1>4 DEF ProxyInv, TypeOK, Attempted, AfterConnect
  <2>2. endpoints' = endpoints /\ idx' = idx + 1
    BY <1>4 DEF Attempted, NextEndpoint
  <2>3. m \in Nat \ {0} /\ More' = m - 1
    BY <1>1, <2>1, <2>2 DEF More
  <2>4. (More * AttemptSteps)' = (m - 1) * k
    BY <1>2, <2>3
  <2>5. StepsLeft' = 7 + k + (m - 1) * k
    BY <1>2, <1>4, <2>4 DEF StepsLeft
  <2>6. k + (m - 1) * k = m * k
    BY ONLY <1>2, <2>3
  <2> QED BY ONLY <1>2, <1>3, <2>3, <2>5, <2>6
<1>5. CASE epc' # "attempt"
  <2>1. StepsLeft' \in {0, 7}
    BY <1>5 DEF Attempted, AfterConnect, StepsLeft
  <2> QED BY ONLY <1>2, <1>3, <2>1
<1> QED BY <1>4, <1>5

\* start() and stop() advance with each step of the calling thread.
THEOREM ProxyCallsAdvance == Spec => CallsAdvance
<1>1. ASSUME ProxyInv, [Next]_vars, epc \notin {"idle", "setupVPN"}
      PROVE  \/ StepsLeft' < StepsLeft
             \/ StepsLeft' = StepsLeft /\ UNCHANGED <<epc, tpc>>
  <2> DEFINE Goal == \/ StepsLeft' < StepsLeft
                     \/ StepsLeft' = StepsLeft /\ UNCHANGED <<epc, tpc>>
  <2>0. PICK rest : rest = More * AttemptSteps
    OBVIOUS
  <2>1. rest \in Nat /\ CallLeft \in Nat /\ AttemptSteps \in Nat /\ MaxPolls \in Nat
    BY <1>1, <2>0, MoreNat, StepsNat, CallAdvances, TunnelAssumption DEF ProxyInv
  <2>2. CASE UNCHANGED <<epc, tpc, polls, idx, endpoints>>
    BY <2>2 DEF StepsLeft, CallLeft, More, AttemptSteps
  <2>3. CASE Killed
    <3>1. StepsLeft' = 0
      BY <2>3 DEF Killed, StepsLeft
    <3>2. StepsLeft > 0
      BY ONLY <1>1, <2>0, <2>1 DEF StepsLeft
    <3> QED BY <3>1, <3>2
  <2>4. CASE Attempt
    <3>1. epc = "attempt" /\ epc' = "connecting" /\ tpc' = "spawn" /\ UNCHANGED <<idx, endpoints>>
      BY <1>1, <2>4 DEF Attempt, Connect, ProxyInv, Session
    <3>2. (More * AttemptSteps)' = rest /\ CallLeft' = 5 + 2 * MaxPolls
      BY <2>0, <3>1 DEF More, AttemptSteps, CallLeft
    <3>3. StepsLeft = 7 + (7 + 2 * MaxPolls) + rest /\ StepsLeft' = 8 + (5 + 2 * MaxPolls) + rest
      BY <2>0, <3>1, <3>2 DEF StepsLeft, AttemptSteps
    <3> QED BY ONLY <2>1, <3>3
  <2>5. CASE Attempted
    BY <1>1, <2>5, AttemptedAdvances
  <2>6. CASE SetupProxy
    BY <2>6 DEF SetupProxy, AfterBindFailure, StepsLeft
  <2>7. CASE CleanupServer
    BY <2>7 DEF CleanupServer, StepsLeft
  <2>8. CASE CleanupTunnel
    BY <2>8 DEF CleanupTunnel, Disconnect, StepsLeft, CallLeft
  <2>9. CASE TunnelDeleted
    BY <2>9, <2>1 DEF TunnelDeleted, StepsLeft, CallLeft
  <2>10. CASE InTunnel
    BY <1>1, <2>10, InTunnelAdvances
  <2>11. CASE Environment /\ UNCHANGED proxyVars
    BY <2>2, <2>11 DEF Environment, OtherTun, TunnelUp, Exit
  <2>12. CASE UNCHANGED vars
    BY <2>2, <2>12
  <2>13. ~ (\E configured \in Configured, auto \in BOOLEAN : Initialize(configured, auto))
         /\ ~ Start /\ ~ Stop /\ ~ SetupVPN
    BY <1>1 DEF Initialize, Start, Stop, SetupVPN
  <2> HIDE DEF Goal
  <2> QED
    BY <1>1, <2>3, <2>4, <2>5, <2>6, <2>7, <2>8, <2>9, <2>10, <2>11, <2>12, <2>13
    DEF Next, ProxyStep
<1> QED BY <1>1, ProxySafe, PTL DEF Spec, CallsAdvance

------------------------------------------------------------------------
(* The refinement. *)

\* The initial states map to the abstract initial state.
LEMMA LifecycleInit == Init => Lifecycle!Init
BY DEF Init, TunnelInit, Lifecycle!Init

\* Inside the tunnel object only a session that opens in start() or closes in
\* cleanup() is visible to the caller.
LEMMA InTunnelStep == ProxyInv /\ InTunnel => [Lifecycle!Next]_Lifecycle!lifecycle
<1> SUFFICES ASSUME ProxyInv, InTunnel PROVE [Lifecycle!Next]_Lifecycle!lifecycle
  OBVIOUS
<1> USE DEF ProxyInv, InTunnel, TunnelCall, Session, Holdings, Lifecycle!lifecycle
<1>1. CASE PollTunnelIP
  <2>1. CASE TunnelIP
    <3>1. Lifecycle!OpenSession
      BY <1>1, <2>1 DEF PollTunnelIP, TunnelInv, CallShape, Lifecycle!OpenSession
    <3> QED BY <3>1 DEF Lifecycle!Next
  <2>2. CASE ~TunnelIP
    BY <1>1, <2>2 DEF PollTunnelIP
  <2> QED BY <2>1, <2>2
<1>2. CASE FinishDisconnect
  <2>1. Lifecycle!CloseSession
    BY <1>2 DEF FinishDisconnect, Lifecycle!CloseSession
  <2> QED BY <2>1 DEF Lifecycle!Next
<1>3. CASE StartOpenVPNProcess \/ PollRunning \/ Kill \/ WaitNoHang
  BY <1>3 DEF StartOpenVPNProcess, PollRunning, Kill, WaitNoHang
<1> QED BY <1>1, <1>2, <1>3 DEF TunnelStep

\* Every step maps to a step of ProxyLifecycle or to a stutter.
LEMMA LifecycleStep == ProxyInv /\ [Next]_vars => [Lifecycle!Next]_Lifecycle!lifecycle
<1> SUFFICES ASSUME ProxyInv, [Next]_vars PROVE [Lifecycle!Next]_Lifecycle!lifecycle
  OBVIOUS
<1> USE DEF ProxyInv, TunnelCall, Session, Holdings, Lifecycle!lifecycle
<1>1. CASE Start
  <2>1. Lifecycle!Begin
    BY <1>1 DEF Start, Lifecycle!Begin
  <2> QED BY <2>1 DEF Lifecycle!Next
<1>2. CASE SetupVPN
  <2>1. UNCHANGED tunnelVars
    BY <1>2, NewTunnelLosesNothing
  <2> QED BY <1>2, <2>1 DEF SetupVPN
<1>3. CASE Attempted
  <2>1. CASE epc' = "idle"
    <3>1. Lifecycle!Fail
      BY <1>3, <2>1 DEF Attempted, AfterConnect, Lifecycle!Fail
    <3> QED BY <3>1 DEF Lifecycle!Next
  <2>2. CASE epc' # "idle"
    BY <1>3, <2>2 DEF Attempted, AfterConnect
  <2> QED BY <2>1, <2>2
<1>4. CASE SetupProxy
  <2>1. CASE epc' = "idle" /\ running' /\ server' = "listening"
    <3>1. Lifecycle!Serve
      BY <1>4, <2>1 DEF SetupProxy, Lifecycle!Serve
    <3> QED BY <3>1 DEF Lifecycle!Next
  <2>2. CASE epc' = "cleanup" /\ server' = "created"
    <3>1. Lifecycle!BeginStop
      BY <1>4, <2>2 DEF SetupProxy, Lifecycle!BeginStop
    <3> QED BY <3>1 DEF Lifecycle!Next
  <2> QED BY <1>4, <2>1, <2>2 DEF SetupProxy, AfterBindFailure
<1>5. CASE Stop
  <2>1. Lifecycle!BeginStop
    BY <1>5 DEF Stop, Lifecycle!BeginStop
  <2> QED BY <2>1 DEF Lifecycle!Next
<1>6. CASE CleanupServer
  <2>1. CASE server = "listening"
    <3>1. Lifecycle!StopServing
      BY <1>6, <2>1 DEF CleanupServer, DropServer, Lifecycle!StopServing
    <3> QED BY <3>1 DEF Lifecycle!Next
  <2>2. CASE server # "listening"
    BY <1>6, <2>2 DEF CleanupServer, DropServer
  <2> QED BY <2>1, <2>2
<1>7. CASE TunnelDeleted
  <2>1. Lifecycle!Stopped
    BY <1>7 DEF TunnelDeleted, Lifecycle!Stopped
  <2> QED BY <2>1 DEF Lifecycle!Next
<1>8. CASE InTunnel
  BY <1>8, InTunnelStep
<1>9. CASE Killed
  <2>1. Lifecycle!Die
    BY <1>9 DEF Killed, Lifecycle!Die
  <2> QED BY <2>1 DEF Lifecycle!Next
<1>10. CASE Attempt
  BY <1>10 DEF Attempt, Connect
<1>11. CASE CleanupTunnel
  BY <1>11 DEF CleanupTunnel, Disconnect, TypeOK
<1>12. ASSUME NEW configured \in Configured, NEW auto \in BOOLEAN, Initialize(configured, auto)
       PROVE  UNCHANGED Lifecycle!lifecycle
  BY <1>12 DEF Initialize
<1>13. CASE Environment /\ UNCHANGED proxyVars
  BY <1>13 DEF Environment, OtherTun, TunnelUp, Exit
<1>14. CASE UNCHANGED vars
  BY <1>14
<1> QED
  BY <1>1, <1>2, <1>3, <1>4, <1>5, <1>6, <1>7, <1>8, <1>9, <1>10, <1>11, <1>12,
     <1>13, <1>14
  DEF Next, ProxyStep

\* The proxy does what ProxyLifecycle promises.
THEOREM ProxyImplementsLifecycle == Spec => ImplementsLifecycle
BY LifecycleInit, LifecycleStep, ProxySafe, PTL
DEF Spec, ImplementsLifecycle, Lifecycle!Spec
=========================================================================
