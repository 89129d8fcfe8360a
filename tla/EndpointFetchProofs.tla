----------------------- MODULE EndpointFetchProofs -----------------------
(***************************************************************************)
(* Proofs about EndpointFetch for any set of requests and addresses.        *)
(* FetchInv is inductive: it says, request by request, who holds the        *)
(* frame's mutex, when done may be set, and when the frame may be gone.     *)
(***************************************************************************)
EXTENDS EndpointFetch, FiniteSetTheorems, SequenceTheorems, TLAPS

\* Which thread a request of each kind has, and how far it can get.
KindInv(r) ==
  /\ kind[r] = "unused" => worker[r] = "none" /\ caller[r] = "none" /\ ~canceled[r]
  /\ kind[r] = "async" => /\ caller[r] = "none"
                          /\ worker[r] \notin {"locking", "storing", "unlocking", "stray"}
  /\ kind[r] = "sync" => caller[r] # "none" /\ worker[r] # "none"

\* While the frame exists its mutex excludes the two threads.
MutexInv(r) ==
  caller[r] # "returned" =>
    /\ mtx[r] = "worker" <=> worker[r] \in {"storing", "unlocking"}
    /\ mtx[r] = "caller" <=> caller[r] \in {"cancelling", "leaving"}
    /\ worker[r] # "stray"

\* done tells how far the callback has got; the caller relies on it.
DoneInv(r) ==
  /\ worker[r] \in {"none", "resolving", "checking", "calling", "dropped", "locking", "storing"}
       => ~done[r]
  /\ kind[r] = "sync" /\ worker[r] \in {"unlocking", "finished"} => done[r]
  /\ caller[r] = "blocked" /\ done[r] => notified[r]
  /\ kind[r] = "sync" /\ canceled[r] => caller[r] \in {"leaving", "unwinding", "returned"}
  /\ caller[r] = "cancelling" => ~done[r]
  /\ caller[r] = "leaving" /\ canceled[r] => ~done[r]
  /\ caller[r] \in {"leaving", "unwinding", "returned"} /\ ~canceled[r]
       => worker[r] = "finished"

RequestInv(r) == KindInv(r) /\ MutexInv(r) /\ DoneInv(r)

FetchInv == TypeOK /\ \A r \in Requests : RequestInv(r)

USE DEF frame, vars

------------------------------------------------------------------------
(* The endpoint lists. *)

\* std::shuffle loses no element: an order of S reaches every element.
LEMMA OrderCovers ==
  ASSUME NEW S, IsFiniteSet(S), NEW f \in Orders(S)
  PROVE  /\ Cardinality(S) \in Nat
         /\ f \in [1..Cardinality(S) -> S]
         /\ \A e \in S : \E i \in 1..Cardinality(S) : f[i] = e
<1> DEFINE n == Cardinality(S)
<1>1. n \in Nat
  BY FS_CardinalityType
<1>2. f \in [1..n -> S] /\ \A i, j \in 1..n : f[i] = f[j] => i = j
  BY DEF Orders
<1>3. f \in Injection(1..n, S)
  BY <1>2 DEF Injection, IsInjective
<1>4. Cardinality(1..n) = n
  BY <1>1, FS_Interval
<1>5. f \in Surjection(1..n, S)
  BY <1>1, <1>3, <1>4, FS_Injection
<1> QED BY <1>1, <1>2, <1>5 DEF Surjection

\* There is an order of every finite set.
LEMMA OrderExists ==
  ASSUME NEW S, IsFiniteSet(S)
  PROVE  Orders(S) # {}
<1>1. PICK f : f \in Bijection(1..Cardinality(S), S)
  BY FS_CardinalityType DEF ExistsBijection
<1>2. f \in Orders(S)
  BY <1>1 DEF Bijection, Injection, IsInjective, Orders
<1> QED BY <1>2

Usable(list) == \A ip \in HardcodedIps : Offers(list, ip)

\* getHardcodedEndpoints() offers every hardcoded endpoint.
LEMMA FallbackUsable == Fallback \in EndpointList /\ Usable(Fallback)
<1> DEFINE ips == CHOOSE s \in Orders(HardcodedIps) : TRUE
<1>1. ips \in Orders(HardcodedIps)
  BY OrderExists, FetchAssumption
<1> HIDE DEF ips
<1>2. /\ Cardinality(HardcodedIps) \in Nat
      /\ ips \in [1..Cardinality(HardcodedIps) -> HardcodedIps]
      /\ \A e \in HardcodedIps : \E i \in 1..Cardinality(HardcodedIps) : ips[i] = e
  BY <1>1, OrderCovers, FetchAssumption
<1>3. Len(ips) = Cardinality(HardcodedIps)
  BY <1>2
<1>4. Usable(Hardcoded(ips))
  BY <1>2, <1>3 DEF Usable, Offers, Hardcoded
<1>5. Hardcoded(ips) \in EndpointList
  BY <1>2, <1>3 DEF Hardcoded, Endpoint, EndpointList
<1> QED BY <1>4, <1>5 DEF Fallback, ips

\* So does every list a worker can build (lines 166-181).
LEMMA BatchUsable ==
  ASSUME NEW S \in SUBSET DnsIps, NEW list \in Batches(S)
  PROVE  list \in EndpointList /\ Usable(list)
<1>1. PICK dns \in Orders(S), fixed \in Orders(HardcodedIps) :
        list = Dynamic(dns) \o Hardcoded(fixed)
  BY DEF Batches
<1>2. IsFiniteSet(S)
  BY FetchAssumption, FS_Subset
<1>3. /\ Cardinality(S) \in Nat
      /\ dns \in [1..Cardinality(S) -> S]
  BY <1>2, OrderCovers
<1>4. /\ Cardinality(HardcodedIps) \in Nat
      /\ fixed \in [1..Cardinality(HardcodedIps) -> HardcodedIps]
      /\ \A e \in HardcodedIps : \E i \in 1..Cardinality(HardcodedIps) : fixed[i] = e
  BY OrderCovers, FetchAssumption
<1> DEFINE D == Dynamic(dns)
           H == Hardcoded(fixed)
<1>5. Len(dns) = Cardinality(S) /\ Len(fixed) = Cardinality(HardcodedIps)
  BY <1>3, <1>4
<1>6. D \in Seq(Endpoint) /\ Len(D) = 2 * Cardinality(S)
  <2>1. \A i \in 1..(2 * Cardinality(S)) : (i + 1) \div 2 \in 1..Cardinality(S)
    BY <1>3
  <2>2. D \in [1..(2 * Cardinality(S)) -> Endpoint]
    BY <1>3, <1>5, <2>1 DEF Dynamic, Endpoint
  <2> HIDE DEF D
  <2> QED BY <1>3, <2>2
<1>7. H \in Seq(Endpoint) /\ Len(H) = Cardinality(HardcodedIps)
  <2>1. H \in [1..Cardinality(HardcodedIps) -> Endpoint]
    BY <1>4, <1>5 DEF Hardcoded, Endpoint
  <2> HIDE DEF H
  <2> QED BY <1>4, <2>1
<1>8. \A j \in 1..Cardinality(HardcodedIps) : H[j].ip = fixed[j] /\ H[j].port = 1194
  BY <1>5 DEF Hardcoded
<1> HIDE DEF D, H
<1>9. \A j \in 1..Cardinality(HardcodedIps) :
        /\ 2 * Cardinality(S) + j \in 1..Len(list)
        /\ list[2 * Cardinality(S) + j] = H[j]
  <2>1. list = D \o H
    BY <1>1 DEF D, H
  <2>2. PICK d, h : d = 2 * Cardinality(S) /\ h = Cardinality(HardcodedIps)
    OBVIOUS
  <2>3. d \in Nat /\ h \in Nat /\ Len(D) = d /\ Len(H) = h
    BY <1>3, <1>4, <1>6, <1>7, <2>2
  <2>4. \A j \in 1..h : d + j \in 1..Len(D \o H) /\ (D \o H)[d + j] = H[j]
    BY ONLY <1>6, <1>7, <2>3
  <2> QED BY ONLY <2>1, <2>2, <2>4
<1>l. list \in EndpointList
  BY <1>1, <1>6, <1>7 DEF D, H, EndpointList
<1> SUFFICES ASSUME NEW ip \in HardcodedIps PROVE Offers(list, ip)
  BY <1>l DEF Usable
<1>10. PICK j \in 1..Cardinality(HardcodedIps) : fixed[j] = ip
  BY <1>4
<1> QED BY <1>8, <1>9, <1>10 DEF Offers

------------------------------------------------------------------------
(* The inductive invariant. *)

\* No request has been made: the invariant holds.
LEMMA InitInv == Init => FetchInv
<1>1. <<>> \in EndpointList
  BY DEF EndpointList
<1> QED BY <1>1 DEF Init, FetchInv, TypeOK, RequestInv, KindInv, MutexInv, DoneInv

\* The actions of a request touch nothing of another one.
LEMMA StepInv ==
  ASSUME FetchInv, NEW r \in Requests,
         \/ GetIpEndpoints(r) \/ GetIpEndpointsSync(r) \/ Cancel(r)
         \/ Resolve(r) \/ WorkerStep(r) \/ Expire(r) \/ CallerStep(r)
  PROVE  FetchInv'
<1> USE DEF FetchInv, RequestInv
<1> USE DEF TypeOK, KindInv, MutexInv, DoneInv
<1>1. CASE GetIpEndpoints(r)
  BY <1>1 DEF GetIpEndpoints
<1>2. CASE GetIpEndpointsSync(r)
  BY <1>2 DEF GetIpEndpointsSync
<1>3. CASE Cancel(r)
  BY <1>3 DEF Cancel
<1>4. CASE Resolve(r)
  <2> PICK S \in SUBSET DnsIps : \E list \in Batches(S) : batch' = [batch EXCEPT ![r] = list]
    BY <1>4 DEF Resolve
  <2> PICK list \in EndpointList : batch' = [batch EXCEPT ![r] = list]
    BY BatchUsable
  <2> QED BY <1>4 DEF Resolve
<1>5. CASE CheckCanceled(r)
  BY <1>5 DEF CheckCanceled, IsCanceled
<1>6. CASE Invoke(r)
  BY <1>6 DEF Invoke
<1>7. CASE CallbackLock(r)
  BY <1>7 DEF CallbackLock, FrameLive
<1>8. CASE CallbackStore(r)
  <2>1. CASE caller[r] = "blocked"
    <3>1. notified' = [notified EXCEPT ![r] = TRUE]
      BY <1>8, <2>1 DEF CallbackStore, NotifyOne
    <3> QED BY <1>8, <2>1, <3>1 DEF CallbackStore, FrameLive
  <2>2. CASE caller[r] # "blocked"
    <3>1. notified' = [notified EXCEPT ![r] = FALSE]
      BY <1>8, <2>2 DEF CallbackStore, NotifyOne
    <3> QED BY <1>8, <2>2, <3>1 DEF CallbackStore, FrameLive
  <2> QED BY <2>1, <2>2
<1>9. CASE CallbackUnlock(r)
  BY <1>9 DEF CallbackUnlock, FrameLive
<1>10. CASE UseDeadFrame(r)
  BY <1>10 DEF UseDeadFrame, FrameLive
<1>11. CASE Expire(r)
  BY <1>11 DEF Expire
<1>12. CASE Lock(r)
  <2>1. CASE done[r]
    BY <1>12, <2>1 DEF Lock
  <2>2. CASE ~done[r]
    BY <1>12, <2>2 DEF Lock
  <2> QED BY <2>1, <2>2
<1>13. CASE Wake(r)
  <2>1. CASE done[r]
    BY <1>13, <2>1 DEF Wake, Answered
  <2>2. CASE ~done[r]
    BY <1>13, <2>2 DEF Wake, Answered
  <2> QED BY <2>1, <2>2
<1>14. CASE TimeOut(r)
  BY <1>14, FallbackUsable DEF TimeOut
<1>15. CASE Unlock(r)
  BY <1>15 DEF Unlock
<1>16. CASE Return(r)
  BY <1>16 DEF Return
<1> QED
  BY <1>1, <1>2, <1>3, <1>4, <1>5, <1>6, <1>7, <1>8, <1>9, <1>10, <1>11, <1>12,
     <1>13, <1>14, <1>15, <1>16
  DEF WorkerStep, CallerStep

\* Every step preserves the invariant.
LEMMA NextInv == FetchInv /\ [Next]_vars => FetchInv'
<1> SUFFICES ASSUME FetchInv, [Next]_vars PROVE FetchInv'
  OBVIOUS
<1>1. CASE Next
  BY <1>1, StepInv DEF Next
<1>2. CASE UNCHANGED vars
  BY <1>2 DEF FetchInv, TypeOK, RequestInv, KindInv, MutexInv, DoneInv
<1> QED BY <1>1, <1>2

\* The inductive invariant holds for any number of concurrent requests.
THEOREM FetchSafe == Spec => []FetchInv
BY InitInv, NextInv, PTL DEF Spec

\* Type correctness of the fetch.
THEOREM FetchTypeCorrect == Spec => []TypeOK
BY FetchSafe, PTL DEF FetchInv

\* A synchronous call that did not time out outlives its callback.
THEOREM FetchNoLateCallback == Spec => []NoLateCallback
<1>1. FetchInv => NoLateCallback
  BY DEF FetchInv, RequestInv, DoneInv, NoLateCallback
<1> QED BY <1>1, FetchSafe, PTL

\* A stored answer is never replaced by the fallback.
THEOREM FetchAnswerNotDiscarded == Spec => []AnswerNotDiscarded
<1>1. FetchInv => AnswerNotDiscarded
  BY DEF FetchInv, RequestInv, DoneInv, AnswerNotDiscarded
<1> QED BY <1>1, FetchSafe, PTL

\* A caller never sleeps on after its callback is over.
THEOREM FetchNoLostWakeup == Spec => []NoLostWakeup
<1>1. FetchInv => NoLostWakeup
  BY DEF FetchInv, TypeOK, RequestInv, KindInv, DoneInv, NoLostWakeup
<1> QED BY <1>1, FetchSafe, PTL
------------------------------------------------------------------------
(* What a caller can count on finding in the list it gets. *)

\* A worker past its resolver, a frame that is done and a call that is over
\* hold a usable list.
ListInv(r) ==
  /\ worker[r] \notin {"none", "resolving"} => Usable(batch[r])
  /\ done[r] => Usable(result[r])
  /\ caller[r] \in {"leaving", "unwinding", "returned"} => Usable(answer[r])
  /\ kind[r] = "async" /\ worker[r] = "finished" => Usable(answer[r])

UsableInv == FetchInv /\ \A r \in Requests : ListInv(r)

\* Every step keeps the stored lists usable.
LEMMA UsableNext == UsableInv /\ [Next]_vars => UsableInv'
<1> SUFFICES ASSUME UsableInv, [Next]_vars PROVE \A q \in Requests : ListInv(q)'
  BY NextInv DEF UsableInv
<1> USE DEF UsableInv, ListInv
<1>1. ASSUME NEW r \in Requests, Resolve(r) PROVE \A q \in Requests : ListInv(q)'
  <2>1. PICK S \in SUBSET DnsIps : \E list \in Batches(S) : batch' = [batch EXCEPT ![r] = list]
    BY <1>1 DEF Resolve
  <2>2. PICK list \in Batches(S) : batch' = [batch EXCEPT ![r] = list]
    BY <2>1
  <2>3. Usable(list)
    BY BatchUsable
  <2> QED BY <1>1, <2>2, <2>3 DEF Resolve, FetchInv, TypeOK, RequestInv, KindInv, DoneInv
<1>2. ASSUME NEW r \in Requests, CallerStep(r) PROVE \A q \in Requests : ListInv(q)'
  <2> USE DEF FetchInv, TypeOK
  <2>1. CASE Lock(r)
    BY <2>1 DEF Lock
  <2>2. CASE Wake(r)
    BY <2>2 DEF Wake, Answered
  <2>3. CASE TimeOut(r)
    BY <2>3, FallbackUsable DEF TimeOut
  <2>4. CASE Unlock(r)
    BY <2>4 DEF Unlock
  <2>5. CASE Return(r)
    BY <2>5 DEF Return
  <2> QED BY <1>2, <2>1, <2>2, <2>3, <2>4, <2>5 DEF CallerStep
<1>3. ASSUME NEW r \in Requests, WorkerStep(r) PROVE \A q \in Requests : ListInv(q)'
  <2> USE DEF FetchInv, TypeOK
  <2>1. CASE CheckCanceled(r)
    BY <2>1 DEF CheckCanceled
  <2>2. CASE Invoke(r)
    BY <2>2 DEF Invoke
  <2>3. CASE CallbackLock(r)
    BY <2>3 DEF CallbackLock, RequestInv, KindInv
  <2>4. CASE CallbackStore(r)
    BY <2>4 DEF CallbackStore
  <2>5. CASE CallbackUnlock(r)
    BY <2>5 DEF CallbackUnlock, RequestInv, KindInv
  <2>6. CASE UseDeadFrame(r)
    BY <2>6 DEF UseDeadFrame
  <2> QED BY <1>3, <2>1, <2>2, <2>3, <2>4, <2>5, <2>6 DEF WorkerStep
<1>4. ASSUME NEW r \in Requests,
             GetIpEndpoints(r) \/ GetIpEndpointsSync(r) \/ Cancel(r) \/ Expire(r)
      PROVE  \A q \in Requests : ListInv(q)'
  BY <1>4 DEF GetIpEndpoints, GetIpEndpointsSync, Cancel, Expire, FetchInv, TypeOK
<1>5. CASE UNCHANGED vars
  BY <1>5
<1> QED BY <1>1, <1>2, <1>3, <1>4, <1>5 DEF Next

\* Every list that is handed back offers all hardcoded endpoints.
THEOREM FetchAnswerUsable == Spec => []AnswerUsable
<1>1. Init => UsableInv
  BY InitInv DEF Init, UsableInv, ListInv
<1>2. UsableInv => AnswerUsable
  BY DEF UsableInv, ListInv, Usable, AnswerUsable, HandedBack
<1> QED BY <1>1, <1>2, UsableNext, PTL DEF Spec

------------------------------------------------------------------------
(* Cancelling. *)

\* Cancelled in time, or dropped for it.
CanceledEarly(r) ==
  \/ canceled[r] /\ worker[r] \in {"resolving", "checking"}
  \/ worker[r] = "dropped"

\* No step takes a request out of it: the flag is never cleared, and the worker
\* has yet to look at it.
LEMMA CanceledEarlyStable ==
  ASSUME NEW r \in Requests, FetchInv, CanceledEarly(r), [Next]_vars
  PROVE  CanceledEarly(r)'
<1> USE DEF CanceledEarly, FetchInv, TypeOK
<1>1. ASSUME NEW q \in Requests,
             \/ GetIpEndpoints(q) \/ GetIpEndpointsSync(q) \/ Cancel(q)
             \/ Resolve(q) \/ WorkerStep(q) \/ Expire(q) \/ CallerStep(q)
      PROVE  CanceledEarly(r)'
  <2>1. CASE GetIpEndpoints(q) \/ GetIpEndpointsSync(q)
    BY <2>1 DEF GetIpEndpoints, GetIpEndpointsSync, RequestInv, KindInv
  <2>2. CASE Cancel(q) \/ TimeOut(q)
    BY <2>2 DEF Cancel, TimeOut
  <2>3. CASE Resolve(q)
    BY <2>3 DEF Resolve
  <2>4. CASE CheckCanceled(q)
    BY <2>4 DEF CheckCanceled, IsCanceled
  <2>5. CASE Invoke(q) \/ CallbackLock(q) \/ CallbackStore(q) \/ CallbackUnlock(q) \/ UseDeadFrame(q)
    BY <2>5 DEF Invoke, CallbackLock, CallbackStore, CallbackUnlock, UseDeadFrame
  <2>6. CASE Expire(q) \/ Lock(q) \/ Wake(q) \/ Unlock(q) \/ Return(q)
    BY <2>6 DEF Expire, Lock, Wake, Unlock, Return
  <2> QED BY <1>1, <2>1, <2>2, <2>3, <2>4, <2>5, <2>6 DEF WorkerStep, CallerStep
<1>2. CASE UNCHANGED vars
  BY <1>2
<1> QED BY <1>1, <1>2 DEF Next

\* A request that is cancelled before its worker looks at the flag never calls back.
THEOREM FetchEarlyCancelIsFinal == Spec => EarlyCancelIsFinal
<1> SUFFICES ASSUME NEW r \in Requests
             PROVE  Spec => [](/\ canceled[r] /\ worker[r] \in {"resolving", "checking"}
                               => [](worker[r] \in {"resolving", "checking", "dropped"}))
  BY DEF EarlyCancelIsFinal
<1>1. canceled[r] /\ worker[r] \in {"resolving", "checking"} => CanceledEarly(r)
  BY DEF CanceledEarly
<1>2. CanceledEarly(r) => worker[r] \in {"resolving", "checking", "dropped"}
  BY DEF CanceledEarly
<1>3. FetchInv /\ CanceledEarly(r) /\ [Next]_vars => CanceledEarly(r)'
  BY CanceledEarlyStable
<1> QED BY <1>1, <1>2, <1>3, FetchSafe, PTL DEF Spec
==========================================================================
