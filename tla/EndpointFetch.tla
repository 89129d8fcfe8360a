------------------------- MODULE EndpointFetch -------------------------
(***************************************************************************)
(* The two ways src/wsnet/emergency_connect_impl.cpp hands out endpoints.   *)
(* getIpEndpoints spawns a detached worker that resolves, checks a cancel   *)
(* flag and calls back.  getIpEndpointsSync wraps it: the callback fills a  *)
(* result that lives in the caller's stack frame, the caller waits on a     *)
(* condition variable for at most timeoutMs, then cancels and falls back.   *)
(* A request is one call of either.  Requests share nothing.                *)
(***************************************************************************)
EXTENDS Naturals, Sequences, FiniteSets

CONSTANTS
  Requests,      \* calls of getIpEndpoints / getIpEndpointsSync
  DnsIps,        \* addresses the resolver may return
  HardcodedIps   \* addresses of the hardcoded endpoints

ASSUME FetchAssumption ==
  /\ IsFiniteSet(HardcodedIps) /\ HardcodedIps # {}
  /\ IsFiniteSet(DnsIps)

VARIABLES
  kind,      \* "unused", "async" or "sync"
  worker,    \* where the detached thread of a request is
  batch,     \* allEndpoints: what the worker will deliver
  canceled,  \* WSNetCancelableCallback::canceled_
  caller,    \* where the thread inside getIpEndpointsSync is
  mtx,       \* who holds the frame's mutex
  notified,  \* notify_one reached the caller blocked in wait_for
  expired,   \* timeoutMs has passed
  done,      \* the frame's done flag
  result,    \* the frame's resultEndpoints
  answer     \* what the call handed back: return value, or callback argument

vars == <<kind, worker, batch, canceled, caller, mtx, notified, expired, done,
          result, answer>>
frame == <<mtx, notified, done, result>>

------------------------------------------------------------------------
(* Endpoint lists.  std::shuffle may produce any order. *)

Orders(S) == { f \in [1..Cardinality(S) -> S] :
                 \A i, j \in 1..Cardinality(S) : f[i] = f[j] => i = j }

Endpoint == [ip : DnsIps, port : {443}, protocol : {"udp", "tcp"}]
              \cup [ip : HardcodedIps, port : {1194}, protocol : {"udp"}]

EndpointList == Seq(Endpoint)

\* Every resolved address is offered over UDP, then over TCP.
Dynamic(ips) ==
  [i \in 1..(2 * Len(ips)) |->
     [ip |-> ips[(i + 1) \div 2], port |-> 443,
      protocol |-> IF i % 2 = 1 THEN "udp" ELSE "tcp"]]

\* Mutant: the fallback is offered on the port of the resolved addresses.
HardcodedMutant(ips) ==
  [i \in 1..Len(ips) |-> [ip |-> ips[i], port |-> 443, protocol |-> "udp"]]

Hardcoded(ips) ==
  [i \in 1..Len(ips) |-> [ip |-> ips[i], port |-> 1194, protocol |-> "udp"]]

\* getHardcodedEndpoints() itself: one fixed order.
Fallback == Hardcoded(CHOOSE ips \in Orders(HardcodedIps) : TRUE)

\* Mutant: the fallback is appended only when the resolver gave nothing.
BatchesMutant(S) ==
  { IF S = {} THEN Hardcoded(fixed) ELSE Dynamic(dns) :
      dns \in Orders(S), fixed \in Orders(HardcodedIps) }

\* allEndpoints when the resolver returned the addresses S.
Batches(S) ==
  { Dynamic(dns) \o Hardcoded(fixed) :
      dns \in Orders(S), fixed \in Orders(HardcodedIps) }

------------------------------------------------------------------------
Init ==
  /\ kind = [r \in Requests |-> "unused"]
  /\ worker = [r \in Requests |-> "none"]
  /\ batch = [r \in Requests |-> <<>>]
  /\ canceled = [r \in Requests |-> FALSE]
  /\ caller = [r \in Requests |-> "none"]
  /\ mtx = [r \in Requests |-> "free"]
  /\ notified = [r \in Requests |-> FALSE]
  /\ expired = [r \in Requests |-> FALSE]
  /\ done = [r \in Requests |-> FALSE]
  /\ result = [r \in Requests |-> <<>>]
  /\ answer = [r \in Requests |-> <<>>]

\* getIpEndpoints(callback): a cancel handle and a detached thread.
GetIpEndpoints(r) ==
  /\ kind[r] = "unused"
  /\ kind' = [kind EXCEPT ![r] = "async"]
  /\ worker' = [worker EXCEPT ![r] = "resolving"]
  /\ UNCHANGED <<batch, canceled, caller, frame, expired, answer>>

\* getIpEndpointsSync(timeoutMs) up to the lock: the frame, then the worker.
GetIpEndpointsSync(r) ==
  /\ kind[r] = "unused"
  /\ kind' = [kind EXCEPT ![r] = "sync"]
  /\ worker' = [worker EXCEPT ![r] = "resolving"]
  /\ caller' = [caller EXCEPT ![r] = "locking"]
  /\ UNCHANGED <<batch, canceled, frame, expired, answer>>

\* The owner of the returned handle cancels an asynchronous request.
Cancel(r) ==
  /\ kind[r] = "async" /\ ~canceled[r]
  /\ canceled' = [canceled EXCEPT ![r] = TRUE]
  /\ UNCHANGED <<kind, worker, batch, caller, frame, expired, answer>>

------------------------------------------------------------------------
(* The detached thread. *)

\* resolveDomain blocks for as long as the resolver does; it may find nothing.
Resolve(r) ==
  /\ worker[r] = "resolving"
  /\ \E S \in SUBSET DnsIps : \E list \in Batches(S) :
       batch' = [batch EXCEPT ![r] = list]
  /\ worker' = [worker EXCEPT ![r] = "checking"]
  /\ UNCHANGED <<kind, canceled, caller, frame, expired, answer>>

\* Mutant: the cancel flag is not consulted.
IsCanceledMutant(r) == FALSE

IsCanceled(r) == canceled[r]

\* The only look at the cancel flag; the callback is called some time later.
CheckCanceled(r) ==
  /\ worker[r] = "checking"
  /\ worker' = [worker EXCEPT ![r] = IF IsCanceled(r) THEN "dropped" ELSE "calling"]
  /\ UNCHANGED <<kind, batch, canceled, caller, frame, expired, answer>>

\* callback(allEndpoints): a client's callback runs to its end; the one of
\* getIpEndpointsSync has to take the frame's mutex first.
Invoke(r) ==
  /\ worker[r] = "calling"
  /\ \/ /\ kind[r] = "async"
        /\ answer' = [answer EXCEPT ![r] = batch[r]]
        /\ worker' = [worker EXCEPT ![r] = "finished"]
     \/ /\ kind[r] = "sync"
        /\ worker' = [worker EXCEPT ![r] = "locking"]
        /\ UNCHANGED answer
  /\ UNCHANGED <<kind, batch, canceled, caller, frame, expired>>

FrameLive(r) == caller[r] \notin {"none", "returned"}

\* Mutant: the callback writes the frame without taking its mutex.
CallbackLockMutant(r) ==
  /\ worker[r] = "locking" /\ FrameLive(r)
  /\ worker' = [worker EXCEPT ![r] = "storing"]
  /\ UNCHANGED <<kind, batch, canceled, caller, frame, expired, answer>>

\* std::unique_lock in the callback.
CallbackLock(r) ==
  /\ worker[r] = "locking" /\ FrameLive(r) /\ mtx[r] = "free"
  /\ mtx' = [mtx EXCEPT ![r] = "worker"]
  /\ worker' = [worker EXCEPT ![r] = "storing"]
  /\ UNCHANGED <<kind, batch, canceled, caller, notified, expired, done, result, answer>>

\* Mutant: notify_one forgotten.
NotifyOneMutant(r) == UNCHANGED notified

\* cv.notify_one() wakes the caller only if it is blocked already.
NotifyOne(r) == notified' = [notified EXCEPT ![r] = caller[r] = "blocked"]

\* resultEndpoints = endpoints; done = true; notify_one.
CallbackStore(r) ==
  /\ worker[r] = "storing" /\ FrameLive(r)
  /\ result' = [result EXCEPT ![r] = batch[r]]
  /\ done' = [done EXCEPT ![r] = TRUE]
  /\ NotifyOne(r)
  /\ worker' = [worker EXCEPT ![r] = "unlocking"]
  /\ UNCHANGED <<kind, batch, canceled, caller, mtx, expired, answer>>

CallbackUnlock(r) ==
  /\ worker[r] = "unlocking" /\ FrameLive(r)
  /\ mtx' = [mtx EXCEPT ![r] = "free"]
  /\ worker' = [worker EXCEPT ![r] = "finished"]
  /\ UNCHANGED <<kind, batch, canceled, caller, notified, expired, done, result, answer>>

\* Inside the callback, but getIpEndpointsSync has returned: mutex, flag and
\* list are dead stack memory and the behaviour is undefined from here on.
UseDeadFrame(r) ==
  /\ worker[r] \in {"locking", "storing", "unlocking"} /\ ~FrameLive(r)
  /\ worker' = [worker EXCEPT ![r] = "stray"]
  /\ UNCHANGED <<kind, batch, canceled, caller, frame, expired, answer>>

------------------------------------------------------------------------
(* The thread inside getIpEndpointsSync. *)

\* The clock of wait_for, which starts when it blocks.
Expire(r) ==
  /\ caller[r] = "blocked" /\ ~expired[r]
  /\ expired' = [expired EXCEPT ![r] = TRUE]
  /\ UNCHANGED <<kind, worker, batch, canceled, caller, frame, answer>>

\* Lock, then the predicate of wait_for before it blocks for the first time.
Lock(r) ==
  /\ caller[r] = "locking" /\ mtx[r] = "free"
  /\ IF done[r]
       THEN /\ mtx' = [mtx EXCEPT ![r] = "caller"]
            /\ caller' = [caller EXCEPT ![r] = "leaving"]
            /\ answer' = [answer EXCEPT ![r] = result[r]]
       ELSE /\ caller' = [caller EXCEPT ![r] = "blocked"]
            /\ UNCHANGED <<mtx, answer>>
  /\ UNCHANGED <<kind, worker, batch, canceled, notified, expired, done, result>>

\* Mutant: the time-out is trusted without testing done once more.
AnsweredMutant(r) == done[r] /\ ~expired[r]

Answered(r) == done[r]

\* Mutant: wait without a deadline.
MayWakeMutant(r) == notified[r]

MayWake(r) == notified[r] \/ expired[r]

\* wait_for takes the mutex back and tests the predicate a last time.  A
\* spurious wake-up blocks again: it is a stuttering step.
Wake(r) ==
  /\ caller[r] = "blocked" /\ mtx[r] = "free"
  /\ MayWake(r)
  /\ mtx' = [mtx EXCEPT ![r] = "caller"]
  /\ IF Answered(r)
       THEN /\ caller' = [caller EXCEPT ![r] = "leaving"]
            /\ answer' = [answer EXCEPT ![r] = result[r]]
       ELSE /\ caller' = [caller EXCEPT ![r] = "cancelling"]
            /\ UNCHANGED answer
  /\ UNCHANGED <<kind, worker, batch, canceled, notified, expired, done, result>>

\* cancelable->cancel(); return getHardcodedEndpoints().
TimeOut(r) ==
  /\ caller[r] = "cancelling"
  /\ canceled' = [canceled EXCEPT ![r] = TRUE]
  /\ answer' = [answer EXCEPT ![r] = Fallback]
  /\ caller' = [caller EXCEPT ![r] = "leaving"]
  /\ UNCHANGED <<kind, worker, batch, frame, expired>>

\* Destructors in reverse order: the lock is released first ...
Unlock(r) ==
  /\ caller[r] = "leaving"
  /\ mtx' = [mtx EXCEPT ![r] = "free"]
  /\ caller' = [caller EXCEPT ![r] = "unwinding"]
  /\ UNCHANGED <<kind, worker, batch, canceled, notified, expired, done, result, answer>>

\* ... then the rest of the frame is gone.
Return(r) ==
  /\ caller[r] = "unwinding"
  /\ caller' = [caller EXCEPT ![r] = "returned"]
  /\ UNCHANGED <<kind, worker, batch, canceled, frame, expired, answer>>

------------------------------------------------------------------------
WorkerStep(r) ==
  \/ CheckCanceled(r) \/ Invoke(r) \/ CallbackLock(r) \/ CallbackStore(r)
  \/ CallbackUnlock(r) \/ UseDeadFrame(r)

CallerStep(r) == Lock(r) \/ Wake(r) \/ TimeOut(r) \/ Unlock(r) \/ Return(r)

Next == \E r \in Requests :
  \/ GetIpEndpoints(r) \/ GetIpEndpointsSync(r) \/ Cancel(r)
  \/ Resolve(r) \/ WorkerStep(r) \/ Expire(r) \/ CallerStep(r)

Spec == Init /\ [][Next]_vars

\* Threads that can run do run and the clock advances.  Nothing is assumed of
\* the resolver.
Fairness == \A r \in Requests :
  WF_vars(WorkerStep(r)) /\ WF_vars(CallerStep(r)) /\ WF_vars(Expire(r))

FairSpec == Spec /\ Fairness

------------------------------------------------------------------------
(* Properties. *)

\* Every variable stays within the values the code gives it.
TypeOK ==
  /\ kind \in [Requests -> {"unused", "async", "sync"}]
  /\ worker \in [Requests -> {"none", "resolving", "checking", "dropped", "calling",
                              "locking", "storing", "unlocking", "finished", "stray"}]
  /\ batch \in [Requests -> EndpointList]
  /\ canceled \in [Requests -> BOOLEAN]
  /\ caller \in [Requests -> {"none", "locking", "blocked", "cancelling", "leaving",
                              "unwinding", "returned"}]
  /\ mtx \in [Requests -> {"free", "worker", "caller"}]
  /\ notified \in [Requests -> BOOLEAN]
  /\ expired \in [Requests -> BOOLEAN]
  /\ done \in [Requests -> BOOLEAN]
  /\ result \in [Requests -> EndpointList]
  /\ answer \in [Requests -> EndpointList]

HandedBack(r) == caller[r] = "returned" \/ (kind[r] = "async" /\ worker[r] = "finished")

Offers(list, ip) == \E i \in 1..Len(list) : list[i].ip = ip /\ list[i].port = 1194

\* Whatever the resolver and the clock do, the list that comes back offers
\* every hardcoded endpoint, so it is never empty (getIpEndpointsSync,
\* emergency_connect_impl.cpp:174-217; the start sequence relies on it).
AnswerUsable ==
  \A r \in Requests : HandedBack(r) => \A ip \in HardcodedIps : Offers(answer[r], ip)

\* A synchronous call that did not give up returns only after its callback has
\* run to the end: the worker can no longer reach the frame that is destroyed
\* (emergency_connect_impl.cpp:203-217).
NoLateCallback ==
  \A r \in Requests :
    caller[r] = "returned" /\ ~canceled[r] => worker[r] = "finished"

\* An answer stored before the deadline is tested is never thrown away for the
\* fallback (the second predicate test of wait_for, line 211).
AnswerNotDiscarded ==
  \A r \in Requests :
    \/ caller[r] = "cancelling"
    \/ caller[r] = "leaving" /\ canceled[r]
    => ~done[r]

\* A blocked caller whose callback is over has been notified: it does not sleep
\* on to the deadline (lines 204-207 against 210-211).
NoLostWakeup ==
  \A r \in Requests :
    caller[r] = "blocked" /\ worker[r] = "finished" => notified[r]

\* A request cancelled before its worker looks at the flag never calls back
\* (line 183).
EarlyCancelIsFinal ==
  \A r \in Requests :
    [](/\ canceled[r] /\ worker[r] \in {"resolving", "checking"}
       => [](worker[r] \in {"resolving", "checking", "dropped"}))

\* getIpEndpointsSync returns even if the resolver never does (line 211).
SyncReturns == \A r \in Requests : kind[r] = "sync" ~> caller[r] = "returned"

\* The contract stated by tests/test_wsnet.cpp:52, "Canceled callback must not
\* be invoked".
CanceledNotInvoked ==
  [][\A r \in Requests : Invoke(r) => ~canceled[r]]_vars

\* The same contract for the request that getIpEndpointsSync cancels itself
\* before it destroys the frame its callback writes to (lines 213-218).
CanceledFrameUntouched == \A r \in Requests : worker[r] # "stray"
========================================================================
