------------------------- MODULE NetnsScript -------------------------
(***************************************************************************)
(* scripts/run_in_netns.sh: the host network is changed by a list of        *)
(* commands, any of which may fail (set -e); the program runs in the        *)
(* foreground; cleanup() is the trap of EXIT, INT and TERM, and any of its  *)
(* commands may fail as well, unheard (|| true).  bash runs a               *)
(* trap when the foreground command is over and then GOES ON with the       *)
(* script; a signal during cleanup() runs cleanup() within cleanup().       *)
(* SIGKILL runs no trap, and the script may be started again.               *)
(***************************************************************************)
EXTENDS Naturals, Sequences

CONSTANTS
  MaxRuns,   \* times the script is started
  MaxSignals \* INT and TERM sent to one run

ASSUME ScriptAssumption == MaxRuns \in Nat /\ MaxSignals \in Nat

VARIABLES
  mode,      \* "off", "setup", "exit" (EXIT trap) or "over"
  at,        \* command of the setup that is next
  cleaning,  \* calls of cleanup() under way, innermost last: their next command
  pending,   \* trapped signal not seen to yet: "none", "term", "int"
  sent, runs,
  host,      \* [ns, veth, nat, forward, resolv]: see TypeOK
  natBefore, \* host.nat when the run started
  resisted,  \* commands of cleanup() that last failed with something left to undo
  proxy,     \* the program runs in the foreground
  orphaned,  \* an earlier run left the program or its openvpn behind
  vpn        \* an openvpn of the program runs

script == <<mode, at, cleaning, pending, sent, runs, natBefore, resisted>>
programs == <<proxy, orphaned, vpn>>
vars == <<script, host, programs>>

Setup ==
  <<"deleteNs", "deleteVeth", "addNs", "loUp", "addVeth", "moveVeth", "hostAddr",
    "nsAddr", "forward", "nat", "resolvDir", "resolvConf", "launch">>

Cleanup == <<"pkill", "deleteNat", "deleteVeth", "deleteNs", "deleteResolv">>

CleanHost == [ns |-> FALSE, veth |-> "none", nat |-> 0, forward |-> FALSE, resolv |-> "none"]

Init ==
  /\ mode = "off" /\ at = 1 /\ cleaning = <<>> /\ pending = "none"
  /\ sent = 0 /\ runs = 0 /\ natBefore = 0
  /\ resisted = {} /\ host = CleanHost
  /\ proxy = FALSE /\ orphaned = FALSE /\ vpn = FALSE

------------------------------------------------------------------------
\* What a command needs; those followed by "|| true" need nothing.
Works(command) ==
  CASE command = "addNs" -> ~host.ns
    [] command \in {"loUp", "launch", "pkill"} -> host.ns
    [] command = "addVeth" -> host.veth = "none"
    [] command = "moveVeth" -> host.ns /\ host.veth = "host"
    [] command = "hostAddr" -> host.veth # "none"
    [] command = "nsAddr" -> host.ns /\ host.veth = "ns"
    [] command = "resolvConf" -> host.resolv # "none"
    [] OTHER -> TRUE

\* Mutant: the name of the namespace stays.
NamelessMutant(h) == h

\* ip netns delete takes the name away.  The namespace goes, and with it a veth
\* end inside, once no process is left in it.
Nameless(h) == [h EXCEPT !.ns = FALSE]

\* Mutant: the rule is appended again.
OneRuleLessMutant(n) == n + 1

\* iptables -D removes one matching rule.
OneRuleLess(n) == IF n = 0 THEN 0 ELSE n - 1

\* Where a command may leave the host.
Effects(command) ==
  CASE command = "deleteNs" ->
         {[Nameless(host) EXCEPT !.veth = v] :
            v \in IF host.veth = "ns" /\ host.ns THEN {"none", "lost"} ELSE {host.veth}}
    [] command = "deleteVeth" -> {[host EXCEPT !.veth = "none"]}
    [] command = "addNs" -> {[host EXCEPT !.ns = TRUE]}
    [] command = "addVeth" -> {[host EXCEPT !.veth = "host"]}
    [] command = "moveVeth" -> {[host EXCEPT !.veth = "ns"]}
    [] command = "forward" -> {[host EXCEPT !.forward = TRUE]}
    [] command = "nat" -> {[host EXCEPT !.nat = @ + 1]}
    [] command = "deleteNat" -> {[host EXCEPT !.nat = OneRuleLess(@)]}
    [] command = "resolvDir" -> {[host EXCEPT !.resolv = IF @ = "none" THEN "dir" ELSE @]}
    [] command = "resolvConf" -> {[host EXCEPT !.resolv = "file"]}
    [] command = "deleteResolv" -> {[host EXCEPT !.resolv = "none"]}
    [] OTHER -> {host}

\* The script is started, as root and with the program built.
Run ==
  /\ mode \in {"off", "over"} /\ runs < MaxRuns
  /\ runs' = runs + 1
  /\ mode' = "setup" /\ at' = 1 /\ sent' = 0
  /\ natBefore' = host.nat /\ resisted' = {}
  /\ orphaned' = (orphaned \/ vpn)
  /\ UNCHANGED <<cleaning, pending, host, proxy, vpn>>

\* Nothing runs in the foreground, and no trap is due.
Undisturbed == ~proxy /\ pending = "none"

\* The next command of the setup, when nothing else is to be done first.  That one
\* of the first two fails goes unheard.
Command ==
  /\ Undisturbed /\ mode = "setup" /\ cleaning = <<>>
  /\ Works(Setup[at])
  /\ host' \in Effects(Setup[at]) \cup (IF at <= 2 THEN {host} ELSE {})
  /\ IF at < Len(Setup) THEN at' = at + 1 /\ UNCHANGED proxy
     ELSE proxy' = TRUE /\ UNCHANGED at
  /\ UNCHANGED <<mode, cleaning, pending, sent, runs, natBefore, resisted, orphaned, vpn>>

\* Mutant: cleanup is the trap of INT and TERM only.
OnExitMutant == mode' = "exit" /\ cleaning' = <<>>

\* The script leaves its commands, and the trap of EXIT calls cleanup().
OnExit == mode' = "exit" /\ cleaning' = <<1>>

\* Mutant: no set -e.
AfterFailureMutant ==
  IF at < Len(Setup) THEN at' = at + 1 /\ UNCHANGED <<mode, cleaning>>
  ELSE OnExit /\ UNCHANGED at

AfterFailure == OnExit /\ UNCHANGED at

\* Any command may fail, but for the first two.
CommandFails ==
  /\ Undisturbed /\ mode = "setup" /\ cleaning = <<>>
  /\ at > 2
  /\ AfterFailure
  /\ UNCHANGED <<pending, sent, runs, natBefore, resisted, host, programs>>

\* The program is over, one way or another, and with it the last command.
ProxyEnds ==
  /\ proxy
  /\ proxy' = FALSE
  /\ OnExit
  /\ UNCHANGED <<at, pending, sent, runs, natBefore, resisted, host, orphaned, vpn>>

\* The trap of a signal calls cleanup().
Trap ==
  /\ ~proxy /\ pending # "none"
  /\ pending' = "none"
  /\ cleaning' = Append(cleaning, 1)
  /\ UNCHANGED <<mode, at, sent, runs, natBefore, resisted, host, programs>>

\* The innermost cleanup() is one command further.
Further ==
  LET outer == SubSeq(cleaning, 1, Len(cleaning) - 1)
      done == cleaning[Len(cleaning)]
  IN IF done < Len(Cleanup) THEN Append(outer, done + 1) ELSE outer

\* What a command of cleanup() is there to undo has been left.
Left(command) ==
  CASE command = "pkill" -> host.ns /\ vpn
    [] command = "deleteNat" -> host.nat > 0
    [] command = "deleteVeth" -> host.veth # "none"
    [] command = "deleteNs" -> host.ns
    [] OTHER -> host.resolv # "none"

\* A command of cleanup() works, or fails and is not heard.  pkill finds the
\* openvpn of this program, since it sees all processes.
CleanupCommand ==
  /\ Undisturbed /\ cleaning # <<>>
  /\ LET command == Cleanup[cleaning[Len(cleaning)]]
     IN \/ /\ Works(command)
           /\ host' \in Effects(command)
           /\ vpn' = (vpn /\ command # "pkill")
           /\ resisted' = resisted \ {command}
        \/ /\ resisted' = IF Left(command) THEN resisted \cup {command} ELSE resisted
           /\ UNCHANGED <<host, vpn>>
  /\ cleaning' = Further
  /\ UNCHANGED <<mode, at, pending, sent, runs, natBefore, proxy, orphaned>>

Finish ==
  /\ Undisturbed /\ mode = "exit" /\ cleaning = <<>>
  /\ mode' = "over"
  /\ UNCHANGED <<at, cleaning, pending, sent, runs, natBefore, resisted, host, programs>>

------------------------------------------------------------------------
\* Ctrl-C reaches the script, the program, and the command under way, which it
\* may end.  TERM reaches the script alone.
Signal(kind) ==
  /\ mode \in {"setup", "exit"} /\ sent < MaxSignals
  /\ sent' = sent + 1
  /\ pending' = IF pending = "int" THEN "int" ELSE kind
  /\ cleaning' \in IF kind = "int" /\ cleaning # <<>> THEN {cleaning, Further} ELSE {cleaning}
  /\ UNCHANGED <<mode, at, runs, natBefore, resisted, host, programs>>

\* SIGKILL: what is there stays there.
Killed ==
  /\ mode \in {"setup", "exit"}
  /\ mode' = "off" /\ cleaning' = <<>> /\ pending' = "none"
  /\ proxy' = FALSE /\ orphaned' = (orphaned \/ proxy \/ vpn)
  /\ UNCHANGED <<at, sent, runs, natBefore, resisted, host, vpn>>

\* A program starts openvpn, which ends some time.
Vpn ==
  /\ vpn' = ~vpn
  /\ ~vpn => proxy \/ orphaned
  /\ UNCHANGED <<script, host, proxy, orphaned>>

------------------------------------------------------------------------
Script == Command \/ CommandFails \/ Trap \/ CleanupCommand \/ Finish

Next ==
  \/ Run \/ Script \/ ProxyEnds
  \/ \E kind \in {"int", "term"} : Signal(kind)
  \/ Killed \/ Vpn

Spec == Init /\ [][Next]_vars

\* Commands end, and so does the program after Ctrl-C (SignalEndsProgram of
\* MainProgram).
FairSpec == Spec /\ WF_vars(Script) /\ WF_vars(pending = "int" /\ ProxyEnds)

------------------------------------------------------------------------
(* Properties. *)

\* Every variable stays within the values the script gives it; there is at most
\* one NAT rule per run.
TypeOK ==
  /\ mode \in {"off", "setup", "exit", "over"}
  /\ at \in 1..Len(Setup)
  /\ cleaning \in Seq(1..Len(Cleanup))
  /\ pending \in {"none", "term", "int"}
  /\ sent \in 0..MaxSignals /\ runs \in 0..MaxRuns
  /\ host \in [ns : BOOLEAN, veth : {"none", "host", "ns", "lost"}, nat : 0..runs,
               forward : BOOLEAN, resolv : {"none", "dir", "file"}]
  /\ natBefore \in 0..MaxRuns /\ resisted \in SUBSET { Cleanup[p] : p \in 1..Len(Cleanup) }
  /\ proxy \in BOOLEAN /\ orphaned \in BOOLEAN /\ vpn \in BOOLEAN

\* A run that is over, however it failed or was interrupted, leaves of what it or
\* an earlier run made only what cleanup() has last tried in vain to undo, beside
\* forwarding and NAT rules of earlier runs; openvpn is gone unless pkill failed or
\* an earlier run left the program or openvpn behind (run_in_netns.sh:42-63, 72-73).
LeftoversResisted ==
  mode = "over" =>
    /\ host.ns => "deleteNs" \in resisted
    /\ host.veth # "none" => "deleteVeth" \in resisted
    /\ host.resolv # "none" => "deleteResolv" \in resisted
    /\ host.nat > natBefore => "deleteNat" \in resisted
    /\ vpn => orphaned \/ "pkill" \in resisted

\* The program runs only in a namespace, and with its link, NAT, forwarding and DNS
\* in place, also when a signal undid half of it on the way; unless the namespace
\* outlived that cleanup() because its deletion failed (run_in_netns.sh:7, 77-123).
ProxyFullyIsolated ==
  proxy =>
    /\ host.ns
    /\ \/ host.veth = "ns" /\ host.resolv = "file" /\ host.nat > 0 /\ host.forward
       \/ "deleteNs" \in resisted

\* Once the namespace was made, Ctrl-C ends the script, although no trap exits:
\* cleanup() removes the namespace, and some later command needs it; unless its
\* deletion fails.
InterruptEndsScript ==
  pending = "int" /\ at > 3 ~> mode \in {"off", "over"} \/ "deleteNs" \in resisted

\* "Cleanup complete. Host network is untouched." (run_in_netns.sh:60): a first run
\* that is over, and in whose cleanup() nothing failed, leaves the host as it was.
HostUntouched == mode = "over" /\ runs = 1 /\ resisted = {} => host = CleanHost
=======================================================================
