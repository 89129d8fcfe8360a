---------------------- MODULE NetnsScriptProofs ----------------------
(* Proofs about NetnsScript, for any number of runs and signals. *)
EXTENDS NetnsScript, TLAPS

------------------------------------------------------------------------
(* The inductive invariant. *)

\* At most one rule per run, appended by the command after which at > 10.
Counts ==
  /\ runs = 0 => mode = "off" /\ at = 1 /\ host.nat = 0
  /\ natBefore <= runs /\ (runs > 0 => natBefore < runs)
  /\ host.nat <= natBefore + 1 /\ (at <= 10 => host.nat <= natBefore)

\* What a cleanup() whose next command is p has done so far, or failed to do.
CleanUpTo(p) ==
  /\ p > 1 /\ vpn => orphaned \/ "pkill" \in resisted
  /\ p > 2 => host.nat <= natBefore \/ "deleteNat" \in resisted
  /\ p > 3 => host.veth = "none" \/ "deleteVeth" \in resisted
  /\ p > 4 => ~host.ns \/ "deleteNs" \in resisted
  /\ p > 5 => host.resolv = "none" \/ "deleteResolv" \in resisted

\* The innermost cleanup() undoes in order, whatever the interrupted ones did.
CleaningUp ==
  pending = "none" =>
    /\ cleaning # <<>> => CleanUpTo(cleaning[Len(cleaning)])
    /\ mode = "exit" /\ cleaning = <<>> => CleanUpTo(6)

CleanedUp == mode = "over" => CleanUpTo(6)

\* What the setup has done before the command a.
InPlace(a) ==
  /\ a > 6 => host.veth = "ns"
  /\ a > 9 => host.forward
  /\ a > 10 => host.nat > 0
  /\ a > 12 => host.resolv = "file"

\* The setup is complete so far, or its namespace is gone or would not go.
SettingUp ==
  mode = "setup" /\ cleaning = <<>> /\ pending = "none" /\ host.ns =>
    InPlace(at) \/ "deleteNs" \in resisted

Idle == mode \in {"off", "over"} => cleaning = <<>> /\ pending = "none"

Programs ==
  /\ proxy => mode = "setup" /\ cleaning = <<>> /\ ProxyFullyIsolated
  /\ vpn /\ ~orphaned /\ "pkill" \notin resisted => host.ns /\ (proxy \/ mode = "exit")

ScriptInv ==
  TypeOK /\ Counts /\ CleaningUp /\ CleanedUp /\ SettingUp /\ Idle /\ Programs

------------------------------------------------------------------------
(* TypeOK in parts: control, switches, host. *)

ControlOK ==
  /\ mode \in {"off", "setup", "exit", "over"}
  /\ at \in 1..13
  /\ cleaning \in Seq(1..5)
  /\ pending \in {"none", "term", "int"}
  /\ sent \in 0..MaxSignals /\ runs \in 0..MaxRuns
  /\ natBefore \in 0..MaxRuns /\ resisted \in SUBSET { Cleanup[p] : p \in 1..5 }

SwitchesOK == proxy \in BOOLEAN /\ orphaned \in BOOLEAN /\ vpn \in BOOLEAN

Hosts ==
  [ns : BOOLEAN, veth : {"none", "host", "ns", "lost"}, nat : Nat,
   forward : BOOLEAN, resolv : {"none", "dir", "file"}]

HostOK == host \in Hosts /\ host.nat <= runs

\* How many commands there are.
LEMMA Lengths == Len(Setup) = 13 /\ Len(Cleanup) = 5
  BY DEF Setup, Cleanup

\* The parts make up TypeOK, before a step and after it.
LEMMA TypeParts == TypeOK <=> ControlOK /\ SwitchesOK /\ HostOK
  BY Lengths DEF TypeOK, ControlOK, SwitchesOK, HostOK, Hosts

LEMMA TypePartsPrime == TypeOK' <=> ControlOK' /\ SwitchesOK' /\ HostOK'
  BY Lengths DEF TypeOK, ControlOK, SwitchesOK, HostOK, Hosts

\* Nothing is set up and nothing is cleaned up.
LEMMA ScriptInit == Init => ScriptInv
  <1> SUFFICES ASSUME Init PROVE ScriptInv
    OBVIOUS
  <1> USE ScriptAssumption
  <1>1. TypeOK
    <2>1. ControlOK
      BY DEF Init, ControlOK
    <2>2. HostOK
      BY DEF Init, CleanHost, HostOK, Hosts
    <2>3. SwitchesOK
      BY Zenon DEF Init, SwitchesOK
    <2> QED
      BY <2>1, <2>2, <2>3, TypeParts
  <1>2. Counts /\ Idle
    BY DEF Init, CleanHost, Counts, Idle
  <1>3. CleaningUp /\ CleanedUp /\ SettingUp /\ Programs
    BY DEF Init, CleanHost, CleaningUp, CleanedUp, SettingUp, Programs
  <1> QED
    BY <1>1, <1>2, <1>3 DEF ScriptInv

(* The commands. *)

\* Setting one of the two switches of a host.
LEMMA SetNs ==
  ASSUME NEW r \in Hosts, NEW b \in BOOLEAN, NEW h, h = [r EXCEPT !.ns = b]
  PROVE  /\ h \in Hosts /\ h.ns = b /\ h.veth = r.veth
         /\ h.nat = r.nat /\ h.forward = r.forward /\ h.resolv = r.resolv
  BY DEF Hosts

LEMMA SetForward ==
  ASSUME NEW r \in Hosts, NEW b \in BOOLEAN, NEW h, h = [r EXCEPT !.forward = b]
  PROVE  /\ h \in Hosts /\ h.forward = b /\ h.veth = r.veth
         /\ h.nat = r.nat /\ h.ns = r.ns /\ h.resolv = r.resolv
  BY DEF Hosts

LEMMA SetVeth ==
  ASSUME NEW r \in Hosts, NEW v \in {"none", "host", "ns", "lost"},
         NEW h, h = [r EXCEPT !.veth = v]
  PROVE  /\ h \in Hosts /\ h.veth = v /\ h.ns = r.ns
         /\ h.nat = r.nat /\ h.forward = r.forward /\ h.resolv = r.resolv
  BY DEF Hosts

\* What a command of the setup needs and changes, by its place.
LEMMA SetupStep ==
  ASSUME at \in 1..13, host \in Hosts, NEW h \in Effects(Setup[at]), Works(Setup[at])
  PROVE  /\ h \in Hosts
         /\ h.nat = IF at = 10 THEN host.nat + 1 ELSE host.nat
         /\ at > 3 => h.ns = host.ns
         /\ at = 6 => h.veth = "ns"
         /\ at > 6 => h.veth = host.veth
         /\ at = 9 => h.forward = TRUE
         /\ at > 9 => h.forward = host.forward
         /\ at = 12 => h.resolv = "file"
         /\ at > 12 => h.resolv = host.resolv
         /\ at = 13 => host.ns
  <1>1. CASE at = 1
    <2>1. Setup[at] = "deleteNs"
      BY <1>1 DEF Setup
    <2>2. PICK v \in {"none", "host", "ns", "lost"} :
            h = [Nameless(host) EXCEPT !.veth = v]
      BY <2>1 DEF Effects, Hosts
    <2>3. PICK b \in BOOLEAN : b = FALSE
      OBVIOUS
    <2>4. Nameless(host) \in Hosts /\ Nameless(host).nat = host.nat
      BY <2>3, SetNs DEF Nameless
    <2>5. h \in Hosts /\ h.nat = host.nat
      BY <2>2, <2>4, SetVeth
    <2> QED
      BY <1>1, <2>5
  <1>2. CASE at = 2
    BY <1>2 DEF Setup, Effects, Hosts
  <1>3. CASE at = 3
    <2>1. Setup[at] = "addNs"
      BY <1>3 DEF Setup
    <2>2. h = [host EXCEPT !.ns = TRUE]
      BY <2>1 DEF Effects
    <2>3. PICK b \in BOOLEAN : b = TRUE
      OBVIOUS
    <2>4. h \in Hosts /\ h.nat = host.nat
      BY <2>2, <2>3, SetNs
    <2> QED
      BY <1>3, <2>4
  <1>4. CASE at \in {4, 7, 8}
    BY <1>4 DEF Setup, Effects, Hosts
  <1>5. CASE at = 5
    BY <1>5 DEF Setup, Effects, Hosts
  <1>6. CASE at = 6
    BY <1>6 DEF Setup, Effects, Hosts
  <1>9. CASE at = 9
    <2>1. Setup[at] = "forward"
      BY <1>9 DEF Setup
    <2>2. h = [host EXCEPT !.forward = TRUE]
      BY <2>1 DEF Effects
    <2>3. PICK b \in BOOLEAN : b = TRUE
      OBVIOUS
    <2>4. /\ h \in Hosts /\ h.nat = host.nat /\ h.ns = host.ns
          /\ h.veth = host.veth /\ h.forward = b
      BY <2>2, <2>3, SetForward
    <2> QED
      BY <1>9, <2>3, <2>4
  <1>10. CASE at = 10
    BY <1>10 DEF Setup, Effects, Hosts
  <1>11. CASE at = 11
    BY <1>11 DEF Setup, Effects, Hosts
  <1>12. CASE at = 12
    BY <1>12 DEF Setup, Effects, Hosts
  <1>13. CASE at = 13
    BY <1>13 DEF Setup, Effects, Works, Hosts
  <1>14. at = 1 \/ at = 2 \/ at = 3 \/ at \in {4, 7, 8} \/ at = 5 \/ at = 6 \/ at = 9
         \/ at = 10 \/ at = 11 \/ at = 12 \/ at = 13
    OBVIOUS
  <1> QED
    BY ONLY <1>14, <1>1, <1>2, <1>3, <1>4, <1>5, <1>6, <1>9, <1>10, <1>11, <1>12, <1>13, Zenon

\* What a command of cleanup() that works changes, by its place.
LEMMA CleanupStep ==
  ASSUME NEW p \in 1..5, host \in Hosts, NEW h \in Effects(Cleanup[p])
  PROVE  /\ h \in Hosts
         /\ h.nat <= host.nat
         /\ p = 1 => h = host
         /\ p = 2 => host.nat = 0 \/ h.nat = host.nat - 1
         /\ p = 3 => h.veth = "none"
         /\ p > 3 /\ host.veth = "none" => h.veth = "none"
         /\ p < 4 => h.ns = host.ns
         /\ p = 4 => h.ns = FALSE
         /\ p = 5 => h.ns = host.ns /\ h.resolv = "none"
  <1>1. CASE p = 1
    <2>1. h = host
      BY <1>1 DEF Cleanup, Effects
    <2> QED
      BY <1>1, <2>1 DEF Hosts
  <1>2. CASE p = 2
    <2>1. host.nat \in Nat /\ OneRuleLess(host.nat) \in Nat
      BY DEF Hosts, OneRuleLess
    <2>2. h = [host EXCEPT !.nat = OneRuleLess(host.nat)]
      BY <1>2 DEF Cleanup, Effects
    <2>3. h \in Hosts /\ h.nat = OneRuleLess(host.nat) /\ h.ns = host.ns
      BY <2>1, <2>2 DEF Hosts
    <2> QED
      BY <1>2, <2>1, <2>3 DEF OneRuleLess
  <1>3. CASE p = 3
    <2>1. h = [host EXCEPT !.veth = "none"]
      BY <1>3 DEF Cleanup, Effects
    <2>2. h \in Hosts /\ h.veth = "none" /\ h.ns = host.ns /\ h.nat = host.nat
      BY <2>1, SetVeth
    <2> QED
      BY <1>3, <2>2 DEF Hosts
  <1>4. CASE p = 4
    <2>1. Cleanup[p] = "deleteNs"
      BY <1>4 DEF Cleanup
    <2>2. PICK v \in {"none", "host", "ns", "lost"} :
            /\ h = [Nameless(host) EXCEPT !.veth = v]
            /\ host.veth = "none" => v = "none"
      BY <2>1 DEF Effects, Hosts
    <2>3. PICK b \in BOOLEAN : b = FALSE
      OBVIOUS
    <2>4. /\ Nameless(host) \in Hosts /\ Nameless(host).nat = host.nat
          /\ Nameless(host).ns = b
      BY <2>3, SetNs DEF Nameless
    <2>5. h \in Hosts /\ h.nat = host.nat /\ h.ns = b /\ h.veth = v
      BY <2>2, <2>4, SetVeth
    <2> QED
      BY <1>4, <2>2, <2>3, <2>5 DEF Hosts
  <1>5. CASE p = 5
    <2>1. h = [host EXCEPT !.resolv = "none"]
      BY <1>5 DEF Cleanup, Effects
    <2>2. h \in Hosts /\ h.nat = host.nat /\ h.ns = host.ns /\ h.veth = host.veth /\ h.resolv = "none"
      BY <2>1 DEF Hosts
    <2> QED
      BY <1>5, <2>2 DEF Hosts
  <1>6. p = 1 \/ p = 2 \/ p = 3 \/ p = 4 \/ p = 5
    OBVIOUS
  <1> QED
    BY ONLY <1>1, <1>2, <1>3, <1>4, <1>5, <1>6, Zenon

\* A command of cleanup() that fails has been remembered if anything is left.
LEMMA CleanupFails ==
  ASSUME NEW p \in 1..5, host \in Hosts
  PROVE  /\ p = 1 => Cleanup[p] = "pkill" /\ (Left(Cleanup[p]) <=> host.ns /\ vpn)
         /\ p = 2 => Cleanup[p] = "deleteNat" /\ (Left(Cleanup[p]) <=> host.nat > 0)
         /\ p = 3 => Cleanup[p] = "deleteVeth" /\ (Left(Cleanup[p]) <=> host.veth # "none")
         /\ p = 4 => Cleanup[p] = "deleteNs" /\ (Left(Cleanup[p]) <=> host.ns)
         /\ p = 5 => Cleanup[p] = "deleteResolv" /\ (Left(Cleanup[p]) <=> host.resolv # "none")
  <1>1. CASE p = 1
    <2>1. Cleanup[p] = "pkill"
      BY <1>1 DEF Cleanup
    <2> QED
      BY <1>1, <2>1 DEF Left
  <1>2. CASE p = 2
    BY <1>2 DEF Cleanup, Left
  <1>3. CASE p = 3
    BY <1>3 DEF Cleanup, Left
  <1>4. CASE p = 4
    <2>1. Cleanup[p] = "deleteNs"
      BY <1>4 DEF Cleanup
    <2> QED
      BY <1>4, <2>1 DEF Left
  <1>5. CASE p = 5
    BY <1>5 DEF Cleanup, Left
  <1> QED
    BY <1>1, <1>2, <1>3, <1>4, <1>5

\* A command of cleanup() that works brings it to the next.
LEMMA UndoneUpTo ==
  ASSUME NEW p \in 1..5, host \in Hosts, natBefore \in Nat, host.nat <= natBefore + 1,
         host' \in Effects(Cleanup[p]), CleanUpTo(p), UNCHANGED <<natBefore, orphaned>>,
         vpn' = (vpn /\ Cleanup[p] # "pkill"), resisted' = resisted \ {Cleanup[p]}
  PROVE  host' \in Hosts /\ host'.nat <= host.nat /\ (host'.ns => host.ns) /\ CleanUpTo(p + 1)'
  <1>1. /\ host' \in Hosts
        /\ host'.nat <= host.nat
        /\ p = 1 => host' = host
        /\ p = 2 => host.nat = 0 \/ host'.nat = host.nat - 1
        /\ p = 3 => host'.veth = "none"
        /\ p > 3 /\ host.veth = "none" => host'.veth = "none"
        /\ p < 4 => host'.ns = host.ns
        /\ p = 4 => host'.ns = FALSE
        /\ p = 5 => host'.ns = host.ns /\ host'.resolv = "none"
    BY CleanupStep
  <1>2. /\ p = 1 => Cleanup[p] = "pkill"
        /\ p = 2 => Cleanup[p] = "deleteNat"
        /\ p = 3 => Cleanup[p] = "deleteVeth"
        /\ p = 4 => Cleanup[p] = "deleteNs"
        /\ p = 5 => Cleanup[p] = "deleteResolv"
    BY CleanupFails
  <1>3. p = 1 \/ p = 2 \/ p = 3 \/ p = 4 \/ p = 5
    OBVIOUS
  <1>4. vpn' => orphaned' \/ "pkill" \in resisted'
    <2>1. CASE p = 1
      BY <1>2, <2>1, Zenon
    <2>2. CASE p # 1
      <3>1. p > 1 /\ Cleanup[p] # "pkill"
        BY <1>2, <1>3, <2>2
      <3>2. vpn' => vpn
        BY Zenon
      <3> QED
        BY <3>1, <3>2 DEF CleanUpTo
    <2> QED
      BY <2>1, <2>2
  <1>5. p + 1 > 2 => host'.nat <= natBefore' \/ "deleteNat" \in resisted'
    BY <1>1, <1>2, <1>3 DEF CleanUpTo, Hosts
  <1>6. p + 1 > 3 => host'.veth = "none" \/ "deleteVeth" \in resisted'
    BY <1>1, <1>2, <1>3 DEF CleanUpTo
  <1>7. p + 1 > 4 => ~host'.ns \/ "deleteNs" \in resisted'
    <2>1. CASE p = 4
      BY <1>1, <2>1, Zenon
    <2>2. CASE p = 5
      <3>1. ~host.ns \/ "deleteNs" \in resisted
        BY <2>2 DEF CleanUpTo
      <3>2. host'.ns = host.ns /\ Cleanup[p] = "deleteResolv"
        BY <1>1, <1>2, <2>2
      <3>3. "deleteNs" \in resisted => "deleteNs" \in resisted'
        BY <3>2
      <3> QED
        BY <3>1, <3>2, <3>3, Zenon
    <2> QED
      BY <1>3, <2>1, <2>2
  <1>8. p + 1 > 5 => host'.resolv = "none"
    BY <1>1, <1>3
  <1>9. host'.ns => host.ns
    <2>1. p < 4 \/ p = 4 \/ p = 5
      BY <1>3
    <2> QED
      BY <1>1, <2>1, Zenon
  <1>10. CleanUpTo(p + 1)'
    BY <1>4, <1>5, <1>6, <1>7, <1>8, Zenon DEF CleanUpTo
  <1> QED
    BY <1>1, <1>9, <1>10

\* One that fails does so too, if an openvpn of this run cannot hide from pkill.
LEMMA ResistedUpTo ==
  ASSUME NEW p \in 1..5, host \in Hosts, natBefore \in Nat, CleanUpTo(p),
         vpn /\ ~orphaned /\ "pkill" \notin resisted => host.ns,
         UNCHANGED <<host, vpn, natBefore, orphaned>>,
         resisted' = IF Left(Cleanup[p]) THEN resisted \cup {Cleanup[p]} ELSE resisted
  PROVE  CleanUpTo(p + 1)'
  <1>1. /\ p = 1 => Cleanup[p] = "pkill" /\ (Left(Cleanup[p]) <=> host.ns /\ vpn)
        /\ p = 2 => Cleanup[p] = "deleteNat" /\ (Left(Cleanup[p]) <=> host.nat > 0)
        /\ p = 3 => Cleanup[p] = "deleteVeth" /\ (Left(Cleanup[p]) <=> host.veth # "none")
        /\ p = 4 => Cleanup[p] = "deleteNs" /\ (Left(Cleanup[p]) <=> host.ns)
        /\ p = 5 => Cleanup[p] = "deleteResolv" /\ (Left(Cleanup[p]) <=> host.resolv # "none")
    BY CleanupFails
  <1>2. p = 1 \/ p = 2 \/ p = 3 \/ p = 4 \/ p = 5
    OBVIOUS
  <1>3. resisted \subseteq resisted' /\ (Left(Cleanup[p]) => Cleanup[p] \in resisted')
    OBVIOUS
  <1>4. vpn => orphaned \/ "pkill" \in resisted'
    <2>1. CASE p = 1
      BY <1>1, <1>3, <2>1, Zenon
    <2>2. CASE p > 1
      BY <1>3, <2>2 DEF CleanUpTo
    <2> QED
      BY <1>2, <2>1, <2>2
  <1>5. p + 1 > 2 => host.nat <= natBefore \/ "deleteNat" \in resisted'
    BY <1>1, <1>2, <1>3 DEF CleanUpTo, Hosts
  <1>6. p + 1 > 3 => host.veth = "none" \/ "deleteVeth" \in resisted'
    BY <1>1, <1>2, <1>3 DEF CleanUpTo
  <1>7. p + 1 > 4 => ~host.ns \/ "deleteNs" \in resisted'
    <2>1. CASE p = 4
      BY <1>1, <1>3, <2>1, Zenon
    <2>2. CASE p = 5
      BY <1>3, <2>2 DEF CleanUpTo
    <2> QED
      BY <1>2, <2>1, <2>2
  <1>8. p + 1 > 5 => host.resolv = "none" \/ "deleteResolv" \in resisted'
    BY <1>1, <1>2, <1>3 DEF CleanUpTo
  <1> QED
    BY <1>4, <1>5, <1>6, <1>7, <1>8 DEF CleanUpTo

------------------------------------------------------------------------
(* The steps. *)

\* A run begins: nothing of it is in place, and nothing is claimed of the past.
LEMMA RunInv == ScriptInv /\ Run => ScriptInv'
  <1> SUFFICES ASSUME ScriptInv, Run PROVE ScriptInv'
    OBVIOUS
  <1> USE ScriptAssumption DEF ScriptInv
  <1>1. TypeOK'
    <2>1. ControlOK'
      BY TypeParts DEF Run, ControlOK, HostOK, Hosts, Counts
    <2>2. HostOK'
      BY TypeParts DEF Run, ControlOK, HostOK, Hosts
    <2>3. SwitchesOK'
      BY TypeParts, Zenon DEF Run, SwitchesOK
    <2> QED
      BY <2>1, <2>2, <2>3, TypePartsPrime
  <1>2. Counts'
    BY TypeParts DEF Run, ControlOK, HostOK, Hosts, Counts
  <1>3. CleaningUp' /\ CleanedUp' /\ Idle'
    BY DEF Run, CleaningUp, CleanedUp, Idle
  <1>4. SettingUp'
    BY DEF Run, SettingUp, InPlace
  <1>5. Programs'
    <2>1. ~proxy' /\ (vpn' => orphaned')
      BY DEF Run, Programs
    <2> QED
      BY <2>1, Zenon DEF Programs, ProxyFullyIsolated
  <1> QED
    BY <1>1, <1>2, <1>3, <1>4, <1>5

\* The setup advances by one command, or starts the program when all is in place.
LEMMA CommandInv == ScriptInv /\ Command => ScriptInv'
  <1> SUFFICES ASSUME ScriptInv, Command PROVE ScriptInv'
    OBVIOUS
  <1> USE ScriptAssumption DEF ScriptInv
  <1>1. ControlOK /\ SwitchesOK /\ HostOK
    BY TypeParts
  <1>2. /\ mode = "setup" /\ cleaning = <<>> /\ pending = "none" /\ Works(Setup[at])
        /\ (host' \in Effects(Setup[at]) \/ (at <= 2 /\ host' = host))
        /\ UNCHANGED <<mode, cleaning, pending, sent, runs, natBefore, resisted>>
    BY DEF Command, Undisturbed
  <1>3. /\ host' \in Hosts
        /\ host'.nat = IF at = 10 THEN host.nat + 1 ELSE host.nat
        /\ at > 3 => host'.ns = host.ns
        /\ at = 6 => host'.veth = "ns"
        /\ at > 6 => host'.veth = host.veth
        /\ at = 9 => host'.forward = TRUE
        /\ at > 9 => host'.forward = host.forward
        /\ at = 12 => host'.resolv = "file"
        /\ at > 12 => host'.resolv = host.resolv
        /\ at = 13 => host.ns
    <2>1. CASE host' \in Effects(Setup[at])
      BY <1>1, <1>2, <2>1, SetupStep DEF ControlOK, HostOK
    <2>2. CASE at <= 2 /\ host' = host
      BY <1>1, <2>2 DEF ControlOK, HostOK
    <2> QED
      BY <1>2, <2>1, <2>2
  <1>4. \/ at < 13 /\ at' = at + 1 /\ proxy' = FALSE
        \/ at = 13 /\ at' = at /\ proxy' = TRUE
    BY <1>1, Lengths DEF Command, Undisturbed, ControlOK, SwitchesOK
  <1>5. Counts'
    BY <1>1, <1>2, <1>3, <1>4 DEF Counts, ControlOK, HostOK, Hosts
  <1>6. TypeOK'
    <2>1. ControlOK'
      BY <1>1, <1>2, <1>4 DEF ControlOK
    <2>2. SwitchesOK'
      BY <1>1, Zenon DEF Command, SwitchesOK
    <2>3. HostOK'
      BY <1>2, <1>3, <1>5, <2>1 DEF HostOK, Counts, Hosts, ControlOK
    <2> QED
      BY <2>1, <2>2, <2>3, TypePartsPrime
  <1>7. CleaningUp' /\ CleanedUp' /\ Idle'
    BY <1>2 DEF CleaningUp, CleanedUp, Idle
  <1>8. SettingUp'
    <2> SUFFICES ASSUME host'.ns, "deleteNs" \notin resisted PROVE InPlace(at)'
      BY <1>2 DEF SettingUp
    <2>1. CASE at <= 3
      BY <1>1, <1>4, <2>1 DEF InPlace, ControlOK
    <2>2. CASE at > 3
      <3>1. InPlace(at)
        BY <1>2, <1>3, <2>2 DEF SettingUp
      <3>2. (at' > 6 => host'.veth = "ns") /\ (at' > 12 => host'.resolv = "file")
        BY <1>1, <1>3, <1>4, <3>1 DEF InPlace, ControlOK
      <3>3. at' > 9 => host'.forward
        <4>1. at = 9 \/ at > 9 \/ at' <= 9
          BY <1>1, <1>4 DEF ControlOK
        <4>2. CASE at > 9
          BY <1>3, <3>1, <4>2, Zenon DEF InPlace
        <4> QED
          BY <1>3, <1>1, <1>4, <4>1, <4>2 DEF ControlOK
      <3>4. at' > 10 => host'.nat > 0
        BY <1>1, <1>3, <1>4, <3>1 DEF InPlace, ControlOK, HostOK, Hosts
      <3> QED
        BY <3>2, <3>3, <3>4 DEF InPlace
    <2> QED
      BY <1>1, <2>1, <2>2 DEF ControlOK
  <1>9. Programs'
    BY <1>1, <1>2, <1>3, <1>4 DEF Command, Programs, SettingUp, InPlace, ProxyFullyIsolated, HostOK, Hosts
  <1> QED
    BY <1>5, <1>6, <1>7, <1>8, <1>9

\* A command fails: cleanup() begins.
LEMMA CommandFailsInv == ScriptInv /\ CommandFails => ScriptInv'
  <1> SUFFICES ASSUME ScriptInv, CommandFails PROVE ScriptInv'
    OBVIOUS
  <1> USE ScriptAssumption DEF ScriptInv
  <1>1. ControlOK /\ SwitchesOK /\ HostOK
    BY TypeParts
  <1>2. /\ mode = "setup" /\ mode' = "exit" /\ cleaning' = <<1>> /\ pending' = "none"
        /\ UNCHANGED <<at, pending, sent, runs, natBefore, resisted, host, proxy, orphaned, vpn>>
        /\ ~proxy
    BY DEF CommandFails, AfterFailure, OnExit, Undisturbed, programs
  <1>3. TypeOK'
    BY <1>1, <1>2, TypePartsPrime DEF ControlOK, SwitchesOK, HostOK
  <1>4. Counts'
    BY <1>2 DEF Counts
  <1>5. CleaningUp'
    BY <1>2 DEF CleaningUp, CleanUpTo
  <1>6. CleanedUp' /\ SettingUp' /\ Idle'
    BY <1>2 DEF CleanedUp, SettingUp, Idle
  <1>7. Programs'
    BY <1>2 DEF Programs
  <1> QED
    BY <1>3, <1>4, <1>5, <1>6, <1>7

\* The program is over: cleanup() begins.
LEMMA ProxyEndsInv == ScriptInv /\ ProxyEnds => ScriptInv'
  <1> SUFFICES ASSUME ScriptInv, ProxyEnds PROVE ScriptInv'
    OBVIOUS
  <1> USE ScriptAssumption DEF ScriptInv
  <1>1. ControlOK /\ SwitchesOK /\ HostOK
    BY TypeParts
  <1>2. /\ mode = "setup" /\ mode' = "exit" /\ cleaning' = <<1>> /\ proxy' = FALSE
        /\ UNCHANGED <<at, pending, sent, runs, natBefore, resisted, host, orphaned, vpn>>
    BY DEF ProxyEnds, OnExit, Programs
  <1>3. TypeOK'
    <2>1. ControlOK' /\ HostOK'
      BY <1>1, <1>2 DEF ControlOK, HostOK
    <2>2. SwitchesOK'
      BY <1>1, <1>2, Zenon DEF SwitchesOK
    <2> QED
      BY <2>1, <2>2, TypePartsPrime
  <1>4. Counts'
    BY <1>2 DEF Counts
  <1>5. CleaningUp'
    BY <1>2 DEF CleaningUp, CleanUpTo
  <1>6. CleanedUp' /\ SettingUp' /\ Idle'
    BY <1>2 DEF CleanedUp, SettingUp, Idle
  <1>7. Programs'
    BY <1>2 DEF Programs, ProxyFullyIsolated
  <1> QED
    BY <1>3, <1>4, <1>5, <1>6, <1>7

\* A signal's cleanup() begins, perhaps within another.
LEMMA TrapInv == ScriptInv /\ Trap => ScriptInv'
  <1> SUFFICES ASSUME ScriptInv, Trap PROVE ScriptInv'
    OBVIOUS
  <1> USE ScriptAssumption DEF ScriptInv
  <1>1. ControlOK /\ SwitchesOK /\ HostOK
    BY TypeParts
  <1>2. /\ cleaning' \in Seq(1..5) /\ cleaning' # <<>> /\ cleaning'[Len(cleaning')] = 1
    BY <1>1 DEF Trap, ControlOK
  <1>3. /\ pending # "none" /\ pending' = "none" /\ ~proxy
        /\ UNCHANGED <<mode, at, sent, runs, natBefore, resisted, host, proxy, orphaned, vpn>>
    BY DEF Trap, programs
  <1>4. TypeOK'
    BY <1>1, <1>2, <1>3, TypePartsPrime DEF ControlOK, SwitchesOK, HostOK
  <1>5. Counts'
    BY <1>3 DEF Counts
  <1>6. CleaningUp' /\ SettingUp'
    BY <1>2 DEF CleaningUp, CleanUpTo, SettingUp
  <1>7. CleanedUp' /\ Idle'
    BY <1>3 DEF CleanedUp, CleanUpTo, Idle
  <1>8. Programs'
    BY <1>3 DEF Programs
  <1> QED
    BY <1>4, <1>5, <1>6, <1>7, <1>8

\* SIGKILL leaves no cleanup() under way.
LEMMA KilledInv == ScriptInv /\ Killed => ScriptInv'
  <1> SUFFICES ASSUME ScriptInv, Killed PROVE ScriptInv'
    OBVIOUS
  <1> USE ScriptAssumption DEF ScriptInv
  <1>1. ControlOK /\ SwitchesOK /\ HostOK
    BY TypeParts
  <1>2. /\ mode # "off" /\ mode' = "off" /\ cleaning' = <<>> /\ pending' = "none"
        /\ UNCHANGED <<at, sent, runs, natBefore, resisted, host>>
    BY DEF Killed
  <1>3. TypeOK'
    <2>1. ControlOK' /\ HostOK'
      BY <1>1, <1>2 DEF ControlOK, HostOK
    <2>2. SwitchesOK'
      BY <1>1 DEF Killed, SwitchesOK
    <2> QED
      BY <2>1, <2>2, TypePartsPrime
  <1>4. Counts'
    BY <1>2 DEF Counts
  <1>5. CleaningUp' /\ CleanedUp' /\ SettingUp' /\ Idle'
    BY <1>2 DEF CleaningUp, CleanedUp, SettingUp, Idle
  <1>6. Programs'
    BY DEF Killed, Programs
  <1> QED
    BY <1>3, <1>4, <1>5, <1>6

\* An openvpn comes or goes.
LEMMA VpnInv == ScriptInv /\ Vpn => ScriptInv'
  <1> SUFFICES ASSUME ScriptInv, Vpn PROVE ScriptInv'
    OBVIOUS
  <1> USE ScriptAssumption DEF ScriptInv
  <1>1. ControlOK /\ SwitchesOK /\ HostOK
    BY TypeParts
  <1>2. UNCHANGED <<mode, at, cleaning, pending, sent, runs, natBefore, resisted, host, proxy, orphaned>>
    BY DEF Vpn, script
  <1>3. TypeOK'
    <2>1. ControlOK' /\ HostOK'
      BY <1>1, <1>2 DEF ControlOK, HostOK
    <2>2. SwitchesOK'
      BY <1>1 DEF Vpn, SwitchesOK
    <2> QED
      BY <2>1, <2>2, TypePartsPrime
  <1>4. Counts' /\ SettingUp' /\ Idle'
    BY <1>2 DEF Counts, SettingUp, InPlace, Idle
  <1>5. ASSUME NEW p, CleanUpTo(p), ~proxy PROVE CleanUpTo(p)'
    BY <1>2, <1>5 DEF Vpn, CleanUpTo
  <1>6. CleaningUp'
    BY <1>2, <1>5 DEF CleaningUp, Programs
  <1>7. CleanedUp'
    BY <1>2, <1>5 DEF CleanedUp, Programs
  <1>8. Programs'
    BY <1>2 DEF Vpn, Programs, ProxyFullyIsolated
  <1> QED
    BY <1>3, <1>4, <1>6, <1>7, <1>8

\* An appended element is the last.
LEMMA AppendLast ==
  ASSUME NEW s \in Seq(1..5), NEW e \in 1..5
  PROVE  LET t == Append(s, e) IN t \in Seq(1..5) /\ t # <<>> /\ t[Len(t)] = e
  <1> DEFINE t == Append(s, e)
  <1>1. t \in Seq(1..5) /\ Len(t) = Len(s) + 1 /\ Len(s) \in Nat
    OBVIOUS
  <1>2. t[Len(s) + 1] = e
    OBVIOUS
  <1>3. t # <<>>
    BY <1>1
  <1> QED
    BY <1>1, <1>2, <1>3

\* One cleanup() further: to its next command, or back to the one around it.
LEMMA FurtherStep ==
  ASSUME cleaning \in Seq(1..5), cleaning # <<>>,
         NEW p, p = cleaning[Len(cleaning)]
  PROVE  /\ p \in 1..5
         /\ Further \in Seq(1..5)
         /\ p < 5 => Further # <<>> /\ Further[Len(Further)] = p + 1
  <1> DEFINE outer == SubSeq(cleaning, 1, Len(cleaning) - 1)
  <1>1. Len(cleaning) \in Nat \ {0} /\ p \in 1..5
    OBVIOUS
  <1>2. outer \in Seq(1..5)
    BY <1>1
  <1>3. Further = IF p < 5 THEN Append(outer, p + 1) ELSE outer
    BY Lengths DEF Further
  <1> HIDE DEF outer
  <1>4. CASE p < 5
    <2>1. Further = Append(outer, p + 1)
      BY <1>3, <1>4
    <2>2. p + 1 \in 1..5
      BY <1>1, <1>4
    <2> QED
      BY <1>1, <1>2, <2>1, <2>2, AppendLast
  <1>5. CASE ~(p < 5)
    BY <1>1, <1>2, <1>3, <1>5
  <1> QED
    BY <1>4, <1>5

\* cleanup() undoes, or notes what resists, in the order in which CleanUpTo counts.
LEMMA CleanupCommandInv == ScriptInv /\ CleanupCommand => ScriptInv'
  <1> SUFFICES ASSUME ScriptInv, CleanupCommand PROVE ScriptInv'
    OBVIOUS
  <1> USE ScriptAssumption DEF ScriptInv
  <1>0. PICK p : p = cleaning[Len(cleaning)]
    OBVIOUS
  <1>1. ControlOK /\ SwitchesOK /\ HostOK
    BY TypeParts
  <1>2. /\ cleaning # <<>> /\ pending = "none" /\ ~proxy /\ cleaning' = Further
        /\ UNCHANGED <<mode, at, pending, sent, runs, natBefore, proxy, orphaned>>
    BY DEF CleanupCommand, Undisturbed
  <1>3. /\ p \in 1..5 /\ cleaning' \in Seq(1..5)
        /\ p < 5 => cleaning' # <<>> /\ cleaning'[Len(cleaning')] = p + 1
    BY <1>0, <1>1, <1>2, FurtherStep DEF ControlOK
  <1>4. CleanUpTo(p)
    BY <1>0, <1>2 DEF CleaningUp
  <1>5. \/ /\ Works(Cleanup[p]) /\ host' \in Effects(Cleanup[p])
           /\ vpn' = (vpn /\ Cleanup[p] # "pkill") /\ resisted' = resisted \ {Cleanup[p]}
        \/ /\ UNCHANGED <<host, vpn>>
           /\ resisted' = IF Left(Cleanup[p]) THEN resisted \cup {Cleanup[p]} ELSE resisted
    BY <1>0 DEF CleanupCommand
  <1>6. /\ host' \in Hosts /\ host'.nat <= host.nat
        /\ host'.ns => host.ns
        /\ CleanUpTo(p + 1)'
    <2>0. /\ host \in Hosts /\ natBefore \in Nat /\ host.nat <= natBefore + 1
          /\ vpn /\ ~orphaned /\ "pkill" \notin resisted => host.ns
      BY <1>1 DEF HostOK, ControlOK, Counts, Programs
    <2>1. CASE Works(Cleanup[p]) /\ host' \in Effects(Cleanup[p])
               /\ vpn' = (vpn /\ Cleanup[p] # "pkill") /\ resisted' = resisted \ {Cleanup[p]}
      BY <1>2, <1>3, <1>4, <2>0, <2>1, UndoneUpTo
    <2>2. CASE /\ UNCHANGED <<host, vpn>>
               /\ resisted' = IF Left(Cleanup[p]) THEN resisted \cup {Cleanup[p]} ELSE resisted
      <3>1. CleanUpTo(p + 1)'
        BY <1>2, <1>3, <1>4, <2>0, <2>2, ResistedUpTo
      <3> QED
        BY <2>0, <2>2, <3>1 DEF Hosts
    <2> QED
      BY <1>5, <2>1, <2>2
  <1>7. p < 5 \/ p + 1 = 6
    BY <1>3
  <1>8. ASSUME NEW q, p + 1 = 6 PROVE CleanUpTo(q)'
    BY <1>6, <1>8 DEF CleanUpTo
  <1>9. TypeOK'
    <2>1. resisted' \subseteq { Cleanup[q] : q \in 1..5 }
      BY <1>1, <1>3, <1>5, Zenon DEF ControlOK
    <2>2. ControlOK'
      BY <1>1, <1>2, <1>3, <2>1 DEF ControlOK
    <2>3. SwitchesOK'
      BY <1>1, <1>2, <1>5, Zenon DEF SwitchesOK
    <2>4. HostOK'
      BY <1>1, <1>2, <1>6 DEF HostOK, Hosts, ControlOK
    <2> QED
      BY <2>2, <2>3, <2>4, TypePartsPrime
  <1>10. Counts'
    BY <1>1, <1>2, <1>6 DEF Counts, HostOK, Hosts, ControlOK
  <1>11. CleaningUp'
    <2>1. CASE p < 5
      BY <1>2, <1>3, <1>6, <2>1 DEF CleaningUp
    <2>2. CASE p + 1 = 6
      BY <1>8, <2>2 DEF CleaningUp
    <2> QED
      BY <1>7, <2>1, <2>2
  <1>12. mode \notin {"off", "over"}
    BY <1>2 DEF Idle
  <1>13. CleanedUp' /\ Idle'
    BY <1>2, <1>12 DEF CleanedUp, Idle
  <1>14. SettingUp'
    <2>1. CASE p < 5
      BY <1>3, <2>1 DEF SettingUp
    <2>2. CASE p + 1 = 6
      BY <1>6, <2>2 DEF SettingUp, CleanUpTo
    <2> QED
      BY <1>7, <2>1, <2>2
  <1>15. Programs'
    <2>1. p + 1 > 1
      BY <1>3
    <2>2. vpn' => orphaned' \/ "pkill" \in resisted'
      BY <1>6, <2>1 DEF CleanUpTo
    <2> QED
      BY <1>2, <2>2, Zenon DEF Programs
  <1> QED
    BY <1>9, <1>10, <1>11, <1>13, <1>14, <1>15

\* The script ends: the last cleanup() is done.
LEMMA FinishInv == ScriptInv /\ Finish => ScriptInv'
  <1> SUFFICES ASSUME ScriptInv, Finish PROVE ScriptInv'
    OBVIOUS
  <1> USE ScriptAssumption DEF ScriptInv
  <1>1. ControlOK /\ SwitchesOK /\ HostOK
    BY TypeParts
  <1>2. /\ mode = "exit" /\ mode' = "over" /\ cleaning = <<>> /\ pending = "none" /\ ~proxy
        /\ UNCHANGED <<at, cleaning, pending, sent, runs, natBefore, resisted, host, proxy, orphaned, vpn>>
    BY DEF Finish, Undisturbed, programs
  <1>3. CleanUpTo(6)
    BY <1>2 DEF CleaningUp
  <1>4. TypeOK'
    BY <1>1, <1>2, TypePartsPrime DEF ControlOK, SwitchesOK, HostOK
  <1>5. Counts'
    BY <1>2 DEF Counts
  <1>6. CleaningUp' /\ SettingUp' /\ Idle'
    BY <1>2 DEF CleaningUp, SettingUp, Idle
  <1>7. CleanedUp'
    BY <1>2, <1>3 DEF CleanedUp, CleanUpTo
  <1>8. Programs'
    BY <1>2, <1>3 DEF Programs, CleanUpTo
  <1> QED
    BY <1>4, <1>5, <1>6, <1>7, <1>8

\* After a signal nothing is claimed until its trap has run.
LEMMA SignalInv == ASSUME NEW kind \in {"int", "term"}, ScriptInv, Signal(kind) PROVE ScriptInv'
  <1> USE ScriptAssumption DEF ScriptInv
  <1>1. ControlOK /\ SwitchesOK /\ HostOK
    BY TypeParts
  <1>2. /\ mode \in {"setup", "exit"} /\ sent < MaxSignals /\ sent' = sent + 1
        /\ pending' \in {"int", "term"}
        /\ UNCHANGED <<mode, at, runs, natBefore, resisted, host, proxy, orphaned, vpn>>
    BY DEF Signal, programs
  <1>2a. cleaning' = cleaning \/ (cleaning # <<>> /\ cleaning' = Further)
    BY Zenon DEF Signal
  <1>3. cleaning' \in Seq(1..5) /\ (cleaning = <<>> => cleaning' = <<>>)
    BY <1>1, <1>2a, FurtherStep DEF ControlOK
  <1>4. TypeOK'
    BY <1>1, <1>2, <1>3, TypePartsPrime DEF ControlOK, SwitchesOK, HostOK
  <1>5. Counts'
    BY <1>2 DEF Counts
  <1>6. CleaningUp' /\ SettingUp'
    BY <1>2 DEF CleaningUp, SettingUp
  <1>7. CleanedUp' /\ Idle'
    BY <1>2 DEF CleanedUp, Idle
  <1>8. Programs'
    BY <1>2, <1>3 DEF Programs, ProxyFullyIsolated
  <1> QED
    BY <1>4, <1>5, <1>6, <1>7, <1>8

\* Every step keeps the invariant.
LEMMA ScriptStep == ScriptInv /\ [Next]_vars => ScriptInv'
  <1> SUFFICES ASSUME ScriptInv, [Next]_vars PROVE ScriptInv'
    OBVIOUS
  <1>1. CASE UNCHANGED vars
    BY <1>1 DEF vars, script, programs, ScriptInv, TypeOK, Counts, CleaningUp, CleanedUp, CleanUpTo,
                SettingUp, InPlace, Idle, Programs, ProxyFullyIsolated
  <1>2. CASE Next
    BY <1>2, RunInv, CommandInv, CommandFailsInv, ProxyEndsInv, TrapInv, CleanupCommandInv,
       FinishInv, SignalInv, KilledInv, VpnInv, Zenon DEF Next, Script
  <1> QED
    BY <1>1, <1>2

------------------------------------------------------------------------
\* The inductive invariant holds throughout.
THEOREM ScriptSafe == Spec => []ScriptInv
  BY ScriptInit, ScriptStep, PTL DEF Spec

\* Every variable stays within the values the script gives it, for any number of
\* runs and signals, and there is at most one NAT rule per run.
THEOREM ScriptTypeCorrect == Spec => []TypeOK
  BY ScriptSafe, PTL DEF ScriptInv

\* A run that is over leaves behind, beside forwarding and NAT rules of earlier runs,
\* only what its cleanup() tried in vain to undo (run_in_netns.sh:42-63, 72-73).
THEOREM ScriptLeftoversResisted == Spec => []LeftoversResisted
  <1>1. ScriptInv => LeftoversResisted
    <2> SUFFICES ASSUME ScriptInv PROVE LeftoversResisted
      OBVIOUS
    <2>1. mode = "over" => CleanUpTo(6)
      BY DEF ScriptInv, CleanedUp
    <2>2. host.nat \in Nat /\ natBefore \in Nat
      BY TypeParts DEF ScriptInv, ControlOK, HostOK, Hosts
    <2> QED
      BY <2>1, <2>2 DEF CleanUpTo, LeftoversResisted
  <1> QED
    BY <1>1, ScriptSafe, PTL

\* The program runs only in a complete namespace, or in one whose deletion failed in
\* the cleanup() of an interrupt (run_in_netns.sh:7, 77-123).
THEOREM ScriptProxyFullyIsolated == Spec => []ProxyFullyIsolated
  <1>1. ScriptInv => ProxyFullyIsolated
    BY DEF ScriptInv, Programs, ProxyFullyIsolated
  <1> QED
    BY <1>1, ScriptSafe, PTL
=======================================================================
