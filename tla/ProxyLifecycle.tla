------------------------ MODULE ProxyLifecycle ------------------------
(***************************************************************************)
(* What EmergencyConnectProxy promises its caller: start() opens a VPN      *)
(* session, then serves clients; stop() stops serving, then closes the      *)
(* session.  A start that fails halfway leaves nothing behind.              *)
(***************************************************************************)
VARIABLES
  phase,    \* "stopped", "starting", "running" or "stopping"
  session,  \* the program holds a VPN session
  serving   \* clients can connect

lifecycle == <<phase, session, serving>>

Init == phase = "stopped" /\ session = FALSE /\ serving = FALSE

Begin ==
  /\ phase = "stopped"
  /\ phase' = "starting"
  /\ UNCHANGED <<session, serving>>

OpenSession ==
  /\ phase = "starting" /\ ~session
  /\ session' = TRUE
  /\ UNCHANGED <<phase, serving>>

\* No endpoint worked: there is nothing to undo.
Fail ==
  /\ phase = "starting" /\ ~session
  /\ phase' = "stopped"
  /\ UNCHANGED <<session, serving>>

Serve ==
  /\ phase = "starting" /\ session
  /\ phase' = "running" /\ serving' = TRUE
  /\ UNCHANGED session

\* The session is up but nobody can be served, or the caller said stop.
BeginStop ==
  /\ phase \in {"starting", "running"} /\ session
  /\ phase' = "stopping"
  /\ UNCHANGED <<session, serving>>

StopServing ==
  /\ phase = "stopping" /\ serving
  /\ serving' = FALSE
  /\ UNCHANGED <<phase, session>>

CloseSession ==
  /\ phase = "stopping" /\ session /\ ~serving
  /\ session' = FALSE
  /\ UNCHANGED <<phase, serving>>

Stopped ==
  /\ phase = "stopping" /\ ~session
  /\ phase' = "stopped"
  /\ UNCHANGED <<session, serving>>

\* The program is killed.
Die == phase' = "stopped" /\ session' = FALSE /\ serving' = FALSE

Next ==
  \/ Begin \/ OpenSession \/ Fail \/ Serve
  \/ BeginStop \/ StopServing \/ CloseSession \/ Stopped \/ Die

Spec == Init /\ [][Next]_lifecycle
=======================================================================
