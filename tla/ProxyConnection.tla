------------------------ MODULE ProxyConnection ------------------------
(***************************************************************************)
(* One connection through src/proxy_server.cpp (POSIX build), with the      *)
(* bytes: handleClientConnection() takes a request from one or two recv     *)
(* calls, dials, answers, and pipeSockets() relays.  A peer sends when it   *)
(* likes, reads when it likes, and may finish, close or reset at any time.  *)
(* A unit stands for any run of bytes.  ProxyServer has what handlers share.*)
(***************************************************************************)
EXTENDS Naturals, SequencesExt

CONSTANTS
  Data,      \* units of payload
  Payload,   \* per side: what it sends, a client after its request
  Capacity   \* units the kernel holds for a peer that does not read

Sides == {"client", "remote"}

ASSUME ConnectionAssumption ==
  Capacity \in Nat \ {0} /\ Payload \in [Sides -> Seq(Data)]

VARIABLES
  kind,     \* what the client speaks
  step,     \* where the handler is
  running,  \* running_
  parsed,   \* units taken as request
  buf,      \* what send() still has to send
  to,       \* the side send() sends to
  moved,    \* it has sent a part
  ready,    \* descriptors select() reported and the loop has yet to serve
  short,    \* a send() took less than it was given
  sent,     \* per side: units it has sent
  inq,      \* per side: units received from it, unread
  outq,     \* per side: units sent to it, unread
  got,      \* per side: what it has read
  peer      \* per side: state of its end, see TypeOK

handlerVars == <<step, parsed, buf, to, moved, ready, short>>
sockets == <<sent, inq, outq, got, peer>>
vars == <<kind, running, handlerVars, sockets>>

\* A request: "connect" is complete up to the target, http up to the host; a
\* SOCKS5 client sends a greeting and a request.
Request ==
  CASE kind = "connect" -> <<"connect", "target", "rest">>
    [] kind = "socks" -> <<"hello", "methods", "request", "address">>
    [] kind = "http" -> <<"verb", "host">>

Ended == step \in {"done", "dead"}

Stream(s) == IF s = "client" THEN Request \o Payload[s] ELSE Payload[s]

Init ==
  /\ kind \in {"connect", "socks", "http"}
  /\ step = "first" /\ running = TRUE /\ parsed = 0
  /\ buf = <<>> /\ to = "client" /\ moved = FALSE /\ ready = {} /\ short = FALSE
  /\ sent = [s \in Sides |-> 0]
  /\ inq = [s \in Sides |-> <<>>] /\ outq = [s \in Sides |-> <<>>]
  /\ got = [s \in Sides |-> <<>>]
  /\ peer = [s \in Sides |-> IF s = "client" THEN "open" ELSE "none"]

------------------------------------------------------------------------
(* recv(), send() and close() as the kernel does them. *)

Reads(s) == peer[s] \in {"open", "half"}

\* recv() does not block: there is data, or the peer's end of input.
Readable(s) == inq[s] # <<>> \/ peer[s] \notin {"none", "open"}

\* Mutant: the last unit read is read again.
TakeMutant(s, n) == inq' = [inq EXCEPT ![s] = SubSeq(@, n, Len(@))]

\* recv() brings n units.
Take(s, n) == inq' = [inq EXCEPT ![s] = SubSeq(@, n + 1, Len(@))]

\* SIGPIPE, which nothing ignores, ends the program.
BrokenPipe == step' = "dead" /\ UNCHANGED <<outq, peer>>

\* send() of little data, its result ignored.  A closed peer answers with a
\* reset.  On a connection reset before its end of input the first send() fails
\* and only the second is fatal; on one reset after it the first is.
SendAndGoto(s, data, next) ==
  IF peer[s] = "pipe" THEN BrokenPipe
  ELSE /\ outq' = IF Reads(s) THEN [outq EXCEPT ![s] = @ \o data] ELSE outq
       /\ peer' = [peer EXCEPT ![s] = CASE @ = "closed" -> "poked"
                                        [] @ = "reset" -> "pipe"
                                        [] OTHER -> @]
       /\ step' = next

------------------------------------------------------------------------
(* handleClientConnection(). *)

\* Whether the n units just read let the handler go on: it needs the target, or
\* the host; of SOCKS5 the greeting, and in the second read the whole request,
\* which must come first in it.
Understood(n) ==
  CASE step = "second" -> parsed = 2 /\ n >= 2
    [] kind = "socks" -> TRUE
    [] OTHER -> n >= 2

\* The first recv(), and for SOCKS5 the second; neither has a time-out.
ReadRequest ==
  /\ step \in {"first", "second"} /\ Readable("client")
  /\ \/ /\ inq["client"] = <<>>
        /\ step' = "close"
        /\ UNCHANGED <<parsed, inq>>
     \/ \E n \in 1..Len(inq["client"]) :
          /\ Take("client", n)
          /\ parsed' = parsed + n
          /\ step' = IF ~Understood(n) THEN "close"
                     ELSE IF kind = "socks" /\ step = "first" THEN "greet" ELSE "dial"
  /\ UNCHANGED <<kind, running, buf, to, moved, ready, short, sent, outq, got, peer>>

\* Mutant: the failure is not looked at.
AfterFailedDialMutant == "reply"

\* Plain HTTP is not told of a failure.
AfterFailedDial == IF kind = "http" THEN "close" ELSE "refuse"

\* connectToRemote()
Dial ==
  /\ step = "dial"
  /\ \/ peer' = [peer EXCEPT !["remote"] = "open"] /\ step' = "reply"
     \/ step' = AfterFailedDial /\ UNCHANGED peer
  /\ UNCHANGED <<kind, running, parsed, buf, to, moved, ready, short, sent, inq, outq, got>>

\* Mutant: the positive answer is sent for plain HTTP as well.
ReplyMutant == SendAndGoto("client", <<"ok">>, "relay")

\* The positive answer, or the plain HTTP request as it was read.
Reply ==
  IF kind = "http"
    THEN SendAndGoto("remote", SubSeq(Request \o Payload["client"], 1, parsed), "relay")
    ELSE SendAndGoto("client", <<"ok">>, "relay")

\* The answers.
Answer ==
  /\ \/ step = "greet" /\ SendAndGoto("client", <<"method">>, "second")
     \/ step = "reply" /\ Reply
     \/ step = "refuse" /\ SendAndGoto("client", <<"refused">>, "close")
  /\ UNCHANGED <<kind, running, parsed, buf, to, moved, ready, short, sent, inq, got>>

\* closeSocket() of both.  Nothing is said of what the peers read after that.
Close ==
  /\ step = "close"
  /\ step' = "done"
  /\ UNCHANGED <<kind, running, parsed, buf, to, moved, ready, short, sockets>>

------------------------------------------------------------------------
(* pipeSockets(). *)

\* while (running_)
Relay ==
  /\ step = "relay"
  /\ step' = IF running THEN "select" ELSE "close"
  /\ UNCHANGED <<kind, running, parsed, buf, to, moved, ready, short, sockets>>

\* Mutant: select() is given no time-out.
IdleMutant == FALSE /\ step' = "close" /\ UNCHANGED ready

\* Nothing for 30 s: the connection is given up.
Idle == ready' = {} /\ step' = "close"

\* select()
Select ==
  /\ step = "select"
  /\ LET now == { s \in Sides : Readable(s) }
     IN  IF now = {} THEN Idle ELSE ready' = now /\ step' = "serve"
  /\ UNCHANGED <<kind, running, parsed, buf, to, moved, short, sockets>>

\* Mutant: the end of input (n = 0) is not taken for an end.
AfterEndMutant == "serve"

AfterEnd == "close"

\* The client is looked at first.
Serving == IF "client" \in ready THEN "client" ELSE "remote"

\* recv() from a descriptor that select() reported; both served, next iteration.
Serve ==
  /\ step = "serve"
  /\ IF ready = {} THEN step' = "relay" /\ UNCHANGED <<ready, buf, to, inq>>
     ELSE /\ ready' = ready \ {Serving}
          /\ \/ /\ inq[Serving] = <<>>
                /\ step' = AfterEnd
                /\ UNCHANGED <<buf, to, inq>>
             \/ \E n \in 1..Len(inq[Serving]) :
                  /\ Take(Serving, n)
                  /\ buf' = SubSeq(inq[Serving], 1, n)
                  /\ to' = IF Serving = "client" THEN "remote" ELSE "client"
                  /\ step' = "send"
  /\ UNCHANGED <<kind, running, parsed, moved, short, sent, outq, got, peer>>

\* send() returns early: short if it has moved anything, else in error.
ReturnEarly ==
  /\ buf' = <<>>
  /\ short' = (short \/ moved)
  /\ step' = IF moved THEN "serve" ELSE "close"

\* Mutant: the client's socket has a send time-out, too.
SendTimeOutMutant(s) == TRUE

\* SO_SNDTIMEO is set for the remote socket only.
SendTimeOut(s) == s = "remote"

\* send(): in parts if the peer is slow, blocking while it does not read.
Send ==
  /\ step = "send"
  /\ \/ /\ peer[to] \in {"pipe", "closed", "poked"}
        /\ SendAndGoto(to, <<>>, "serve")
        /\ buf' = <<>>
        /\ UNCHANGED short
     \/ /\ peer[to] = "reset"
        /\ ReturnEarly
        /\ peer' = [peer EXCEPT ![to] = "pipe"]
        /\ UNCHANGED outq
     \/ /\ Reads(to)
        /\ \E n \in 1..Len(buf) :
             /\ Len(outq[to]) + n <= Capacity
             /\ outq' = [outq EXCEPT ![to] = @ \o SubSeq(buf, 1, n)]
             /\ buf' = SubSeq(buf, n + 1, Len(buf))
             /\ step' = IF n = Len(buf) THEN "serve" ELSE "send"
        /\ UNCHANGED <<short, peer>>
     \/ /\ Reads(to) /\ SendTimeOut(to) /\ Len(outq[to]) >= Capacity
        /\ ReturnEarly
        /\ UNCHANGED <<outq, peer>>
  /\ moved' = (step' = "send")
  /\ to' = IF step' = "send" THEN to ELSE "client"
  /\ UNCHANGED <<kind, running, parsed, ready, sent, inq, got>>

------------------------------------------------------------------------
(* The peers, the owner of the server. *)

PeerSend(s) ==
  /\ peer[s] = "open" /\ sent[s] < Len(Stream(s)) /\ ~Ended
  /\ sent' = [sent EXCEPT ![s] = @ + 1]
  /\ inq' = [inq EXCEPT ![s] = Append(@, Stream(s)[sent[s] + 1])]
  /\ UNCHANGED <<kind, running, handlerVars, outq, got, peer>>

PeerReceive(s) ==
  /\ Reads(s) /\ outq[s] # <<>> /\ ~Ended
  /\ got' = [got EXCEPT ![s] = Append(@, Head(outq[s]))]
  /\ outq' = [outq EXCEPT ![s] = Tail(@)]
  /\ UNCHANGED <<kind, running, handlerVars, sent, inq, peer>>

\* A peer says it has no more to send, closes, or resets: by close() with data
\* unread, or when data comes after a close.
PeerEnds(s) ==
  /\ ~Ended
  /\ \/ peer[s] = "open" /\ peer' \in { [peer EXCEPT ![s] = e] : e \in {"half", "reset"} }
     \/ peer[s] = "half" /\ peer' = [peer EXCEPT ![s] = "pipe"]
     \/ Reads(s) /\ outq[s] = <<>> /\ peer' = [peer EXCEPT ![s] = "closed"]
     \/ peer[s] = "poked" /\ peer' = [peer EXCEPT ![s] = "pipe"]
  /\ UNCHANGED <<kind, running, handlerVars, sent, inq, outq, got>>

\* ProxyServer::stop()
Stop ==
  /\ running /\ ~Ended
  /\ running' = FALSE
  /\ UNCHANGED <<kind, handlerVars, sockets>>

HandlerStep ==
  ReadRequest \/ Dial \/ Answer \/ Close \/ Relay \/ Select \/ Serve \/ Send

Next ==
  HandlerStep \/ Stop \/ \E s \in Sides : PeerSend(s) \/ PeerReceive(s) \/ PeerEnds(s)

Spec == Init /\ [][Next]_vars

\* The handler runs.  Nothing is assumed of the client or of the remote host.
FairSpec == Spec /\ WF_vars(HandlerStep)

------------------------------------------------------------------------
(* Properties. *)

\* Every variable stays within the values the code gives it; something is to be
\* sent exactly while send() runs, and there is a remote socket to relay with.
TypeOK ==
  /\ kind \in {"connect", "socks", "http"}
  /\ step \in {"first", "greet", "second", "dial", "reply", "refuse", "relay", "select",
               "serve", "send", "close", "done", "dead"}
  /\ running \in BOOLEAN /\ moved \in BOOLEAN /\ short \in BOOLEAN
  /\ parsed \in Nat
  /\ to \in Sides /\ ready \in SUBSET Sides
  /\ buf # <<>> <=> step = "send"
  /\ sent \in [Sides -> Nat]
  /\ peer \in [Sides -> {"none", "open", "half", "closed", "poked", "reset", "pipe"}]
  /\ step \in {"reply", "relay", "select", "serve", "send"} => peer["remote"] # "none"

\* What the remote host is owed.
Upstream == IF kind = "http" THEN Stream("client") ELSE Payload["client"]

\* s is what is left of the first n units of t when some are left out.
LeftOf(s, t, n) ==
  \E at \in [1..Len(s) -> 1..n] :
    /\ \A i, j \in 1..Len(s) : i < j => at[i] < at[j]
    /\ \A i \in 1..Len(s) : s[i] = t[at[i]]

\* The remote host never reads units out of order, twice, or of anybody else.  It
\* reads a prefix of what it is owed, nothing less and no part of a CONNECT or SOCKS5
\* request, unless the recv() calls did not end exactly with the request, or a send()
\* was cut short by its time-out (proxy_server.cpp:233-238, 250-257, 293, 350).
UpstreamIntact ==
  /\ LeftOf(got["remote"], Stream("client"), sent["client"])
  /\ (kind = "http" \/ parsed = Len(Request)) /\ ~short
       => IsPrefix(got["remote"], Upstream)

\* What goes before the remote host's data.
Greeting ==
  CASE kind = "connect" -> <<"ok">>
    [] kind = "socks" -> <<"method", "ok">>
    [] kind = "http" -> <<>>

\* Whatever is cut, dropped or reset on the way up, the client reads the answer
\* and then the remote host's data without a gap, or a refusal
\* (lines 239-244, 279, 284, 291, 319, 324).
DownstreamIntact ==
  \/ IsPrefix(got["client"], Greeting \o Payload["remote"])
  \/ got["client"] \in {<<"refused">>, <<"method", "refused">>}

\* The relay does not end on the remote host's end of input before everything it
\* sent has been handed to a client that still reads: a slow client gets the
\* whole response (lines 239-243).
ResponseComplete ==
  [][/\ step = "serve" /\ step' = "close" /\ Serving = "remote"
     /\ Reads("client")
     => got["client"] \o outq["client"] = Greeting \o SubSeq(Payload["remote"], 1, sent["remote"])
    ]_vars

Relaying == step \in {"relay", "select", "serve", "send"}

\* A send() to the client that waits for it to read, for as long as that takes.
HeldByClient ==
  step = "send" /\ to = "client" /\ Reads("client") /\ Len(outq["client"]) >= Capacity

\* After stop() a relay ends, whatever the remote host does and wherever the
\* handler is just then, unless the client stops reading for ever without ending
\* its connection, under a send() without a time-out (lines 218-231, 242).
StopEndsRelay == (Relaying /\ ~running ~> Ended) \/ <>[]HeldByClient

\* A remote host that ends or resets its connection ends the relay: a client can
\* only hold it up by not reading what is left, and only for ever by never
\* reading or ending again (lines 233-244).
RemoteEndEndsRelay == (Relaying /\ peer["remote"] # "open" ~> Ended) \/ <>[]HeldByClient
========================================================================
