-------------------- MODULE ProxyConnectionProofs --------------------
(* Proofs about ProxyConnection, for payloads and buffers of any length. *)
EXTENDS ProxyConnection, SequenceTheorems, TLAPS

------------------------------------------------------------------------
(* The inductive invariant. *)

Units ==
  Data \cup {"connect", "target", "rest", "hello", "methods", "request", "address",
            "verb", "host", "ok", "method", "refused"}

Seqs == Seq(Units)

QueuesOK ==
  /\ inq \in [Sides -> Seqs] /\ buf \in Seqs
  /\ DOMAIN outq = Sides /\ outq["client"] \in Seqs
  /\ DOMAIN got = Sides /\ got["client"] \in Seqs

\* a \o b, under a name that the provers need not look into.
Cat(a, b) == a \o b

\* Everything handed to the client's socket so far.
Down == Cat(got["client"], outq["client"])

\* What of it is in send()'s hands.
InHand == IF to = "client" THEN buf ELSE <<>>

\* What the remote host has sent so far.
FromRemote == SubSeq(Payload["remote"], 1, sent["remote"])

Before == {"first", "greet", "second", "dial", "reply", "refuse"}

\* What the client has been answered before the place of the handler.
Answered ==
  IF kind = "socks" /\ step \in {"second", "dial", "reply", "refuse"}
    THEN <<"method">> ELSE <<>>

\* Before the relay nothing of the remote host is read.
Asking ==
  step \in Before =>
    /\ inq["remote"] = FromRemote
    /\ Reads("client") => Down = Answered
    /\ step \in {"greet", "second"} => kind = "socks"
    /\ step = "refuse" => kind # "http"

\* In the relay, what was handed on, what is being sent and what is unread make up
\* the answer and all the remote host has sent.  With a client that is gone, units
\* may be dropped.
Relayed ==
  Relaying /\ Reads("client")
    => Cat(Down, Cat(InHand, inq["remote"])) = Cat(Greeting, FromRemote)

\* The client is never handed anything else.
NothingElse ==
  \/ \E rest \in Seqs : Cat(Down, rest) = Cat(Greeting, Payload["remote"])
  \/ Down = <<"refused">>
  \/ Down = <<"method", "refused">> /\ kind = "socks"

ConnInv ==
  /\ TypeOK /\ QueuesOK /\ sent["remote"] <= Len(Payload["remote"])
  /\ Asking /\ Relayed /\ NothingElse

------------------------------------------------------------------------
(* Sequences. *)

\* The head of b moves to the end of a.
LEMMA MoveOne ==
  ASSUME NEW S, NEW a \in Seq(S), NEW b \in Seq(S), b # <<>>
  PROVE  /\ Append(a, Head(b)) \in Seq(S) /\ Tail(b) \in Seq(S)
         /\ Append(a, Head(b)) \o Tail(b) = a \o b
  <1>1. Head(b) \in S /\ Tail(b) \in Seq(S)
    BY HeadTailProperties
  <1>2. Append(a, Head(b)) = a \o <<Head(b)>>
    BY <1>1, AppendIsConcat
  <1>3. <<Head(b)>> \in Seq(S)
    BY <1>1
  <1>4. <<Head(b)>> \o Tail(b) = b
    <2>1. b = SubSeq(b, 1, Len(b)) /\ Len(b) \in Nat \ {0}
      BY SubSeqFull, EmptySeq
    <2>2. b = <<b[1]>> \o SubSeq(b, 2, Len(b))
      BY <2>1, SubSeqRecursiveFirst
    <2> QED
      BY <2>2, TailIsSubSeq, HeadTailProperties
  <1>5. (a \o <<Head(b)>>) \o Tail(b) = a \o (<<Head(b)>> \o Tail(b))
    BY <1>1, <1>3, ConcatAssociative
  <1> QED
    BY <1>1, <1>2, <1>4, <1>5, AppendProperties

\* A sequence is cut in two.
LEMMA Cut ==
  ASSUME NEW S, NEW b \in Seq(S), NEW n \in 0..Len(b)
  PROVE  /\ SubSeq(b, 1, n) \in Seq(S) /\ SubSeq(b, n + 1, Len(b)) \in Seq(S)
         /\ Len(SubSeq(b, 1, n)) = n
         /\ Len(SubSeq(b, n + 1, Len(b))) = Len(b) - n
         /\ SubSeq(b, 1, n) \o SubSeq(b, n + 1, Len(b)) = b
  <1>1. Len(b) \in Nat /\ \A i \in 1..Len(b) : b[i] \in S
    BY ElementOfSeq, LenProperties
  <1>2. SubSeq(b, 1, n) \in Seq(S) /\ Len(SubSeq(b, 1, n)) = n
    BY <1>1, SubSeqProperties
  <1>3. /\ SubSeq(b, n + 1, Len(b)) \in Seq(S)
        /\ Len(SubSeq(b, n + 1, Len(b))) = Len(b) - n
    BY <1>1, SubSeqProperties
  <1>4. SubSeq(b, 1, n) \o SubSeq(b, n + 1, Len(b)) = SubSeq(b, 1, Len(b))
    <2>1. /\ 1 \in 1..Len(b) + 1 /\ n \in (1 - 1)..Len(b)
          /\ Len(b) \in n..Len(b)
      BY <1>1
    <2> HIDE <1>1
    <2> QED
      BY ONLY <2>1, b \in Seq(S), ConcatAdjacentSubSeq, Zenon
  <1> QED
    BY <1>2, <1>3, <1>4, SubSeqFull

\* One more unit of a prefix.
LEMMA OneMore ==
  ASSUME NEW S, NEW p \in Seq(S), NEW n \in 0..Len(p), n < Len(p)
  PROVE  /\ p[n + 1] \in S
         /\ Append(SubSeq(p, 1, n), p[n + 1]) = SubSeq(p, 1, n + 1)
  <1>1. n + 1 \in 1..Len(p) /\ Len(p) \in Nat
    BY LenProperties
  <1>2. p[n + 1] \in S
    BY <1>1, ElementOfSeq
  <1>3. SubSeq(p, 1, n + 1) = SubSeq(p, 1, n) \o <<p[n + 1]>>
    BY <1>1, SubSeqRecursiveSecond
  <1>4. SubSeq(p, 1, n) \in Seq(S)
    BY Cut
  <1> QED
    BY <1>2, <1>3, <1>4, AppendIsConcat

LEMMA PrefixOfConcat ==
  ASSUME NEW S, NEW a \in Seq(S), NEW b \in Seq(S)
  PROVE  IsPrefix(a, a \o b)
  <1>1. Len(a \o b) = Len(a) + Len(b) /\ Len(a) \in Nat /\ Len(b) \in Nat
    BY ConcatProperties, LenProperties
  <1>2. CASE Len(a) = 0
    BY <1>1, <1>2, SubSeqEmpty DEF IsPrefix
  <1>3. CASE Len(a) > 0
    BY <1>1, <1>3, SubSeqOfConcat1 DEF IsPrefix
  <1> QED
    BY <1>1, <1>2, <1>3

\* Tuples of one and of two.
LEMMA Tuples ==
  ASSUME NEW S, NEW x \in S, NEW y \in S
  PROVE  /\ <<x>> \in Seq(S) /\ <<x, y>> \in Seq(S)
         /\ <<x>> \o <<y>> = <<x, y>>
  <1> DEFINE l == <<x>>
             r == <<y>>
             b == <<x, y>>
  <1>1. /\ l \in Seq(S) /\ r \in Seq(S) /\ b \in Seq(S)
        /\ Len(b) = 2 /\ Len(l) = 1 /\ Len(r) = 1
        /\ b[1] = x /\ b[2] = y /\ l[1] = x /\ r[1] = y
    OBVIOUS
  <1> HIDE DEF l, r, b
  <1>2. l \o r \in Seq(S) /\ Len(l \o r) = 2 /\ (l \o r)[1] = x /\ (l \o r)[2] = y
    BY <1>1, ConcatProperties
  <1>3. l \o r = b
    BY <1>1, <1>2, SeqEqual
  <1> QED
    BY <1>1, <1>3 DEF l, r, b

\* The same for the units of a connection.
LEMMA Joins ==
  \A a, b \in Seqs : Cat(a, b) \in Seqs /\ Cat(a, <<>>) = a /\ Cat(<<>>, a) = a
  <1> SUFFICES ASSUME NEW a \in Seqs, NEW b \in Seqs
               PROVE  Cat(a, b) \in Seqs /\ Cat(a, <<>>) = a /\ Cat(<<>>, a) = a
    OBVIOUS
  <1>1. PICK S : S = Units
    OBVIOUS
  <1>2. a \in Seq(S) /\ b \in Seq(S)
    BY <1>1 DEF Seqs
  <1> QED
    BY <1>1, <1>2, ConcatProperties, ConcatEmptySeq DEF Seqs, Cat

LEMMA Assoc ==
  \A a, b, c \in Seqs : Cat(Cat(a, b), c) = Cat(a, Cat(b, c))
  <1> SUFFICES ASSUME NEW a \in Seqs, NEW b \in Seqs, NEW c \in Seqs
               PROVE  Cat(Cat(a, b), c) = Cat(a, Cat(b, c))
    OBVIOUS
  <1>1. PICK S : S = Units
    OBVIOUS
  <1>2. a \in Seq(S) /\ b \in Seq(S) /\ c \in Seq(S)
    BY <1>1 DEF Seqs
  <1> QED
    BY <1>2, ConcatAssociative DEF Cat

LEMMA Cuts ==
  ASSUME NEW b \in Seqs, NEW n \in 0..Len(b)
  PROVE  /\ SubSeq(b, 1, n) \in Seqs /\ SubSeq(b, n + 1, Len(b)) \in Seqs
         /\ Cat(SubSeq(b, 1, n), SubSeq(b, n + 1, Len(b))) = b
         /\ SubSeq(b, 1, n) = <<>> <=> n = 0
         /\ SubSeq(b, n + 1, Len(b)) = <<>> <=> n = Len(b)
         /\ Len(b) \in Nat
  <1>1. PICK S : S = Units
    OBVIOUS
  <1>2. b \in Seq(S) /\ Len(b) \in Nat
    BY <1>1, LenProperties DEF Seqs
  <1>3. /\ SubSeq(b, 1, n) \in Seq(S) /\ SubSeq(b, n + 1, Len(b)) \in Seq(S)
        /\ SubSeq(b, 1, n) \o SubSeq(b, n + 1, Len(b)) = b
        /\ Len(SubSeq(b, 1, n)) = n
        /\ Len(SubSeq(b, n + 1, Len(b))) = Len(b) - n
    BY <1>2, Cut
  <1>4. \A s \in Seq(S) : s = <<>> <=> Len(s) = 0
    BY EmptySeq
  <1>5. /\ SubSeq(b, 1, n) = <<>> <=> n = 0
        /\ SubSeq(b, n + 1, Len(b)) = <<>> <=> n = Len(b)
    <2>1. SubSeq(b, 1, n) = <<>> <=> Len(SubSeq(b, 1, n)) = 0
      BY <1>3, <1>4
    <2>2. SubSeq(b, n + 1, Len(b)) = <<>> <=> Len(SubSeq(b, n + 1, Len(b))) = 0
      BY <1>3, <1>4
    <2> QED
      <3>1. n \in Nat /\ (Len(b) - n = 0 <=> n = Len(b))
        BY <1>2
      <3> QED
        BY ONLY <1>3, <2>1, <2>2, <3>1, Zenon
  <1>6. Seqs = Seq(S)
    BY <1>1 DEF Seqs
  <1> QED
    BY <1>2, <1>3, <1>5, <1>6 DEF Cat

LEMMA Appends ==
  ASSUME NEW c \in Seqs, NEW e \in Units
  PROVE  Append(c, e) = Cat(c, <<e>>) /\ <<e>> \in Seqs
  <1>1. PICK S : S = Units
    OBVIOUS
  <1>2. c \in Seq(S) /\ e \in S
    BY <1>1 DEF Seqs
  <1> QED
    BY <1>1, <1>2, AppendIsConcat, Tuples DEF Seqs, Cat

\* A peer reads one unit: what it has read and what waits stay the same together.
LEMMA Received ==
  ASSUME NEW a \in Seqs, NEW b \in Seqs, b # <<>>
  PROVE  /\ Append(a, Head(b)) \in Seqs /\ Tail(b) \in Seqs
         /\ Cat(Append(a, Head(b)), Tail(b)) = Cat(a, b)
  BY MoveOne DEF Seqs, Cat

\* What a sequence of one or of two begins with.
LEMMA PartsOfTwo ==
  ASSUME NEW a \in Seqs, NEW b \in Seqs, NEW c \in Seqs,
         Len(c) \in {1, 2}, Cat(a, b) = c
  PROVE  \/ a = <<>>
         \/ a = <<c[1]>>
         \/ Len(c) = 2 /\ a = <<c[1], c[2]>>
  <1>0. PICK S : a \in Seq(S) /\ b \in Seq(S) /\ c \in Seq(S)
    BY DEF Seqs
  <1>1. /\ Len(a) \in Nat /\ Len(b) \in Nat /\ Len(a) + Len(b) = Len(c)
        /\ \A i \in 1..Len(a) : a[i] = c[i]
        /\ \A i \in 1..Len(c) : c[i] \in S
    BY <1>0, ConcatProperties, LenProperties, ElementOfSeq DEF Cat
  <1>2. CASE Len(a) = 0
    BY <1>0, <1>2, EmptySeq
  <1>3. CASE Len(a) = 1
    <2>1. PICK d : d = <<c[1]>>
      OBVIOUS
    <2>2. d \in Seq(S) /\ Len(d) = 1 /\ d[1] = c[1]
      BY <1>1, <2>1
    <2>3. a = d
      BY <1>0, <1>1, <1>3, <2>2, SeqEqual
    <2> QED
      BY <2>1, <2>3
  <1>4. CASE Len(a) = 2
    <2>1. PICK d : d = <<c[1], c[2]>>
      OBVIOUS
    <2>2. d \in Seq(S) /\ Len(d) = 2 /\ d[1] = c[1] /\ d[2] = c[2] /\ Len(c) = 2
      BY <1>1, <1>4, <2>1
    <2>3. \A i \in 1..Len(a) : a[i] = d[i]
      BY <1>1, <1>4, <2>2
    <2>4. a = d
      BY <1>0, <1>4, <2>2, <2>3, SeqEqual
    <2> QED
      BY <2>1, <2>2, <2>4
  <1>5. Len(a) \in {0, 1, 2}
    <2>1. PICK m \in Nat, k \in Nat, l \in {1, 2} :
            m = Len(a) /\ k = Len(b) /\ l = Len(c) /\ m + k = l
      BY <1>1
    <2>2. m \in {0, 1, 2}
      BY <2>1
    <2> QED
      BY <2>1, <2>2
  <1> QED
    BY <1>2, <1>3, <1>4, <1>5

------------------------------------------------------------------------
(* Facts about a state. *)

\* The words the proxy itself sends.
LEMMA Words ==
  /\ <<"ok">> \in Seqs /\ <<"method">> \in Seqs /\ <<"refused">> \in Seqs
  /\ <<>> \in Seqs
  /\ <<"method", "ok">> \in Seqs /\ <<"method", "refused">> \in Seqs
  /\ Cat(<<"method">>, <<"ok">>) = <<"method", "ok">>
  /\ Cat(<<"method">>, <<"refused">>) = <<"method", "refused">>
  <1>1. PICK S : S = Units
    OBVIOUS
  <1>2. "ok" \in S /\ "method" \in S /\ "refused" \in S
    BY <1>1 DEF Units
  <1>3. Seqs = Seq(S)
    BY <1>1 DEF Seqs
  <1> QED
    BY <1>2, <1>3, Tuples, EmptySeq DEF Cat

\* The payloads are sequences of units.
LEMMA Payloads ==
  ASSUME NEW s \in Sides
  PROVE  Payload[s] \in Seqs /\ Len(Payload[s]) \in Nat
  <1>1. Payload[s] \in Seq(Data) /\ Data \subseteq Units
    BY ConnectionAssumption DEF Units
  <1>2. Payload[s] \in Seq(Units)
    BY <1>1, SeqMonotonic
  <1> QED
    BY <1>1, <1>2, LenProperties DEF Seqs

\* So are the requests ...
LEMMA Requests ==
  ASSUME kind \in {"connect", "socks", "http"}
  PROVE  Request \in Seqs
  <1>1. CASE kind = "connect"
    <2>1. Request = <<"connect", "target", "rest">>
      BY <1>1 DEF Request
    <2> QED
      BY <2>1 DEF Seqs, Units
  <1>2. CASE kind = "socks"
    <2>1. Request = <<"hello", "methods", "request", "address">>
      BY <1>2 DEF Request
    <2> QED
      BY <2>1 DEF Seqs, Units
  <1>3. CASE kind = "http"
    <2>1. Request = <<"verb", "host">>
      BY <1>3 DEF Request
    <2> QED
      BY <2>1 DEF Seqs, Units
  <1> QED
    BY <1>1, <1>2, <1>3

\* ... and what a peer sends.
LEMMA Streams ==
  ASSUME NEW s \in Sides, kind \in {"connect", "socks", "http"}
  PROVE  Stream(s) \in Seqs
  BY Requests, Payloads, Joins DEF Stream, Cat

\* Both sides' queues are sequences, and so are the payloads.
LEMMA Queues ==
  ASSUME QueuesOK, TypeOK, sent["remote"] <= Len(Payload["remote"])
  PROVE  /\ inq["client"] \in Seqs /\ inq["remote"] \in Seqs
         /\ Payload["remote"] \in Seqs /\ FromRemote \in Seqs
         /\ sent["remote"] \in 0..Len(Payload["remote"])
         /\ Down \in Seqs /\ InHand \in Seqs /\ Greeting \in Seqs /\ Answered \in Seqs
  <1>1. /\ inq["client"] \in Seqs /\ inq["remote"] \in Seqs
        /\ outq["client"] \in Seqs /\ got["client"] \in Seqs
    BY DEF QueuesOK, Sides
  <1>2. Payload["remote"] \in Seqs /\ Len(Payload["remote"]) \in Nat
    BY Payloads DEF Sides
  <1>3. sent["remote"] \in 0..Len(Payload["remote"])
    BY <1>2 DEF TypeOK, Sides
  <1>4. FromRemote \in Seqs
    BY <1>2, <1>3, Cuts DEF FromRemote
  <1>5. Down \in Seqs
    BY <1>1, Joins DEF Down, Sides
  <1>6. InHand \in Seqs /\ Greeting \in Seqs /\ Answered \in Seqs
    BY Words DEF InHand, Greeting, Answered, QueuesOK, TypeOK
  <1> QED
    BY <1>1, <1>2, <1>3, <1>4, <1>5, <1>6

\* Before the answer, and in the relay, a client that still reads has been handed a
\* part of what it is owed.
LEMMA PlaceIsEnough ==
  TypeOK /\ QueuesOK /\ sent["remote"] <= Len(Payload["remote"]) /\ Asking /\ Relayed
  /\ Reads("client") /\ (step \in Before \/ Relaying)
  => NothingElse
  <1> SUFFICES ASSUME TypeOK, QueuesOK, sent["remote"] <= Len(Payload["remote"]), Asking,
                      Relayed, Reads("client"), step \in Before \/ Relaying
               PROVE  NothingElse
    OBVIOUS
  <1>1. /\ Down \in Seqs /\ Answered \in Seqs /\ Greeting \in Seqs /\ InHand \in Seqs
        /\ inq["remote"] \in Seqs /\ Payload["remote"] \in Seqs /\ FromRemote \in Seqs
        /\ sent["remote"] \in 0..Len(Payload["remote"])
    BY Queues
  <1>2. CASE step \in Before
    <2>1. Down = Answered
      BY <1>2 DEF Asking
    <2>2. \E b \in Seqs : Cat(Answered, b) = Greeting
      <3>1. CASE Answered = <<>>
        BY <1>1, <3>1, Joins
      <3>2. CASE Answered = <<"method">> /\ kind = "socks"
        BY <3>2, Words DEF Greeting
      <3> QED
        BY <3>1, <3>2 DEF Answered
    <2>3. PICK b \in Seqs : Cat(Down, b) = Greeting
      BY <2>1, <2>2
    <2>4. Cat(Cat(Down, b), Payload["remote"]) = Cat(Down, Cat(b, Payload["remote"]))
      BY <1>1, Assoc
    <2>5. Cat(b, Payload["remote"]) \in Seqs
      BY <1>1, Joins
    <2> QED
      BY <2>3, <2>4, <2>5 DEF NothingElse
  <1>3. CASE Relaying
    <2>1. Cat(Down, Cat(InHand, inq["remote"])) = Cat(Greeting, FromRemote)
      BY <1>3 DEF Relayed
    <2>2. Cat(InHand, inq["remote"]) \in Seqs
      BY <1>1, Joins
    <2>3. PICK r \in Seqs : Cat(FromRemote, r) = Payload["remote"]
      BY <1>1, Cuts DEF FromRemote
    <2> DEFINE b == Cat(InHand, inq["remote"])
    <2>4. /\ Cat(Cat(Down, b), r) = Cat(Down, Cat(b, r))
          /\ Cat(Cat(Greeting, FromRemote), r) = Cat(Greeting, Cat(FromRemote, r))
      BY <1>1, <2>2, Assoc
    <2>5. Cat(b, r) \in Seqs
      BY <2>2, Joins
    <2>6. Cat(Down, Cat(b, r)) = Cat(Greeting, Payload["remote"])
      BY <2>1, <2>3, <2>4
    <2> QED
      BY <2>5, <2>6 DEF NothingElse
  <1> QED
    BY <1>2, <1>3

\* A step that hands nothing to the client leaves NothingElse.
LEMMA NothingHanded ==
  ASSUME NothingElse, UNCHANGED <<Down, kind>>
  PROVE  NothingElse'
  BY DEF NothingElse, Greeting

LEMMA ConnInit == Init => ConnInv
  <1> SUFFICES ASSUME Init PROVE ConnInv
    OBVIOUS
  <1>1. TypeOK
    BY DEF Init, TypeOK, Sides
  <1>2. QueuesOK
    BY Words DEF Init, QueuesOK, Sides
  <1>3. Len(Payload["remote"]) \in Nat
    BY Payloads DEF Sides
  <1>4. sent["remote"] = 0
    BY DEF Init, Sides
  <1>5. Asking
    <2>1. FromRemote = <<>>
      BY <1>4, SubSeqEmpty DEF FromRemote
    <2>2. Down = <<>> /\ inq["remote"] = <<>>
      BY Words, Joins DEF Init, Down, Sides
    <2> QED
      BY <2>1, <2>2 DEF Init, Asking, Answered
  <1>6. Relayed
    BY DEF Init, Relayed, Relaying
  <1>7. Reads("client") /\ step \in Before
    BY DEF Init, Reads, Before, Sides
  <1> QED
    BY <1>1, <1>2, <1>3, <1>4, <1>5, <1>6, <1>7, PlaceIsEnough DEF ConnInv

------------------------------------------------------------------------
(* The types, after each action. *)

TypesOK == TypeOK /\ QueuesOK /\ sent["remote"] <= Len(Payload["remote"])

\* recv() takes a piece off the front of what came.
LEMMA TakeStep ==
  ASSUME TypesOK, NEW s \in Sides, NEW n \in 1..Len(inq[s]), Take(s, n)
  PROVE  /\ inq' \in [Sides -> Seqs]
         /\ \A t \in Sides \ {s} : inq'[t] = inq[t]
         /\ SubSeq(inq[s], 1, n) \in Seqs \ {<<>>}
         /\ Cat(SubSeq(inq[s], 1, n), inq'[s]) = inq[s]
         /\ n \in Nat
  <1>1. inq[s] \in Seqs /\ inq \in [Sides -> Seqs]
    BY DEF TypesOK, QueuesOK
  <1>2. n \in 0..Len(inq[s]) /\ n # 0 /\ n \in Nat
    OBVIOUS
  <1>3. inq'[s] = SubSeq(inq[s], n + 1, Len(inq[s]))
    BY <1>1 DEF Take
  <1> QED
    BY <1>1, <1>2, <1>3, Cuts DEF Take

\* send() of an answer, or to a peer that is gone.
LEMMA SendStep ==
  ASSUME TypesOK, NEW s \in Sides, NEW data, s = "client" => data \in Seqs, NEW next,
         SendAndGoto(s, data, next)
  PROVE  /\ DOMAIN outq' = Sides /\ outq'["client"] \in Seqs
         /\ peer' \in [Sides -> {"none", "open", "half", "closed", "poked", "reset", "pipe"}]
         /\ peer["remote"] # "none" => peer'["remote"] # "none"
         /\ \A t \in Sides : Reads(t)' <=> Reads(t)
         /\ \A t \in Sides \ {s} : outq'[t] = outq[t]
         /\ step' \in {next, "dead"}
         /\ ~Reads(s) => outq' = outq
         /\ Reads(s) => step' = next /\ outq'[s] = outq[s] \o data
  <1> USE DEF TypesOK, TypeOK, QueuesOK
  <1>1. CASE peer[s] = "pipe"
    BY <1>1 DEF SendAndGoto, BrokenPipe, Reads
  <1>2. CASE peer[s] # "pipe"
    <2>1. peer' \in [Sides -> {"none", "open", "half", "closed", "poked", "reset", "pipe"}]
      BY <1>2 DEF SendAndGoto
    <2>2. /\ \A t \in Sides : Reads(t)' <=> Reads(t)
          /\ peer["remote"] # "none" => peer'["remote"] # "none"
      BY <1>2 DEF SendAndGoto, Reads, Sides
    <2>3. /\ DOMAIN outq' = Sides /\ step' = next
          /\ \A t \in Sides \ {s} : outq'[t] = outq[t]
          /\ ~Reads(s) => outq' = outq
          /\ Reads(s) => outq'[s] = outq[s] \o data
      BY <1>2 DEF SendAndGoto
    <2>4. outq'["client"] \in Seqs
      <3>1. CASE s = "client" /\ Reads(s)
        BY <2>3, <3>1, Joins DEF Cat
      <3>2. CASE ~(s = "client" /\ Reads(s))
        BY <2>3, <3>2 DEF Sides
      <3> QED
        BY <3>1, <3>2
    <2> QED
      BY <2>1, <2>2, <2>3, <2>4
  <1> QED
    BY <1>1, <1>2

LEMMA TypesStep ==
  ASSUME ConnInv, [Next]_vars
  PROVE  TypesOK'
  <1> USE DEF TypesOK
  <1>0. TypesOK
    BY DEF ConnInv
  <1>1. CASE ReadRequest
    <2>1. CASE inq["client"] = <<>> /\ step' = "close" /\ UNCHANGED <<parsed, inq>>
      BY <1>0, <1>1, <2>1 DEF ReadRequest, TypeOK, QueuesOK
    <2>2. ASSUME NEW n \in 1..Len(inq["client"]), Take("client", n), parsed' = parsed + n,
                 step' \in {"close", "greet", "dial"}
          PROVE  TypesOK'
      <3>1. inq' \in [Sides -> Seqs] /\ n \in Nat
        BY <1>0, <2>2, TakeStep DEF Sides
      <3> QED
        BY <1>0, <1>1, <2>2, <3>1 DEF ReadRequest, TypeOK, QueuesOK
    <2> QED
      BY <1>1, <2>1, <2>2 DEF ReadRequest
  <1>2. CASE Dial
    BY <1>0, <1>2 DEF Dial, AfterFailedDial, TypeOK, QueuesOK, Sides
  <1>3. CASE Answer
    <2>1. /\ UNCHANGED <<kind, running, parsed, buf, to, moved, ready, short, sent, inq, got>>
          /\ step # "send"
      BY <1>3 DEF Answer
    <2>2. ASSUME NEW s \in Sides, NEW data, NEW next \in {"second", "close", "relay"},
                 SendAndGoto(s, data, next), s = "client" => data \in Seqs,
                 next = "relay" => step = "reply"
          PROVE  TypesOK'
      <3>1. /\ DOMAIN outq' = Sides /\ outq'["client"] \in Seqs
            /\ peer' \in [Sides -> {"none", "open", "half", "closed", "poked", "reset", "pipe"}]
            /\ peer["remote"] # "none" => peer'["remote"] # "none"
            /\ step' \in {next, "dead"}
        BY <1>0, <2>2, SendStep
      <3> QED
        BY <1>0, <2>1, <2>2, <3>1 DEF TypeOK, QueuesOK
    <2>3. CASE step = "greet" /\ SendAndGoto("client", <<"method">>, "second")
      BY <2>2, <2>3, Words DEF Sides
    <2>4. CASE step = "refuse" /\ SendAndGoto("client", <<"refused">>, "close")
      BY <2>2, <2>4, Words DEF Sides
    <2>5. CASE step = "reply" /\ SendAndGoto("client", <<"ok">>, "relay")
      BY <2>2, <2>5, Words DEF Sides
    <2>6. ASSUME NEW data, step = "reply" /\ SendAndGoto("remote", data, "relay")
          PROVE  TypesOK'
      BY <2>2, <2>6 DEF Sides
    <2> QED
      BY <1>3, <2>3, <2>4, <2>5, <2>6 DEF Answer, Reply
  <1>4. CASE Close \/ Relay \/ Stop
    BY <1>0, <1>4 DEF Close, Relay, Stop, handlerVars, sockets, TypeOK, QueuesOK
  <1>5. CASE Select
    BY <1>0, <1>5 DEF Select, Idle, sockets, TypeOK, QueuesOK
  <1>6. CASE Serve
    <2>1. Serving \in Sides /\ inq[Serving] \in Seqs
      BY <1>0 DEF Serving, Sides, QueuesOK
    <2>2. CASE buf' = buf /\ to' = to /\ inq' = inq /\ step' \in {"relay", "close"}
               /\ ready' \in SUBSET Sides
      BY <1>0, <1>6, <2>2 DEF Serve, TypeOK, QueuesOK
    <2>3. ASSUME NEW n \in 1..Len(inq[Serving]), Take(Serving, n),
                 buf' = SubSeq(inq[Serving], 1, n), to' \in Sides, step' = "send",
                 ready' \in SUBSET Sides
          PROVE  TypesOK'
      <3>1. inq' \in [Sides -> Seqs] /\ buf' \in Seqs /\ buf' # <<>>
        BY <1>0, <2>1, <2>3, TakeStep
      <3> QED
        BY <1>0, <1>6, <2>3, <3>1 DEF Serve, TypeOK, QueuesOK
    <2> QED
      BY <1>0, <1>6, <2>2, <2>3 DEF Serve, AfterEnd, TypeOK, Sides
  <1>7. CASE Send
    <2>1. /\ UNCHANGED <<kind, running, parsed, ready, sent, inq, got>>
          /\ moved' \in BOOLEAN /\ to \in Sides /\ to' \in Sides /\ step = "send"
      BY <1>0, <1>7 DEF Send, Sides, TypeOK
    <2>2. peer["remote"] # "none" /\ buf \in Seqs
      BY <1>0, <2>1 DEF TypeOK, QueuesOK
    <2>3. CASE SendAndGoto(to, <<>>, "serve") /\ buf' = <<>> /\ UNCHANGED short
      <3>1. /\ DOMAIN outq' = Sides /\ outq'["client"] \in Seqs
            /\ peer' \in [Sides -> {"none", "open", "half", "closed", "poked", "reset", "pipe"}]
            /\ peer'["remote"] # "none"
            /\ step' \in {"serve", "dead"}
        BY <1>0, <2>1, <2>2, <2>3, Words, SendStep
      <3> QED
        BY <1>0, <2>1, <2>3, <3>1, Words DEF TypeOK, QueuesOK
    <2>4. CASE ReturnEarly /\ peer' \in {peer, [peer EXCEPT ![to] = "pipe"]} /\ UNCHANGED outq
      BY <1>0, <2>1, <2>2, <2>4, Words DEF ReturnEarly, TypeOK, QueuesOK, Sides
    <2>5. ASSUME NEW n \in 1..Len(buf),
                 outq' = [outq EXCEPT ![to] = @ \o SubSeq(buf, 1, n)],
                 buf' = SubSeq(buf, n + 1, Len(buf)),
                 step' = IF n = Len(buf) THEN "serve" ELSE "send",
                 UNCHANGED <<short, peer>>
          PROVE  TypesOK'
      <3>1. SubSeq(buf, 1, n) \in Seqs /\ buf' \in Seqs /\ (buf' = <<>> <=> n = Len(buf))
        BY <2>2, <2>5, Cuts
      <3>2. DOMAIN outq' = Sides /\ outq'["client"] \in Seqs
        <4>1. CASE to = "client"
          BY <1>0, <2>5, <3>1, <4>1, Joins DEF Cat, QueuesOK, Sides
        <4>2. CASE to # "client"
          BY <1>0, <2>5, <4>2 DEF QueuesOK
        <4> QED
          BY <4>1, <4>2
      <3> QED
        BY <1>0, <2>1, <2>2, <2>5, <3>1, <3>2 DEF TypeOK, QueuesOK
    <2> QED
      BY <1>7, <2>3, <2>4, <2>5 DEF Send
  <1>8. ASSUME NEW s \in Sides, PeerSend(s)
        PROVE  TypesOK'
    <2>1. /\ UNCHANGED <<kind, running, handlerVars, outq, got, peer>>
          /\ sent[s] \in Nat /\ sent[s] < Len(Stream(s))
          /\ sent' = [sent EXCEPT ![s] = sent[s] + 1]
          /\ inq' = [inq EXCEPT ![s] = Append(inq[s], Stream(s)[sent[s] + 1])]
      BY <1>0, <1>8 DEF PeerSend, TypeOK
    <2>2. sent' \in [Sides -> Nat] /\ sent'["remote"] <= Len(Payload["remote"])
      BY <1>0, <2>1, Payloads DEF TypeOK, Stream, Sides
    <2>3. inq' \in [Sides -> Seqs]
      <3>1. Stream(s) \in Seqs
        BY <1>0, Streams DEF TypeOK
      <3>2. Stream(s)[sent[s] + 1] \in Units
        BY <2>1, <3>1, ElementOfSeq, LenProperties DEF Seqs
      <3>3. Append(inq[s], Stream(s)[sent[s] + 1]) \in Seqs
        BY <1>0, <3>2, AppendProperties DEF QueuesOK, Seqs
      <3> QED
        BY <1>0, <2>1, <3>3 DEF QueuesOK
    <2> QED
      BY <1>0, <2>1, <2>2, <2>3 DEF handlerVars, TypeOK, QueuesOK
  <1>9. ASSUME NEW s \in Sides, PeerReceive(s)
        PROVE  TypesOK'
    <2>1. DOMAIN outq' = Sides /\ DOMAIN got' = Sides
      BY <1>0, <1>9 DEF PeerReceive, QueuesOK
    <2>2. outq'["client"] \in Seqs /\ got'["client"] \in Seqs
      BY <1>0, <1>9, Received DEF PeerReceive, QueuesOK
    <2> QED
      BY <1>0, <1>9, <2>1, <2>2 DEF PeerReceive, handlerVars, TypeOK, QueuesOK
  <1>10. ASSUME NEW s \in Sides, PeerEnds(s)
         PROVE  TypesOK'
    <2>1. PICK e \in {"half", "reset", "pipe", "closed"} : peer' = [peer EXCEPT ![s] = e]
      BY <1>10 DEF PeerEnds
    <2> QED
      BY <1>0, <1>10, <2>1 DEF PeerEnds, handlerVars, TypeOK, QueuesOK
  <1>11. CASE UNCHANGED vars
    BY <1>0, <1>11 DEF vars, handlerVars, sockets, TypeOK, QueuesOK
  <1> QED
    BY <1>1, <1>2, <1>3, <1>4, <1>5, <1>6, <1>7, <1>8, <1>9, <1>10, <1>11 DEF Next, HandlerStep

------------------------------------------------------------------------
(* The invariant, after each action. *)

\* PlaceIsEnough about the next state.
LEMMA PlaceIsEnoughNext ==
  TypesOK' /\ Asking' /\ Relayed' /\ Reads("client")' /\ (step' \in Before \/ Relaying')
  => NothingElse'
  <1>1. TypesOK /\ Asking /\ Relayed /\ Reads("client") /\ (step \in Before \/ Relaying)
        => NothingElse
    BY PlaceIsEnough DEF TypesOK
  <1>2. (TypesOK /\ Asking /\ Relayed /\ Reads("client") /\ (step \in Before \/ Relaying)
         => NothingElse)'
    BY <1>1, PTL
  <1> QED
    BY <1>2 DEF Before

\* What is left to show of a step: the two claims about places, and that nothing is
\* handed to a client that does not read or when the places say nothing.
LEMMA Suffices ==
  ASSUME ConnInv, TypesOK', Asking', Relayed', UNCHANGED kind,
         \/ UNCHANGED Down
         \/ Reads("client")' /\ (step' \in Before \/ Relaying')
  PROVE  ConnInv'
  <1>1. NothingElse'
    BY NothingHanded, PlaceIsEnoughNext DEF ConnInv
  <1> QED
    BY <1>1 DEF ConnInv, TypesOK

\* An answer is added to what the client has been handed.
LEMMA AnswerStep ==
  ASSUME ConnInv, NEW data \in Seqs, NEW next, SendAndGoto("client", data, next),
         UNCHANGED got
  PROVE  /\ Reads("client")' <=> Reads("client")
         /\ ~Reads("client") => Down' = Down
         /\ Reads("client") => Down' = Cat(Down, data) /\ step' = next
         /\ step' \in {next, "dead"}
  <1>1. TypesOK
    BY DEF ConnInv, TypesOK
  <1>2. /\ Reads("client")' <=> Reads("client")
        /\ ~Reads("client") => outq' = outq
        /\ Reads("client") => step' = next /\ outq'["client"] = Cat(outq["client"], data)
        /\ step' \in {next, "dead"}
    BY <1>1, SendStep DEF Sides, Cat
  <1>3. got["client"] \in Seqs /\ outq["client"] \in Seqs
    BY <1>1 DEF TypesOK, QueuesOK
  <1>4. Cat(Cat(got["client"], outq["client"]), data)
          = Cat(got["client"], Cat(outq["client"], data))
    BY <1>3, Assoc
  <1> QED
    BY <1>2, <1>4 DEF Down

LEMMA ReadRequestStep ==
  ASSUME ConnInv, TypesOK', ReadRequest
  PROVE  ConnInv'
  <1>1. /\ UNCHANGED <<kind, buf, to, sent, outq, got, peer>>
        /\ step' \in {"close", "greet", "dial"}
        /\ step \in {"first", "second"}
    BY DEF ReadRequest
  <1>2. /\ step' = "greet" => kind = "socks" /\ step = "first"
        /\ step' = "dial" => step = "second" \/ kind # "socks"
    BY DEF ReadRequest, Understood
  <1>3. inq'["remote"] = inq["remote"]
    BY TakeStep DEF ReadRequest, Sides, ConnInv, TypesOK
  <1>4. Asking'
    BY <1>1, <1>2, <1>3
    DEF ConnInv, Asking, Answered, Before, Down, FromRemote, Reads
  <1>5. Relayed'
    BY <1>1 DEF Relayed, Relaying
  <1> QED
    BY <1>1, <1>4, <1>5, Suffices DEF Down

LEMMA DialStep ==
  ASSUME ConnInv, TypesOK', Dial
  PROVE  ConnInv'
  <1>1. /\ UNCHANGED <<kind, buf, to, sent, inq, outq, got>>
        /\ step = "dial" /\ step' \in {"reply", "refuse", "close"}
        /\ step' = "refuse" => kind # "http"
        /\ Reads("client")' <=> Reads("client")
    BY DEF Dial, AfterFailedDial, Reads, ConnInv, TypeOK, Sides
  <1>2. Asking'
    BY <1>1 DEF ConnInv, Asking, Answered, Before, Down, FromRemote
  <1>3. Relayed'
    BY <1>1 DEF Relayed, Relaying
  <1> QED
    BY <1>1, <1>2, <1>3, Suffices DEF Down

LEMMA AnsweredStep ==
  ASSUME ConnInv, TypesOK', Answer
  PROVE  ConnInv'
  <1>1. /\ UNCHANGED <<kind, running, parsed, buf, to, moved, ready, short, sent, inq, got>>
        /\ step \in {"greet", "reply", "refuse"}
    BY DEF Answer
  <1>2. /\ inq["remote"] = FromRemote /\ Answered \in Seqs /\ FromRemote \in Seqs
        /\ Reads("client") => Down = Answered
        /\ step = "greet" => kind = "socks"
        /\ step = "refuse" => kind # "http"
        /\ kind \in {"connect", "socks", "http"}
    BY <1>1, Queues DEF ConnInv, Asking, Before, TypeOK
  <1>3. inq'["remote"] = FromRemote' /\ FromRemote' = FromRemote
    BY <1>1, <1>2 DEF FromRemote
  <1>4. InHand' = <<>>
    BY <1>1 DEF ConnInv, TypeOK, InHand
  <1>5. CASE step = "greet" /\ SendAndGoto("client", <<"method">>, "second")
    <2>1. /\ Reads("client")' <=> Reads("client")
          /\ ~Reads("client") => Down' = Down
          /\ Reads("client") => Down' = Cat(Down, <<"method">>) /\ step' = "second"
          /\ step' \in {"second", "dead"}
      BY <1>1, <1>5, AnswerStep, Words
    <2>2. Reads("client") => Down' = <<"method">>
      BY <1>2, <1>5, <2>1, Joins, Words DEF Answered
    <2>3. Asking'
      BY <1>1, <1>2, <1>3, <1>5, <2>1, <2>2 DEF Asking, Answered, Before
    <2>4. Relayed'
      BY <2>1 DEF Relayed, Relaying
    <2> QED
      BY <1>1, <2>1, <2>3, <2>4, Suffices DEF Before
  <1>6. CASE step = "refuse" /\ SendAndGoto("client", <<"refused">>, "close")
    <2>1. /\ Reads("client")' <=> Reads("client")
          /\ ~Reads("client") => Down' = Down
          /\ Reads("client") => Down' = Cat(Down, <<"refused">>)
          /\ step' \in {"close", "dead"}
      BY <1>1, <1>6, AnswerStep, Words
    <2>2. Asking' /\ Relayed'
      BY <2>1 DEF Asking, Relayed, Relaying, Before
    <2>3. CASE ~Reads("client")
      BY <1>1, <2>1, <2>2, <2>3, Suffices
    <2>4. CASE Reads("client")
      <3>1. Down' = IF kind = "socks" THEN <<"method", "refused">> ELSE <<"refused">>
        BY <1>2, <1>6, <2>1, <2>4, Joins, Words DEF Answered
      <3>2. NothingElse'
        BY <1>1, <3>1 DEF NothingElse
      <3> QED
        BY <2>2, <3>2 DEF ConnInv, TypesOK
    <2> QED
      BY <2>3, <2>4
  <1>7. CASE step = "reply" /\ Reply
    <2>1. /\ Reads("client")' <=> Reads("client")
          /\ ~Reads("client") => Down' = Down
          /\ Reads("client") => Down' = Greeting
          /\ step' \in {"relay", "dead"}
          /\ step' = "dead" => Down' = Down
      <3>1. CASE kind = "http"
        <4>1. PICK data : SendAndGoto("remote", data, "relay")
          BY <1>7, <3>1 DEF Reply
        <4>2. /\ Reads("client")' <=> Reads("client")
              /\ outq'["client"] = outq["client"] /\ step' \in {"relay", "dead"}
          BY <4>1, SendStep DEF ConnInv, TypesOK, Sides
        <4>3. Down' = Down
          BY <1>1, <4>2 DEF Down
        <4> QED
          BY <1>2, <1>7, <3>1, <4>2, <4>3 DEF Answered, Greeting
      <3>2. CASE kind # "http"
        <4>1. SendAndGoto("client", <<"ok">>, "relay")
          BY <1>7, <3>2 DEF Reply
        <4>2. /\ Reads("client")' <=> Reads("client")
              /\ ~Reads("client") => Down' = Down
              /\ Reads("client") => Down' = Cat(Down, <<"ok">>) /\ step' = "relay"
              /\ step' \in {"relay", "dead"}
          BY <1>1, <4>1, AnswerStep, Words
        <4> QED
          BY <1>2, <1>7, <3>2, <4>2, Joins, Words DEF Answered, Greeting
      <3> QED
        BY <3>1, <3>2
    <2>2. Asking'
      BY <2>1 DEF Asking, Before
    <2>3. Greeting' = Greeting
      BY <1>1 DEF Greeting
    <2>4. Relayed'
      BY <1>2, <1>3, <1>4, <2>1, <2>3, Joins DEF Relayed
    <2>5. CASE Reads("client") /\ step' = "relay"
      BY <1>1, <2>1, <2>2, <2>4, <2>5, Suffices DEF Relaying
    <2>6. CASE Down' = Down
      BY <1>1, <2>2, <2>4, <2>6, Suffices
    <2> QED
      BY <2>1, <2>5, <2>6
  <1> QED
    BY <1>5, <1>6, <1>7 DEF Answer

LEMMA ControlStep ==
  ASSUME ConnInv, TypesOK', Close \/ Relay \/ Select \/ Stop \/ UNCHANGED vars
  PROVE  ConnInv'
  <1>1. UNCHANGED <<kind, buf, to, sockets>>
    BY DEF Close, Relay, Select, Stop, handlerVars, vars
  <1>2. \/ step' = step
        \/ step' \in {"select", "serve", "close"} /\ step \in {"relay", "select"}
        \/ step' = "done"
    BY DEF Close, Relay, Select, Idle, Stop, handlerVars, vars
  <1>3. UNCHANGED <<Down, InHand, FromRemote, Reads("client"), Greeting, inq>>
    BY <1>1 DEF Down, InHand, FromRemote, Reads, Greeting, sockets
  <1>4. Asking'
    BY <1>1, <1>2, <1>3 DEF ConnInv, Asking, Answered, Before
  <1>5. Relayed'
    BY <1>2, <1>3 DEF ConnInv, Relayed, Relaying
  <1> QED
    BY <1>1, <1>3, <1>4, <1>5, Suffices

LEMMA ServeStep ==
  ASSUME ConnInv, TypesOK', Serve
  PROVE  ConnInv'
  <1>1. /\ UNCHANGED <<kind, sent, outq, got, peer>>
        /\ step = "serve" /\ step' \in {"relay", "close", "send"}
    BY DEF Serve, AfterEnd
  <1>2. UNCHANGED <<Down, FromRemote, Reads("client"), Greeting>>
    BY <1>1 DEF Down, FromRemote, Reads, Greeting
  <1>3. Asking'
    BY <1>1 DEF Asking, Before
  <1>4. InHand = <<>> /\ TypesOK
    BY <1>1 DEF ConnInv, TypeOK, InHand, TypesOK
  <1>5. Reads("client") => Cat(Down, Cat(<<>>, inq["remote"])) = Cat(Greeting, FromRemote)
    BY <1>1, <1>4 DEF ConnInv, Relayed, Relaying
  <1>6. Cat(InHand', inq'["remote"]) = Cat(<<>>, inq["remote"])
    <2>1. CASE UNCHANGED <<buf, to, inq>>
      BY <1>4, <2>1 DEF InHand
    <2>2. ASSUME NEW n \in 1..Len(inq[Serving]), Take(Serving, n),
                 buf' = SubSeq(inq[Serving], 1, n),
                 to' = IF Serving = "client" THEN "remote" ELSE "client"
          PROVE  Cat(InHand', inq'["remote"]) = Cat(<<>>, inq["remote"])
      <3>1. CASE Serving = "client"
        <4>1. inq'["remote"] = inq["remote"]
          BY <1>4, <2>2, <3>1, TakeStep DEF Sides
        <4>2. InHand' = <<>>
          BY <2>2, <3>1 DEF InHand
        <4> QED
          BY <4>1, <4>2
      <3>2. CASE Serving = "remote"
        <4>1. Cat(SubSeq(inq["remote"], 1, n), inq'["remote"]) = inq["remote"]
          BY <1>4, <2>2, <3>2, TakeStep DEF Sides
        <4>2. InHand' = SubSeq(inq["remote"], 1, n)
          BY <2>2, <3>2 DEF InHand
        <4>3. Cat(<<>>, inq["remote"]) = inq["remote"]
          BY <1>4, Joins DEF TypesOK, QueuesOK, Sides
        <4> QED
          BY <4>1, <4>2, <4>3
      <3> QED
        BY <3>1, <3>2 DEF Serving
    <2> QED
      BY <2>1, <2>2 DEF Serve
  <1>7. Relayed'
    BY <1>2, <1>5, <1>6 DEF Relayed
  <1> QED
    BY <1>1, <1>2, <1>3, <1>7, Suffices

LEMMA SendingStep ==
  ASSUME ConnInv, TypesOK', Send
  PROVE  ConnInv'
  <1>1. /\ UNCHANGED <<kind, sent, inq, got>>
        /\ step = "send" /\ step' \in {"serve", "send", "close", "dead"}
        /\ to' = IF step' = "send" THEN to ELSE "client"
    BY DEF Send, SendAndGoto, BrokenPipe, ReturnEarly
  <1>2. TypesOK /\ to \in Sides
    BY DEF ConnInv, TypesOK, TypeOK
  <1>3. UNCHANGED <<FromRemote, Greeting, inq["remote"]>>
    BY <1>1 DEF FromRemote, Greeting
  <1>4. Asking'
    BY <1>1 DEF Asking, Before
  <1>5. Reads("client") => Cat(Down, Cat(InHand, inq["remote"])) = Cat(Greeting, FromRemote)
    BY <1>1 DEF ConnInv, Relayed, Relaying
  <1>6. step' # "send" => buf' = <<>>
    BY DEF TypesOK, TypeOK
  <1>7. CASE to = "remote"
    <2>1. UNCHANGED <<Down, Reads("client")>>
      <3>1. CASE SendAndGoto(to, <<>>, "serve")
        <4>1. outq'["client"] = outq["client"] /\ (Reads("client")' <=> Reads("client"))
          BY <1>2, <1>7, <3>1, SendStep DEF Sides
        <4> QED
          BY <1>1, <4>1 DEF Down, Reads
      <3>2. CASE /\ outq' \in {outq} \cup { [outq EXCEPT ![to] = @ \o d] : d \in Seqs }
                 /\ peer' \in {peer, [peer EXCEPT ![to] = "pipe"]}
        <4>1. outq'["client"] = outq["client"] /\ peer'["client"] = peer["client"]
          BY <1>2, <1>7, <3>2 DEF TypesOK, QueuesOK, TypeOK, Sides
        <4> QED
          BY <1>1, <4>1 DEF Down, Reads
      <3>3. \A n \in 1..Len(buf) : SubSeq(buf, 1, n) \in Seqs
        BY <1>2, Cuts DEF TypesOK, QueuesOK
      <3> QED
        BY <3>1, <3>2, <3>3 DEF Send
    <2>2. InHand = <<>> /\ InHand' = <<>>
      BY <1>1, <1>6, <1>7 DEF InHand
    <2>3. Relayed'
      BY <1>3, <1>5, <2>1, <2>2 DEF Relayed
    <2> QED
      BY <1>1, <1>4, <2>1, <2>3, Suffices
  <1>8. CASE to = "client" /\ ~Reads("client")
    <2>1. UNCHANGED Down /\ ~Reads("client")'
      <3>1. CASE SendAndGoto(to, <<>>, "serve")
        BY <1>1, <1>2, <1>8, <3>1, SendStep, Words DEF Down, Sides
      <3>2. CASE outq' = outq /\ peer' = [peer EXCEPT ![to] = "pipe"]
        BY <1>1, <1>2, <1>8, <3>2 DEF Down, Reads, TypesOK, TypeOK, Sides
      <3> QED
        BY <1>8, <3>1, <3>2 DEF Send
    <2>2. Relayed'
      BY <2>1 DEF Relayed
    <2> QED
      BY <1>1, <1>4, <2>1, <2>2, Suffices
  <1>9. CASE to = "client" /\ Reads("client")
    <2>1. PICK n \in 1..Len(buf) :
            /\ outq' = [outq EXCEPT !["client"] = @ \o SubSeq(buf, 1, n)]
            /\ buf' = SubSeq(buf, n + 1, Len(buf))
            /\ peer' = peer /\ step' \in {"serve", "send"}
      BY <1>9 DEF Send, Reads, SendTimeOut
    <2> DEFINE sending == SubSeq(buf, 1, n)
    <2>2. sending \in Seqs /\ buf' \in Seqs /\ Cat(sending, buf') = buf
      BY <1>2, <2>1, Cuts DEF TypesOK, QueuesOK
    <2>3. outq'["client"] = Cat(outq["client"], sending)
      BY <1>2, <2>1 DEF Cat, TypesOK, QueuesOK, Sides
    <2> HIDE DEF sending
    <2>4. /\ got["client"] \in Seqs /\ outq["client"] \in Seqs /\ Down \in Seqs
          /\ inq["remote"] \in Seqs
      BY <1>2, Queues DEF TypesOK, QueuesOK
    <2>5. Down' = Cat(Down, sending)
      BY <1>1, <2>2, <2>3, <2>4, Assoc DEF Down
    <2>6. InHand = buf /\ InHand' = buf'
      BY <1>1, <1>6, <1>9 DEF InHand
    <2>7. Cat(buf', inq["remote"]) \in Seqs
      BY <2>2, <2>4, Joins
    <2>8. Cat(Cat(Down, sending), Cat(buf', inq["remote"]))
            = Cat(Down, Cat(sending, Cat(buf', inq["remote"])))
      BY <2>2, <2>4, <2>7, Assoc
    <2>9. Cat(sending, Cat(buf', inq["remote"])) = Cat(buf, inq["remote"])
      BY <2>2, <2>4, Assoc
    <2>10. Relayed'
      BY <1>3, <1>5, <1>9, <2>5, <2>6, <2>8, <2>9 DEF Relayed
    <2> QED
      BY <1>1, <1>4, <1>9, <2>1, <2>10, Suffices DEF Reads, Relaying
  <1> QED
    BY <1>2, <1>7, <1>8, <1>9 DEF Sides

LEMMA PeerSendStep ==
  ASSUME ConnInv, TypesOK', NEW s \in Sides, PeerSend(s)
  PROVE  ConnInv'
  <1>1. UNCHANGED <<kind, step, buf, to, outq, got, peer>> /\ TypesOK
    BY DEF PeerSend, handlerVars, ConnInv, TypesOK
  <1>2. UNCHANGED <<Down, InHand, Greeting, Reads("client"), Answered>>
    BY <1>1 DEF Down, InHand, Greeting, Reads, Answered
  <1>3. CASE s = "client"
    <2>1. inq'["remote"] = inq["remote"] /\ sent'["remote"] = sent["remote"]
      BY <1>1, <1>3 DEF PeerSend, TypesOK, TypeOK, QueuesOK, Sides
    <2>2. FromRemote' = FromRemote
      BY <2>1 DEF FromRemote
    <2>3. Asking' /\ Relayed'
      BY <1>1, <1>2, <2>1, <2>2 DEF ConnInv, Asking, Relayed, Relaying
    <2> QED
      BY <1>1, <1>2, <2>3, Suffices
  <1>4. CASE s = "remote"
    <2>1. PICK e \in Units : /\ inq'["remote"] = Append(inq["remote"], e)
                             /\ FromRemote' = Append(FromRemote, e)
      <3>1. /\ sent["remote"] \in 0..Len(Payload["remote"])
            /\ sent["remote"] < Len(Payload["remote"])
            /\ Payload["remote"] \in Seqs
        BY <1>1, <1>4, Queues DEF PeerSend, Stream, TypesOK
      <3>2. /\ sent'["remote"] = sent["remote"] + 1
            /\ inq'["remote"] = Append(inq["remote"], Payload["remote"][sent["remote"] + 1])
        BY <1>1, <1>4 DEF PeerSend, Stream, TypesOK, TypeOK, QueuesOK, Sides
      <3>3. /\ Payload["remote"][sent["remote"] + 1] \in Units
            /\ Append(FromRemote, Payload["remote"][sent["remote"] + 1])
                 = SubSeq(Payload["remote"], 1, sent["remote"] + 1)
        BY <3>1, OneMore DEF FromRemote, Seqs
      <3> QED
        BY <3>2, <3>3 DEF FromRemote
    <2>2. /\ inq["remote"] \in Seqs /\ FromRemote \in Seqs /\ Down \in Seqs
          /\ InHand \in Seqs /\ Greeting \in Seqs
      BY <1>1, Queues DEF TypesOK
    <2>3. /\ inq'["remote"] = Cat(inq["remote"], <<e>>)
          /\ FromRemote' = Cat(FromRemote, <<e>>)
          /\ <<e>> \in Seqs
      BY <2>1, <2>2, Appends
    <2> DEFINE one == <<e>>
    <2> HIDE DEF one
    <2>4. one \in Seqs /\ inq'["remote"] = Cat(inq["remote"], one)
          /\ FromRemote' = Cat(FromRemote, one)
      BY <2>3 DEF one
    <2>5. Cat(InHand, Cat(inq["remote"], one)) = Cat(Cat(InHand, inq["remote"]), one)
      BY <2>2, <2>4, Assoc
    <2>6. Cat(Down, Cat(Cat(InHand, inq["remote"]), one))
            = Cat(Cat(Down, Cat(InHand, inq["remote"])), one)
      <3>1. Cat(InHand, inq["remote"]) \in Seqs
        BY <2>2, Joins
      <3> QED
        BY <2>2, <2>4, <3>1, Assoc
    <2>7. Cat(Greeting, Cat(FromRemote, one)) = Cat(Cat(Greeting, FromRemote), one)
      BY <2>2, <2>4, Assoc
    <2>8. Asking'
      BY <1>1, <1>2, <2>4 DEF ConnInv, Asking
    <2>9. Relayed'
      BY <1>1, <1>2, <2>4, <2>5, <2>6, <2>7 DEF ConnInv, Relayed, Relaying
    <2> QED
      BY <1>1, <1>2, <2>8, <2>9, Suffices
  <1> QED
    BY <1>3, <1>4 DEF Sides

LEMMA PeerOtherStep ==
  ASSUME ConnInv, TypesOK', NEW s \in Sides, PeerReceive(s) \/ PeerEnds(s)
  PROVE  ConnInv'
  <1>1. UNCHANGED <<kind, step, buf, to, sent, inq>> /\ TypesOK
    BY DEF PeerReceive, PeerEnds, handlerVars, ConnInv, TypesOK
  <1>2. UNCHANGED <<InHand, Greeting, Answered, FromRemote>>
    BY <1>1 DEF InHand, Greeting, Answered, FromRemote
  <1>3. Reads("client")' => Reads("client")
    <2>1. CASE PeerReceive(s)
      BY <2>1 DEF PeerReceive, Reads
    <2>2. CASE PeerEnds(s)
      <3>1. PICK e : /\ peer' = [peer EXCEPT ![s] = e]
                     /\ e \in {"reset", "pipe", "closed"} \/ peer[s] = "open"
        BY <2>2 DEF PeerEnds
      <3> QED
        BY <1>1, <3>1 DEF Reads, TypesOK, TypeOK, Sides
    <2> QED
      BY <2>1, <2>2
  <1>4. UNCHANGED Down
    <2>1. CASE PeerEnds(s) \/ s = "remote"
      BY <1>1, <2>1 DEF PeerReceive, PeerEnds, Down, TypesOK, QueuesOK, Sides
    <2>2. CASE PeerReceive("client")
      <3>1. /\ got["client"] \in Seqs /\ outq["client"] \in Seqs /\ outq["client"] # <<>>
            /\ got'["client"] = Append(got["client"], Head(outq["client"]))
            /\ outq'["client"] = Tail(outq["client"])
        BY <1>1, <2>2 DEF PeerReceive, TypesOK, QueuesOK, Sides
      <3> QED
        BY <3>1, Received DEF Down
    <2> QED
      BY <2>1, <2>2 DEF Sides
  <1>5. Asking' /\ Relayed'
    BY <1>1, <1>2, <1>3, <1>4 DEF ConnInv, Asking, Relayed, Relaying
  <1> QED
    BY <1>1, <1>4, <1>5, Suffices

LEMMA ConnNext == ConnInv /\ [Next]_vars => ConnInv'
  <1> SUFFICES ASSUME ConnInv, [Next]_vars PROVE ConnInv'
    OBVIOUS
  <1>1. TypesOK'
    BY TypesStep
  <1> QED
    BY <1>1, ReadRequestStep, DialStep, AnsweredStep, ControlStep, ServeStep, SendingStep,
       PeerSendStep, PeerOtherStep DEF Next, HandlerStep

LEMMA ConnInvariant == Spec => []ConnInv
  BY ConnInit, ConnNext, PTL DEF Spec

------------------------------------------------------------------------
(* The theorems. *)

\* Every variable keeps to its values: something is to be sent exactly while send()
\* runs, and there is a remote socket whenever the handler relays.
THEOREM ConnectionTypeCorrect == Spec => []TypeOK
  <1>1. ConnInv => TypeOK
    BY DEF ConnInv
  <1> QED
    BY <1>1, ConnInvariant, PTL

\* Whatever the peers do, the client reads the answer and then the remote host's data
\* without a gap, or a refusal.
THEOREM ConnectionDownstreamIntact == Spec => []DownstreamIntact
  <1>1. ConnInv => DownstreamIntact
    <2> SUFFICES ASSUME ConnInv PROVE DownstreamIntact
      OBVIOUS
    <2> DEFINE g == got["client"]
               q == outq["client"]
    <2>1. g \in Seqs /\ q \in Seqs
      BY DEF ConnInv, QueuesOK
    <2> HIDE DEF g, q
    <2>2. CASE \E rest \in Seqs : Cat(Down, rest) = Cat(Greeting, Payload["remote"])
      <3>1. PICK rest \in Seqs : Cat(Cat(g, q), rest) = Cat(Greeting, Payload["remote"])
        BY <2>2 DEF Down, g, q
      <3>2. Cat(g, Cat(q, rest)) = Cat(Greeting, Payload["remote"]) /\ Cat(q, rest) \in Seqs
        BY <2>1, <3>1, Assoc, Joins
      <3>3. IsPrefix(g, g \o Cat(q, rest))
        BY <2>1, <3>2, PrefixOfConcat DEF Seqs
      <3> QED
        BY <3>2, <3>3 DEF DownstreamIntact, Cat, g
    <2>3. Payload["remote"] \in Seqs /\ Greeting \in Seqs
      BY Queues DEF ConnInv
    <2>4. g = <<>> => DownstreamIntact
      <3>1. Cat(Greeting, Payload["remote"]) \in Seqs
        BY <2>3, Joins
      <3>2. IsPrefix(<<>>, Cat(Greeting, Payload["remote"]))
        BY <3>1, LenProperties, SubSeqEmpty DEF IsPrefix, Seqs
      <3> QED
        BY <3>2 DEF DownstreamIntact, Cat, g
    <2>5. CASE Down = <<"refused">>
      <3>1. g = <<>> \/ g = <<"refused">>
        <4>1. PICK c : c = <<"refused">>
          OBVIOUS
        <4>2. c \in Seqs /\ Len(c) = 1 /\ c[1] = "refused"
          BY <4>1, Words
        <4>3. Cat(g, q) = c
          BY <2>5, <4>1 DEF Down, g, q
        <4>4. g = <<>> \/ g = <<c[1]>>
          BY <2>1, <4>2, <4>3, PartsOfTwo
        <4> QED
          BY <4>2, <4>4
      <3> QED
        BY <2>4, <3>1 DEF DownstreamIntact, g
    <2>6. CASE Down = <<"method", "refused">> /\ kind = "socks"
      <3>1. g = <<>> \/ g = <<"method">> \/ g = <<"method", "refused">>
        <4>1. PICK c : c = <<"method", "refused">>
          OBVIOUS
        <4>2. c \in Seqs /\ Len(c) = 2 /\ c[1] = "method" /\ c[2] = "refused"
          BY <4>1, Words
        <4>3. Cat(g, q) = c
          BY <2>6, <4>1 DEF Down, g, q
        <4>4. g = <<>> \/ g = <<c[1]>> \/ g = <<c[1], c[2]>>
          BY <2>1, <4>2, <4>3, PartsOfTwo
        <4> QED
          BY <4>2, <4>4
      <3>2. CASE g = <<"method">>
        <4>1. Greeting = Cat(<<"method">>, <<"ok">>)
          BY <2>6, Words DEF Greeting
        <4>2. /\ Cat(<<"ok">>, Payload["remote"]) \in Seqs
              /\ Cat(Greeting, Payload["remote"])
                   = Cat(g, Cat(<<"ok">>, Payload["remote"]))
          <5>1. PICK o \in Seqs : o = <<"ok">>
            BY Words
          <5>2. Greeting = Cat(g, o)
            BY <3>2, <4>1, <5>1
          <5>3. /\ Cat(o, Payload["remote"]) \in Seqs
                /\ Cat(Cat(g, o), Payload["remote"]) = Cat(g, Cat(o, Payload["remote"]))
            <6>1. Cat(o, Payload["remote"]) \in Seqs
              BY <2>3, Joins
            <6>2. Cat(Cat(g, o), Payload["remote"]) = Cat(g, Cat(o, Payload["remote"]))
              BY <2>1, <2>3, Assoc
            <6> QED
              BY <6>1, <6>2
          <5> QED
            BY <5>1, <5>2, <5>3
        <4>3. IsPrefix(g, g \o Cat(<<"ok">>, Payload["remote"]))
          BY <2>1, <4>2, PrefixOfConcat DEF Seqs
        <4> QED
          BY <4>2, <4>3 DEF DownstreamIntact, Cat, g
      <3> QED
        BY <2>4, <3>1, <3>2 DEF DownstreamIntact, g
    <2> QED
      BY <2>2, <2>5, <2>6 DEF ConnInv, NothingElse
  <1> QED
    BY <1>1, ConnInvariant, PTL

\* When the relay ends on the remote host's end of input, a client that still reads
\* has been handed all that the remote host sent.
THEOREM ConnectionResponseComplete == Spec => ResponseComplete
  <1>1. ConnInv /\ [Next]_vars =>
          [/\ step = "serve" /\ step' = "close" /\ Serving = "remote" /\ Reads("client")
           => got["client"] \o outq["client"]
                = Greeting \o SubSeq(Payload["remote"], 1, sent["remote"])]_vars
    <2> SUFFICES ASSUME ConnInv, Next, step = "serve", step' = "close",
                        Serving = "remote", Reads("client")
                 PROVE  Down = Cat(Greeting, FromRemote)
      BY DEF Down, Cat, FromRemote
    <2>1. inq["remote"] = <<>>
      BY DEF Next, HandlerStep, ReadRequest, Dial, Answer, Close, Relay, Select, Serve, Send,
             Stop, PeerSend, PeerReceive, PeerEnds, handlerVars
    <2>2. Cat(Down, Cat(InHand, <<>>)) = Cat(Greeting, FromRemote) /\ InHand = <<>>
      BY <2>1 DEF ConnInv, Relayed, Relaying, TypeOK, InHand
    <2>3. Cat(InHand, <<>>) = <<>> /\ Cat(Down, <<>>) = Down
      BY <2>2, Joins, Queues, Words DEF ConnInv
    <2> QED
      BY <2>2, <2>3
  <1> QED
    BY <1>1, ConnInvariant, PTL DEF Spec, ResponseComplete

------------------------------------------------------------------------
(* The way up.  What the handler read but does not hand on leaves a gap that never
   closes, so that the law is one of places in the client's stream. *)

\* s stands in t right after its first p units.
StandsAt(s, t, p) ==
  p + Len(s) <= Len(t) /\ \A i \in 1..Len(s) : s[i] = t[p + i]

\* Everything handed to the remote host's socket so far.
Up == Cat(got["remote"], outq["remote"])

\* What of it is in send()'s hands.
Carried == IF to = "remote" THEN buf ELSE <<>>

\* The units of the client that the handler has done with.
Behind == sent["client"] - Len(Cat(Carried, inq["client"]))

\* Where the remote host's part of the client's stream begins.
Base == IF kind = "http" THEN 0 ELSE Len(Request)

\* The recv() calls ended exactly with the request, and no send() was cut short.
Exact == (kind = "http" \/ parsed = Len(Request)) /\ ~short

\* Carried and unread units stand together at their place in the stream, what was
\* handed on comes from before it, and joins it as long as nothing was lost.
UpInv ==
  /\ outq["remote"] \in Seqs /\ got["remote"] \in Seqs
  /\ sent["client"] <= Len(Stream("client"))
  /\ parsed <= Behind
  /\ StandsAt(Cat(Carried, inq["client"]), Stream("client"), Behind)
  /\ step \in Before => Up = <<>> /\ parsed = Behind
  /\ LeftOf(Up, Stream("client"), Behind)
  /\ Exact => StandsAt(Up, Stream("client"), Base)
  /\ Exact /\ Relaying /\ Reads("remote") => Base + Len(Up) = Behind

------------------------------------------------------------------------
(* Places in a stream. *)

\* The units of a joined sequence.
LEMMA Indices ==
  ASSUME NEW a \in Seqs, NEW b \in Seqs
  PROVE  /\ Len(a) \in Nat /\ Len(b) \in Nat /\ Len(Cat(a, b)) = Len(a) + Len(b)
         /\ \A i \in 1..Len(a) : Cat(a, b)[i] = a[i]
         /\ \A i \in 1..Len(b) : Cat(a, b)[Len(a) + i] = b[i]
  <1>1. PICK S : a \in Seq(S) /\ b \in Seq(S)
    BY DEF Seqs
  <1>2. /\ Len(a) \in Nat /\ Len(b) \in Nat /\ Len(a \o b) = Len(a) + Len(b)
        /\ \A i \in 1..Len(a) + Len(b) :
             (a \o b)[i] = IF i <= Len(a) THEN a[i] ELSE b[i - Len(a)]
    BY <1>1, ConcatProperties, LenProperties
  <1>3. \A i \in 1..Len(a) : (a \o b)[i] = a[i]
    BY <1>2
  <1>4. ASSUME NEW i \in 1..Len(b) PROVE (a \o b)[Len(a) + i] = b[i]
    <2>1. PICK k : k = Len(a) + i
      OBVIOUS
    <2>2. k \in 1..(Len(a) + Len(b)) /\ ~ (k <= Len(a)) /\ k - Len(a) = i
      BY <1>2, <2>1
    <2>3. (a \o b)[k] = b[k - Len(a)]
      BY <1>2, <2>2
    <2> QED
      BY <2>1, <2>2, <2>3
  <1> QED
    BY <1>2, <1>3, <1>4 DEF Cat

\* Two sequences stand somewhere together if the second stands right after the first.
LEMMA StandsJoin ==
  ASSUME NEW a \in Seqs, NEW b \in Seqs, NEW t \in Seqs, NEW p \in Nat
  PROVE  StandsAt(Cat(a, b), t, p) <=> StandsAt(a, t, p) /\ StandsAt(b, t, p + Len(a))
  <1>1. /\ Len(a) \in Nat /\ Len(b) \in Nat /\ Len(Cat(a, b)) = Len(a) + Len(b)
        /\ \A i \in 1..Len(a) : Cat(a, b)[i] = a[i]
        /\ \A i \in 1..Len(b) : Cat(a, b)[Len(a) + i] = b[i]
    BY Indices
  <1>2. Len(t) \in Nat
    BY LenProperties DEF Seqs
  <1>3. PICK c, m, k, l : c = Cat(a, b) /\ m = Len(a) /\ k = Len(b) /\ l = Len(t)
    OBVIOUS
  <1>4. /\ m \in Nat /\ k \in Nat /\ l \in Nat /\ Len(c) = m + k
        /\ \A i \in 1..m : c[i] = a[i]
        /\ \A i \in 1..k : c[m + i] = b[i]
    BY <1>1, <1>2, <1>3
  <1>5. ASSUME p + (m + k) <= l, \A i \in 1..(m + k) : c[i] = t[p + i]
        PROVE  /\ p + m <= l /\ \A i \in 1..m : a[i] = t[p + i]
               /\ (p + m) + k <= l /\ \A i \in 1..k : b[i] = t[(p + m) + i]
    <2>1. \A i \in 1..m : i \in 1..(m + k)
      BY <1>4
    <2>2. \A i \in 1..k : m + i \in 1..(m + k) /\ p + (m + i) = (p + m) + i
      BY <1>4
    <2> QED
      BY <1>4, <1>5, <2>1, <2>2
  <1>6. ASSUME /\ p + m <= l /\ \A i \in 1..m : a[i] = t[p + i]
               /\ (p + m) + k <= l /\ \A i \in 1..k : b[i] = t[(p + m) + i]
        PROVE  p + (m + k) <= l /\ \A i \in 1..(m + k) : c[i] = t[p + i]
    <2>1. ASSUME NEW i \in 1..(m + k) PROVE c[i] = t[p + i]
      <3>1. CASE i \in 1..m
        BY <1>4, <1>6, <3>1
      <3>2. CASE i \notin 1..m
        <4>1. PICK j \in 1..k : i = m + j
          <5>1. i - m \in 1..k /\ i = m + (i - m)
            BY <1>4, <3>2
          <5> QED
            BY <5>1
        <4>2. c[m + j] = t[(p + m) + j]
          BY <1>4, <1>6
        <4>3. (p + m) + j = p + i
          BY <1>4, <4>1
        <4> QED
          BY <4>1, <4>2, <4>3
      <3> QED
        BY <3>1, <3>2
    <2> QED
      BY <1>4, <1>6, <2>1
  <1> QED
    BY <1>3, <1>4, <1>5, <1>6 DEF StandsAt

\* What is left of a longer part.
LEMMA LeftWiden ==
  ASSUME NEW s, NEW t, NEW m \in Nat, NEW n \in Nat, m <= n, LeftOf(s, t, m)
  PROVE  LeftOf(s, t, n)
  <1>1. PICK at \in [1..Len(s) -> 1..m] :
          /\ \A i, j \in 1..Len(s) : i < j => at[i] < at[j]
          /\ \A i \in 1..Len(s) : s[i] = t[at[i]]
    BY DEF LeftOf
  <1>2. 1..m \subseteq 1..n
    OBVIOUS
  <1>3. at \in [1..Len(s) -> 1..n]
    BY <1>2
  <1> QED
    BY <1>1, <1>3 DEF LeftOf

\* Nothing is left of anything.
LEMMA LeftNothing == \A t, n : LeftOf(<<>>, t, n)
  <1> SUFFICES ASSUME NEW t, NEW n PROVE LeftOf(<<>>, t, n)
    OBVIOUS
  <1>1. 1..Len(<<>>) = {}
    OBVIOUS
  <1>2. PICK f : f = [i \in {} |-> 1]
    OBVIOUS
  <1>3. f \in [1..Len(<<>>) -> 1..n]
    BY <1>1, <1>2
  <1> QED
    BY <1>1, <1>3 DEF LeftOf

\* What is left, up to some place.
LEMMA LeftFirst ==
  ASSUME NEW a \in Seqs, NEW b \in Seqs, NEW t, NEW n \in Nat, LeftOf(Cat(a, b), t, n)
  PROVE  LeftOf(a, t, n)
  <1>1. /\ Len(a) \in Nat /\ Len(b) \in Nat /\ Len(Cat(a, b)) = Len(a) + Len(b)
        /\ \A i \in 1..Len(a) : Cat(a, b)[i] = a[i]
    BY Indices
  <1>2. PICK at \in [1..Len(Cat(a, b)) -> 1..n] :
          /\ \A i, j \in 1..Len(Cat(a, b)) : i < j => at[i] < at[j]
          /\ \A i \in 1..Len(Cat(a, b)) : Cat(a, b)[i] = t[at[i]]
    BY DEF LeftOf
  <1>3. PICK f : f = [i \in 1..Len(a) |-> at[i]]
    OBVIOUS
  <1>4. 1..Len(a) \subseteq 1..Len(Cat(a, b))
    BY <1>1
  <1>5. /\ f \in [1..Len(a) -> 1..n]
        /\ \A i, j \in 1..Len(a) : i < j => f[i] < f[j]
        /\ \A i \in 1..Len(a) : a[i] = t[f[i]]
    BY <1>1, <1>2, <1>3, <1>4
  <1> QED
    BY <1>5 DEF LeftOf

\* What stands behind what is left, is left as well.
LEMMA LeftJoin ==
  ASSUME NEW a \in Seqs, NEW b \in Seqs, NEW t, NEW n \in Nat,
         LeftOf(a, t, n), StandsAt(b, t, n)
  PROVE  LeftOf(Cat(a, b), t, n + Len(b))
  <1>1. /\ Len(a) \in Nat /\ Len(b) \in Nat /\ Len(Cat(a, b)) = Len(a) + Len(b)
        /\ \A i \in 1..Len(a) : Cat(a, b)[i] = a[i]
        /\ \A i \in 1..Len(b) : Cat(a, b)[Len(a) + i] = b[i]
    BY Indices
  <1>2. PICK at \in [1..Len(a) -> 1..n] :
          /\ \A i, j \in 1..Len(a) : i < j => at[i] < at[j]
          /\ \A i \in 1..Len(a) : a[i] = t[at[i]]
    BY DEF LeftOf
  <1>3. PICK c, m, k : c = Cat(a, b) /\ m = Len(a) /\ k = Len(b)
    OBVIOUS
  <1>4. /\ m \in Nat /\ k \in Nat /\ Len(c) = m + k
        /\ \A i \in 1..m : c[i] = a[i]
        /\ \A i \in 1..k : c[m + i] = b[i]
        /\ \A i \in 1..k : b[i] = t[n + i]
    BY <1>1, <1>3 DEF StandsAt
  <1>5. PICK f : f = [i \in 1..(m + k) |-> IF i <= m THEN at[i] ELSE n + (i - m)]
    OBVIOUS
  <1>6. \A i \in 1..m : at[i] \in 1..n
    BY <1>2, <1>3
  <1>7. ASSUME NEW i \in 1..(m + k)
        PROVE  /\ i <= m => i \in 1..m /\ f[i] = at[i]
               /\ ~ (i <= m) => f[i] = n + (i - m) /\ i - m \in 1..k
    BY <1>4, <1>5
  <1>8. f \in [1..(m + k) -> 1..(n + k)]
    <2>1. ASSUME NEW i \in 1..(m + k) PROVE f[i] \in 1..(n + k)
      BY <1>4, <1>6, <1>7
    <2> QED
      BY <1>5, <2>1
  <1>9. ASSUME NEW i \in 1..(m + k), NEW j \in 1..(m + k), i < j PROVE f[i] < f[j]
    <2>1. CASE j <= m
      <3>1. i \in 1..m /\ j \in 1..m
        BY <1>4, <1>9, <2>1
      <3> QED
        BY <1>2, <1>3, <1>7, <1>9, <3>1
    <2>2. CASE i <= m /\ ~ (j <= m)
      <3>1. f[i] \in 1..n /\ f[j] = n + (j - m) /\ j - m \in 1..k
        BY <1>6, <1>7, <2>2
      <3> QED
        BY <1>4, <3>1
    <2>3. CASE ~ (i <= m) /\ ~ (j <= m)
      BY <1>4, <1>7, <1>9, <2>3
    <2> QED
      BY <1>4, <1>9, <2>1, <2>2, <2>3
  <1>10. ASSUME NEW i \in 1..(m + k) PROVE c[i] = t[f[i]]
    <2>1. CASE i <= m
      BY <1>2, <1>3, <1>4, <1>7, <2>1
    <2>2. CASE ~ (i <= m)
      <3>1. PICK j \in 1..k : i = m + j /\ f[i] = n + j
        <4>1. i - m \in 1..k /\ i = m + (i - m) /\ f[i] = n + (i - m)
          BY <1>4, <1>7, <2>2
        <4> QED
          BY <4>1
      <3> QED
        BY <1>4, <3>1
    <2> QED
      BY <2>1, <2>2
  <1> QED
    BY <1>3, <1>4, <1>8, <1>9, <1>10 DEF LeftOf

------------------------------------------------------------------------
(* UpInv holds. *)

\* Where the remote host's part begins is in the stream.
LEMMA UpFacts ==
  ASSUME TypesOK, UpInv
  PROVE  /\ Up \in Seqs /\ Carried \in Seqs /\ inq["client"] \in Seqs
         /\ Cat(Carried, inq["client"]) \in Seqs
         /\ got["remote"] \in Seqs /\ outq["remote"] \in Seqs
         /\ Stream("client") \in Seqs /\ Len(Stream("client")) \in Nat
         /\ Base \in 0..Len(Stream("client"))
         /\ sent["client"] \in Nat /\ parsed \in Nat /\ Behind \in Nat
         /\ Behind + Len(Cat(Carried, inq["client"])) = sent["client"]
         /\ Behind <= sent["client"]
  <1>1. /\ inq["client"] \in Seqs /\ buf \in Seqs /\ sent["client"] \in Nat /\ parsed \in Nat
        /\ kind \in {"connect", "socks", "http"}
        /\ got["remote"] \in Seqs /\ outq["remote"] \in Seqs
    BY DEF TypesOK, TypeOK, QueuesOK, Sides, UpInv
  <1>2. Carried \in Seqs
    BY <1>1, Words DEF Carried
  <1>3. Cat(Carried, inq["client"]) \in Seqs /\ Up \in Seqs
    BY <1>1, <1>2, Joins DEF Up
  <1>4. Stream("client") \in Seqs
    BY <1>1, Streams DEF Sides
  <1>5. Len(Stream("client")) \in Nat /\ Len(Cat(Carried, inq["client"])) \in Nat
    BY <1>3, <1>4, LenProperties DEF Seqs
  <1>6. Base \in 0..Len(Stream("client"))
    <2>1. Request \in Seqs /\ Payload["client"] \in Seqs
      BY <1>1, Requests, Payloads DEF Sides
    <2>2. Stream("client") = Cat(Request, Payload["client"])
      BY DEF Stream, Cat
    <2>3. /\ Len(Request) \in Nat /\ Len(Payload["client"]) \in Nat
          /\ Len(Stream("client")) = Len(Request) + Len(Payload["client"])
      BY <2>1, <2>2, Indices
    <2> QED
      BY <2>3 DEF Base
  <1>7. parsed <= Behind /\ Behind = sent["client"] - Len(Cat(Carried, inq["client"]))
    BY DEF UpInv, Behind
  <1>8. /\ Behind \in Nat /\ Behind <= sent["client"]
        /\ Behind + Len(Cat(Carried, inq["client"])) = sent["client"]
    BY <1>1, <1>5, <1>7
  <1> QED
    BY <1>1, <1>2, <1>3, <1>4, <1>5, <1>6, <1>8

\* A step that moves nothing on the way up.
LEMMA UpQuiet ==
  ASSUME UpInv,
         UNCHANGED <<kind, parsed, Up>>, sent'["client"] = sent["client"],
         UNCHANGED Cat(Carried, inq["client"]),
         outq'["remote"] \in Seqs, got'["remote"] \in Seqs,
         step' \in Before => step \in Before,
         short => short',
         Exact' /\ Relaying' /\ Reads("remote")' => Relaying /\ Reads("remote")
  PROVE  UpInv'
  <1>1. UNCHANGED <<Behind, Stream("client"), Base>>
    BY DEF Behind, Stream, Request, Base
  <1>2. Exact' => Exact
    BY DEF Exact, Request
  <1> QED
    BY <1>1, <1>2 DEF UpInv, Before

LEMMA UpInit == Init => UpInv
  <1> SUFFICES ASSUME Init PROVE UpInv
    OBVIOUS
  <1>1. /\ kind \in {"connect", "socks", "http"} /\ step = "first" /\ parsed = 0 /\ buf = <<>>
        /\ sent["client"] = 0 /\ inq["client"] = <<>>
        /\ outq["remote"] = <<>> /\ got["remote"] = <<>>
    BY DEF Init, Sides
  <1>2. TypesOK
    BY ConnInit DEF ConnInv, TypesOK
  <1>3. Up = <<>> /\ Carried = <<>> /\ Cat(Carried, inq["client"]) = <<>> /\ <<>> \in Seqs
    BY <1>1, Words, Joins DEF Up, Carried
  <1>4. Len(<<>>) = 0
    OBVIOUS
  <1>5. Behind = 0
    BY <1>1, <1>3, <1>4 DEF Behind
  <1>6. Stream("client") \in Seqs /\ Len(Stream("client")) \in Nat
    BY <1>1, Streams, LenProperties DEF Sides, Seqs
  <1>7. Request \in Seqs /\ Payload["client"] \in Seqs
        /\ Stream("client") = Cat(Request, Payload["client"])
    BY <1>1, Requests, Payloads DEF Sides, Stream, Cat
  <1>8. Base \in 0..Len(Stream("client"))
    BY <1>7, Indices DEF Base
  <1>9. StandsAt(<<>>, Stream("client"), 0) /\ StandsAt(<<>>, Stream("client"), Base)
    BY <1>4, <1>6, <1>8 DEF StandsAt
  <1> QED
    BY <1>1, <1>3, <1>5, <1>6, <1>9, LeftNothing DEF UpInv, Relaying

\* The first n units of a sequence are n.
LEMMA FirstUnits ==
  ASSUME NEW b \in Seqs, NEW n \in 0..Len(b)
  PROVE  Len(SubSeq(b, 1, n)) = n
  BY Cut DEF Seqs

LEMMA UpReadRequest ==
  ASSUME TypesOK, TypesOK', UpInv, ReadRequest
  PROVE  UpInv'
  <1>1. /\ UNCHANGED <<kind, buf, to, short, sent, outq, got, peer>>
        /\ step' \in {"close", "greet", "dial"}
        /\ step \in {"first", "second"}
    BY DEF ReadRequest
  <1>2. UNCHANGED <<Up, Stream("client"), Base>>
    BY <1>1 DEF Up, Stream, Request, Base
  <1>3. Up = <<>> /\ parsed = Behind /\ buf = <<>> /\ Carried = <<>> /\ Carried' = <<>>
    BY <1>1 DEF UpInv, Before, TypesOK, TypeOK, Carried
  <1>4. CASE UNCHANGED <<parsed, inq>>
    <2>1. UNCHANGED Cat(Carried, inq["client"])
      BY <1>3, <1>4
    <2>2. outq'["remote"] \in Seqs /\ got'["remote"] \in Seqs
      BY <1>1 DEF UpInv
    <2> QED
      BY <1>1, <1>2, <1>4, <2>1, <2>2, UpQuiet DEF Before, Relaying
  <1>5. ASSUME NEW n \in 1..Len(inq["client"]), Take("client", n), parsed' = parsed + n
        PROVE  UpInv'
    <2>0. PICK S : S = Stream("client")
      OBVIOUS
    <2>1. /\ inq'["client"] \in Seqs /\ n \in Nat
          /\ SubSeq(inq["client"], 1, n) \in Seqs
          /\ Cat(SubSeq(inq["client"], 1, n), inq'["client"]) = inq["client"]
      BY <1>5, TakeStep DEF Sides
    <2>2. PICK x \in Seqs : Cat(x, inq'["client"]) = inq["client"] /\ Len(x) = n
      <3>1. inq["client"] \in Seqs
        BY UpFacts
      <3>2. Len(SubSeq(inq["client"], 1, n)) = n
        BY <3>1, FirstUnits
      <3> QED
        BY <2>1, <3>2
    <2>3. Cat(Carried, inq["client"]) = inq["client"] /\ (Cat(Carried, inq["client"]))' = inq'["client"]
      BY <1>3, <2>1, UpFacts, Joins
    <2>4. /\ Behind \in Nat /\ S \in Seqs /\ sent["client"] \in Nat
          /\ Behind + Len(inq["client"]) = sent["client"]
          /\ Base \in 0..Len(S) /\ Len(S) \in Nat
      BY <2>0, <2>3, UpFacts
    <2>5. StandsAt(x, S, Behind) /\ StandsAt(inq'["client"], S, Behind + n)
      <3>1. StandsAt(Cat(x, inq'["client"]), S, Behind)
        BY <2>0, <2>2, <2>3 DEF UpInv
      <3> QED
        BY <2>1, <2>2, <2>4, <3>1, StandsJoin
    <2>6. Behind' = Behind + n
      <3>1. Len(inq["client"]) = n + Len(inq'["client"]) /\ Len(inq'["client"]) \in Nat
        BY <2>1, <2>2, Indices
      <3>2. Behind' = sent["client"] - Len(inq'["client"])
        BY <1>1, <2>3 DEF Behind
      <3> QED
        BY <2>1, <2>4, <3>1, <3>2
    <2>7. StandsAt(<<>>, S, Base) /\ LeftOf(<<>>, S, Behind')
      BY <2>4, LeftNothing DEF StandsAt
    <2>8. parsed' = Behind'
      BY <1>3, <1>5, <2>6
    <2>9. parsed' <= Behind'
      BY <2>1, <2>4, <2>6, <2>8
    <2>10. sent["client"] <= Len(S) /\ outq["remote"] \in Seqs /\ got["remote"] \in Seqs
      BY <2>0 DEF UpInv
    <2>11. ~ Relaying'
      BY <1>1 DEF Relaying
    <2> QED
      BY <1>1, <1>2, <1>3, <2>0, <2>3, <2>5, <2>6, <2>7, <2>8, <2>9, <2>10, <2>11 DEF UpInv
  <1> QED
    BY <1>4, <1>5 DEF ReadRequest

\* Something is handed to the remote host's socket.
LEMMA UpHanded ==
  ASSUME TypesOK, UpInv, NEW data \in Seqs, outq'["remote"] = Cat(outq["remote"], data),
         UNCHANGED got
  PROVE  Up' = Cat(Up, data) /\ outq'["remote"] \in Seqs /\ got'["remote"] \in Seqs
  <1>1. got["remote"] \in Seqs /\ outq["remote"] \in Seqs
    BY DEF UpInv
  <1>2. Cat(Cat(got["remote"], outq["remote"]), data) = Cat(got["remote"], Cat(outq["remote"], data))
    BY <1>1, Assoc
  <1>3. Cat(outq["remote"], data) \in Seqs
    BY <1>1, Joins
  <1> QED
    BY <1>1, <1>2, <1>3 DEF Up

LEMMA UpAnswer ==
  ASSUME TypesOK, TypesOK', UpInv, Answer
  PROVE  UpInv'
  <1>1. UNCHANGED <<kind, running, parsed, buf, to, moved, ready, short, sent, inq, got>>
    BY DEF Answer
  <1>2. UNCHANGED Cat(Carried, inq["client"]) /\ UNCHANGED <<Stream("client"), Base, Behind>>
    BY <1>1 DEF Carried, Stream, Request, Base, Behind
  <1>3. step \in {"greet", "reply", "refuse"} /\ step \in Before
    BY DEF Answer, Before
  <1>4. Up = <<>> /\ parsed = Behind /\ got["remote"] \in Seqs /\ outq["remote"] \in Seqs
    BY <1>3 DEF UpInv
  <1>5. ASSUME NEW s \in Sides, NEW data, NEW next, SendAndGoto(s, data, next),
               s = "client" => data \in Seqs, s = "client" \/ ~Reads("remote"),
               next = "relay" /\ Exact /\ Reads("remote") => Behind = Base,
               next # "select" /\ next # "serve" /\ next # "send"
        PROVE  UpInv'
    <2>1. outq'["remote"] = outq["remote"] /\ step' \in {next, "dead"}
          /\ (Reads("remote")' <=> Reads("remote"))
      BY <1>5, SendStep DEF Sides
    <2>2. UNCHANGED Up
      BY <1>1, <2>1 DEF Up
    <2>3. Exact' <=> Exact
      BY <1>1 DEF Exact, Request
    <2>4. Relaying' => next = "relay"
      BY <1>5, <2>1 DEF Relaying
    <2>5. Exact' /\ Relaying' /\ Reads("remote")' => Base + Len(Up) = Behind
      <3>1. Len(Up) = 0 /\ Behind \in Nat
        BY <1>4, UpFacts
      <3> QED
        BY <1>5, <2>1, <2>3, <2>4, <3>1
    <2> QED
      BY <1>1, <1>2, <1>3, <1>4, <2>1, <2>2, <2>3, <2>5 DEF UpInv
  <1>6. CASE step = "greet" /\ SendAndGoto("client", <<"method">>, "second")
    BY <1>5, <1>6, Words DEF Sides
  <1>7. CASE step = "refuse" /\ SendAndGoto("client", <<"refused">>, "close")
    BY <1>5, <1>7, Words DEF Sides
  <1>8. CASE step = "reply" /\ kind # "http" /\ SendAndGoto("client", <<"ok">>, "relay")
    <2>1. Exact => Behind = Base
      BY <1>4, <1>8 DEF Exact, Base
    <2> QED
      BY <1>5, <1>8, <2>1, Words DEF Sides
  <1>9. ASSUME step = "reply", kind = "http",
               SendAndGoto("remote", SubSeq(Request \o Payload["client"], 1, parsed), "relay")
        PROVE  UpInv'
    <2>1. PICK S : S = Stream("client")
      OBVIOUS
    <2>2. PICK x : x = SubSeq(S, 1, parsed)
      OBVIOUS
    <2>3. SendAndGoto("remote", x, "relay")
      BY <1>9, <2>1, <2>2 DEF Stream
    <2>4. CASE ~Reads("remote")
      BY <1>5, <2>3, <2>4 DEF Sides
    <2>5. CASE Reads("remote")
      <3>1. /\ S \in Seqs /\ Behind \in Nat /\ parsed \in 0..Len(S) /\ Len(S) \in Nat
        <4>1. Behind <= sent["client"] /\ sent["client"] <= Len(S)
          BY <2>1, UpFacts DEF UpInv
        <4> QED
          BY <1>4, <2>1, <4>1, UpFacts
      <3>2. x \in Seqs /\ Len(x) = parsed /\ StandsAt(x, S, 0)
        <4>1. PICK r \in Seqs : x \in Seqs /\ Cat(x, r) = S
          BY <2>2, <3>1, Cuts
        <4>2. StandsAt(S, S, 0)
          BY <3>1 DEF StandsAt
        <4>3. StandsAt(x, S, 0)
          BY <3>1, <4>1, <4>2, StandsJoin
        <4> QED
          BY <2>2, <3>1, <4>1, <4>3, FirstUnits
      <3>3. outq'["remote"] = Cat(outq["remote"], x) /\ step' = "relay"
        BY <2>3, <2>5, SendStep DEF Sides, Cat
      <3>4. Up' = x /\ outq'["remote"] \in Seqs /\ got'["remote"] \in Seqs
        BY <1>1, <1>4, <3>2, <3>3, UpHanded, Joins
      <3>5. LeftOf(x, S, Behind)
        <4>1. LeftOf(Cat(<<>>, x), S, 0 + Len(x))
          <5>1. LeftOf(<<>>, S, 0) /\ <<>> \in Seqs
            BY LeftNothing, Words
          <5> QED
            BY <3>2, <5>1, LeftJoin
        <4>2. Cat(<<>>, x) = x /\ 0 + Len(x) = Behind
          BY <1>4, <3>1, <3>2, Joins
        <4> QED
          BY <4>1, <4>2
      <3>6. Base = 0 /\ Base + Len(x) = Behind
        BY <1>4, <1>9, <3>1, <3>2 DEF Base
      <3> QED
        BY <1>1, <1>2, <2>1, <3>2, <3>3, <3>4, <3>5, <3>6 DEF UpInv, Before
    <2> QED
      BY <2>4, <2>5
  <1> QED
    BY <1>6, <1>7, <1>8, <1>9 DEF Answer, Reply

LEMMA UpServe ==
  ASSUME TypesOK, TypesOK', UpInv, Serve
  PROVE  UpInv'
  <1>1. /\ UNCHANGED <<kind, parsed, short, sent, outq, got, peer>>
        /\ step = "serve" /\ step' \in {"relay", "close", "send"}
    BY DEF Serve, AfterEnd
  <1>2. UNCHANGED Up /\ outq'["remote"] \in Seqs /\ got'["remote"] \in Seqs
    BY <1>1 DEF Up, UpInv
  <1>3. Carried = <<>> /\ inq["client"] \in Seqs /\ Cat(<<>>, inq["client"]) = inq["client"]
    BY <1>1, Words, Joins DEF TypesOK, TypeOK, QueuesOK, Carried, Sides
  <1>4. Cat(Carried', inq'["client"]) = inq["client"]
    <2>1. CASE UNCHANGED <<buf, to, inq>>
      BY <1>3, <2>1 DEF Carried
    <2>2. ASSUME NEW n \in 1..Len(inq[Serving]), Take(Serving, n),
                 buf' = SubSeq(inq[Serving], 1, n),
                 to' = IF Serving = "client" THEN "remote" ELSE "client"
          PROVE  Cat(Carried', inq'["client"]) = inq["client"]
      <3>1. CASE Serving = "remote"
        <4>1. inq'["client"] = inq["client"]
          BY <2>2, <3>1, TakeStep DEF Sides
        <4>2. Carried' = <<>>
          BY <2>2, <3>1 DEF Carried
        <4> QED
          BY <1>3, <4>1, <4>2
      <3>2. CASE Serving = "client"
        <4>1. Cat(SubSeq(inq["client"], 1, n), inq'["client"]) = inq["client"]
          BY <2>2, <3>2, TakeStep DEF Sides
        <4>2. Carried' = SubSeq(inq["client"], 1, n)
          BY <2>2, <3>2 DEF Carried
        <4> QED
          BY <4>1, <4>2
      <3> QED
        BY <3>1, <3>2 DEF Serving
    <2> QED
      BY <2>1, <2>2 DEF Serve
  <1>5. UNCHANGED Cat(Carried, inq["client"])
    BY <1>3, <1>4
  <1>6. Relaying /\ step' \notin Before /\ (Reads("remote")' <=> Reads("remote"))
    BY <1>1 DEF Relaying, Before, Reads
  <1> QED
    BY <1>1, <1>2, <1>5, <1>6, UpQuiet

\* What was in send()'s hands is dropped.
LEMMA UpLost ==
  ASSUME TypesOK, UpInv, UNCHANGED <<kind, parsed, sent, inq, got>>,
         UNCHANGED outq["remote"], Carried' = <<>>, short => short', step' \notin Before,
         ~ (Exact' /\ Relaying' /\ Reads("remote")')
  PROVE  UpInv'
  <1>1. UNCHANGED <<Up, Stream("client"), Base>>
    BY DEF Up, Stream, Request, Base
  <1>2. PICK S : S = Stream("client")
    OBVIOUS
  <1>3. PICK w : w = inq["client"]
    OBVIOUS
  <1>4. /\ Carried \in Seqs /\ w \in Seqs /\ S \in Seqs /\ Behind \in Nat
        /\ Behind + Len(Cat(Carried, w)) = sent["client"] /\ sent["client"] \in Nat
        /\ parsed \in Nat /\ got["remote"] \in Seqs /\ outq["remote"] \in Seqs
    BY <1>2, <1>3, UpFacts
  <1>5. /\ Len(Carried) \in Nat /\ Len(w) \in Nat
        /\ Len(Cat(Carried, w)) = Len(Carried) + Len(w)
    BY <1>4, Indices
  <1>6. Cat(Carried', inq'["client"]) = w
    BY <1>3, <1>4, Joins
  <1>7. Behind' = Behind + Len(Carried)
    <2>1. Behind' = sent["client"] - Len(w)
      BY <1>6 DEF Behind
    <2> QED
      BY <1>4, <1>5, <2>1
  <1>8. StandsAt(w, S, Behind')
    <2>1. StandsAt(Cat(Carried, w), S, Behind)
      BY <1>2, <1>3 DEF UpInv
    <2> QED
      BY <1>4, <1>7, <2>1, StandsJoin
  <1>9. LeftOf(Up, S, Behind')
    <2>1. LeftOf(Up, S, Behind)
      BY <1>2 DEF UpInv
    <2>2. Behind' \in Nat /\ Behind <= Behind'
      BY <1>4, <1>5, <1>7
    <2> QED
      BY <1>4, <2>1, <2>2, LeftWiden
  <1>10. Exact' => Exact
    BY DEF Exact, Request
  <1>11. parsed <= Behind'
    <2>1. parsed <= Behind
      BY DEF UpInv
    <2> QED
      BY <1>4, <1>5, <1>7, <2>1
  <1> QED
    BY <1>1, <1>2, <1>4, <1>6, <1>8, <1>9, <1>10, <1>11 DEF UpInv

\* A part of what is in send()'s hands is handed on.
LEMMA UpPassed ==
  ASSUME TypesOK, UpInv, UNCHANGED <<kind, parsed, sent, inq, got, short>>,
         NEW x \in Seqs, Carried' \in Seqs, Cat(x, Carried') = Carried,
         outq'["remote"] = Cat(outq["remote"], x),
         Relaying, step' \notin Before, Reads("remote")
  PROVE  UpInv'
  <1>1. UNCHANGED <<Stream("client"), Base>> /\ (Exact' <=> Exact)
    BY DEF Stream, Request, Base, Exact
  <1>2. PICK S : S = Stream("client")
    OBVIOUS
  <1>3. PICK w, r : w = inq["client"] /\ r = Carried'
    OBVIOUS
  <1>4. /\ r \in Seqs /\ w \in Seqs /\ S \in Seqs /\ Behind \in Nat /\ Up \in Seqs
        /\ Behind + Len(Cat(Carried, w)) = sent["client"] /\ sent["client"] \in Nat
        /\ parsed \in Nat /\ Base \in Nat
    BY <1>2, <1>3, UpFacts
  <1>5. Cat(Carried, w) = Cat(x, Cat(r, w)) /\ Cat(r, w) \in Seqs
    <2>1. Cat(Cat(x, r), w) = Cat(x, Cat(r, w))
      BY <1>4, Assoc
    <2> QED
      BY <1>3, <1>4, <2>1, Joins
  <1>6. /\ Len(x) \in Nat /\ Len(Cat(r, w)) \in Nat
        /\ Len(Cat(x, Cat(r, w))) = Len(x) + Len(Cat(r, w))
    BY <1>5, Indices
  <1>7. Behind' = Behind + Len(x) /\ (Cat(Carried, inq["client"]))' = Cat(r, w)
    <2>1. Behind' = sent["client"] - Len(Cat(r, w))
      BY <1>3 DEF Behind
    <2> QED
      BY <1>3, <1>4, <1>5, <1>6, <2>1
  <1>8. StandsAt(x, S, Behind) /\ StandsAt(Cat(r, w), S, Behind')
    <2>1. StandsAt(Cat(x, Cat(r, w)), S, Behind)
      BY <1>2, <1>3, <1>5 DEF UpInv
    <2> QED
      BY <1>4, <1>5, <1>7, <2>1, StandsJoin
  <1>9. Up' = Cat(Up, x) /\ outq'["remote"] \in Seqs /\ got'["remote"] \in Seqs
    BY UpHanded
  <1>10. LeftOf(Up', S, Behind')
    BY <1>2, <1>4, <1>7, <1>8, <1>9, LeftJoin DEF UpInv
  <1>11. /\ Len(Up) \in Nat /\ Len(Up') = Len(Up) + Len(x)
    BY <1>4, <1>9, Indices
  <1>12. Exact => Base + Len(Up) = Behind /\ StandsAt(Up, S, Base)
    BY <1>2 DEF UpInv
  <1>13. Exact => Base + Len(Up') = Behind' /\ StandsAt(Up', S, Base)
    <2>1. Exact => StandsAt(Cat(Up, x), S, Base)
      BY <1>4, <1>8, <1>12, StandsJoin
    <2> QED
      BY <1>4, <1>6, <1>7, <1>9, <1>11, <1>12, <2>1
  <1>14. parsed <= Behind'
    <2>1. parsed <= Behind
      BY DEF UpInv
    <2> QED
      BY <1>4, <1>6, <1>7, <2>1
  <1>15. sent["client"] <= Len(S)
    BY <1>2 DEF UpInv
  <1> QED
    BY <1>1, <1>2, <1>7, <1>8, <1>9, <1>10, <1>13, <1>14, <1>15 DEF UpInv

LEMMA UpSend ==
  ASSUME TypesOK, TypesOK', UpInv, Send
  PROVE  UpInv'
  <1>1. /\ UNCHANGED <<kind, running, parsed, ready, sent, inq, got>>
        /\ step = "send" /\ step' \in {"serve", "send", "close", "dead"}
        /\ to' = IF step' = "send" THEN to ELSE "client"
        /\ step' # "send" => buf' = <<>>
        /\ to \in Sides /\ Relaying /\ step' \notin Before /\ buf \in Seqs
    BY DEF Send, SendAndGoto, BrokenPipe, ReturnEarly, TypesOK, TypeOK, QueuesOK, Relaying, Before
  <1>2. short => short'
    BY DEF Send, ReturnEarly
  <1>3. CASE to = "client"
    <2>1. Carried = <<>> /\ Carried' = <<>>
      BY <1>1, <1>3 DEF Carried
    <2>2. outq'["remote"] = outq["remote"] /\ (Reads("remote")' <=> Reads("remote"))
      <3>1. CASE SendAndGoto(to, <<>>, "serve")
        BY <1>1, <1>3, <3>1, SendStep, Words DEF Sides
      <3>2. CASE /\ outq' \in {outq} \cup { [outq EXCEPT ![to] = @ \o d] : d \in Seqs }
                 /\ peer' \in {peer, [peer EXCEPT ![to] = "pipe"]}
        BY <1>3, <3>2 DEF TypesOK, QueuesOK, TypeOK, Sides, Reads
      <3>3. \A n \in 1..Len(buf) : SubSeq(buf, 1, n) \in Seqs
        BY <1>1, Cuts
      <3> QED
        BY <3>1, <3>2, <3>3 DEF Send
    <2>3. UNCHANGED Up /\ outq'["remote"] \in Seqs /\ got'["remote"] \in Seqs
      BY <1>1, <2>2 DEF Up, UpInv
    <2>4. UNCHANGED Cat(Carried, inq["client"]) /\ sent'["client"] = sent["client"]
      BY <1>1, <2>1
    <2> QED
      BY <1>1, <1>2, <2>2, <2>3, <2>4, UpQuiet
  <1>4. ASSUME to = "remote", UNCHANGED outq["remote"], buf' = <<>>,
               \/ ~Reads("remote")' \/ short' \/ step' \notin {"serve", "send"}
        PROVE  UpInv'
    <2>1. Carried' = <<>>
      BY <1>4 DEF Carried
    <2>2. ~ (Exact' /\ Relaying' /\ Reads("remote")')
      BY <1>1, <1>4 DEF Exact, Relaying
    <2> QED
      BY <1>1, <1>2, <1>4, <2>1, <2>2, UpLost
  <1>5. CASE to = "remote"
    <2>1. CASE peer[to] \in {"pipe", "closed", "poked"} /\ SendAndGoto(to, <<>>, "serve")
               /\ buf' = <<>>
      <3>1. ~Reads("remote")
        BY <1>5, <2>1 DEF Reads
      <3>2. outq' = outq /\ ~Reads("remote")'
        BY <1>5, <2>1, <3>1, SendStep DEF Sides
      <3> QED
        BY <1>4, <1>5, <2>1, <3>2
    <2>2. CASE ReturnEarly /\ peer' = [peer EXCEPT ![to] = "pipe"] /\ UNCHANGED outq
      <3>1. ~Reads("remote")'
        BY <1>5, <2>2 DEF Reads, TypesOK, TypeOK, Sides
      <3> QED
        BY <1>4, <1>5, <2>2, <3>1 DEF ReturnEarly
    <2>3. ASSUME NEW n \in 1..Len(buf), Reads(to),
                 outq' = [outq EXCEPT ![to] = @ \o SubSeq(buf, 1, n)],
                 buf' = SubSeq(buf, n + 1, Len(buf)), UNCHANGED short,
                 step' = IF n = Len(buf) THEN "serve" ELSE "send"
          PROVE  UpInv'
      <3>1. PICK x : x = SubSeq(buf, 1, n)
        OBVIOUS
      <3>2. x \in Seqs /\ buf' \in Seqs /\ Cat(x, buf') = buf
        BY <1>1, <2>3, <3>1, Cuts
      <3>3. outq'["remote"] = Cat(outq["remote"], x)
        BY <1>5, <2>3, <3>1 DEF TypesOK, QueuesOK, Sides, Cat
      <3>4. Carried = buf /\ Carried' = buf'
        BY <1>1, <1>5 DEF Carried
      <3> QED
        BY <1>1, <1>5, <2>3, <3>2, <3>3, <3>4, UpPassed
    <2>4. CASE ReturnEarly /\ UNCHANGED <<outq, peer>>
      BY <1>4, <1>5, <2>4 DEF ReturnEarly
    <2> QED
      BY <2>1, <2>2, <2>3, <2>4 DEF Send
  <1> QED
    BY <1>1, <1>3, <1>5 DEF Sides

LEMMA UpPeerSend ==
  ASSUME TypesOK, TypesOK', UpInv, NEW s \in Sides, PeerSend(s)
  PROVE  UpInv'
  <1>1. UNCHANGED <<kind, step, parsed, buf, to, short, outq, got, peer>>
    BY DEF PeerSend, handlerVars
  <1>2. /\ UNCHANGED <<Up, Carried, Base, Stream("client")>>
        /\ (Exact' <=> Exact) /\ (Relaying' <=> Relaying)
        /\ (Reads("remote")' <=> Reads("remote"))
        /\ outq'["remote"] \in Seqs /\ got'["remote"] \in Seqs
    BY <1>1 DEF Up, Carried, Base, Stream, Request, Exact, Relaying, Reads, UpInv
  <1>3. CASE s = "remote"
    <2>1. inq'["client"] = inq["client"] /\ sent'["client"] = sent["client"]
      BY <1>1, <1>3 DEF PeerSend, TypesOK, TypeOK, QueuesOK, Sides
    <2> QED
      BY <1>1, <1>2, <2>1, UpQuiet
  <1>4. CASE s = "client"
    <2>1. PICK S : S = Stream("client")
      OBVIOUS
    <2>2. PICK c, w : c = Cat(Carried, inq["client"]) /\ w = inq["client"]
      OBVIOUS
    <2>3. /\ c \in Seqs /\ w \in Seqs /\ Carried \in Seqs /\ S \in Seqs /\ Len(S) \in Nat
          /\ Behind \in Nat /\ sent["client"] \in Nat /\ Behind + Len(c) = sent["client"]
          /\ sent["client"] < Len(S)
      BY <1>4, <2>1, <2>2, UpFacts DEF PeerSend
    <2>4. PICK e : e = S[sent["client"] + 1]
      OBVIOUS
    <2>5. e \in Units
      BY <2>3, <2>4, ElementOfSeq DEF Seqs
    <2>6. sent'["client"] = sent["client"] + 1 /\ inq'["client"] = Append(w, e)
      BY <1>1, <1>4, <2>1, <2>2, <2>4 DEF PeerSend, TypesOK, TypeOK, QueuesOK, Sides
    <2>7. PICK one \in Seqs : one = <<e>>
      BY <2>3, <2>5, Appends
    <2>8. (Cat(Carried, inq["client"]))' = Cat(c, one)
      <3>1. inq'["client"] = Cat(w, one)
        BY <2>3, <2>5, <2>6, <2>7, Appends
      <3>2. Cat(Cat(Carried, w), one) = Cat(Carried, Cat(w, one))
        BY <2>3, Assoc
      <3> QED
        BY <1>2, <2>2, <3>1, <3>2
    <2>9. Len(one) = 1 /\ one[1] = e
      BY <2>7
    <2>10. Behind' = Behind
      <3>1. Len(Cat(c, one)) = Len(c) + 1 /\ Len(c) \in Nat
        <4>1. Len(Cat(c, one)) = Len(c) + Len(one) /\ Len(c) \in Nat
          BY <2>3, Indices
        <4> QED
          BY <2>9, <4>1
      <3>2. Behind' = (sent["client"] + 1) - Len(Cat(c, one))
        <4>1. Behind' = sent'["client"] - Len((Cat(Carried, inq["client"]))')
          BY DEF Behind
        <4> QED
          BY <2>6, <2>8, <4>1
      <3> QED
        BY <2>3, <3>1, <3>2
    <2>11. StandsAt(Cat(c, one), S, Behind)
      <3>1. StandsAt(c, S, Behind)
        BY <2>1, <2>2 DEF UpInv
      <3>2. StandsAt(one, S, Behind + Len(c))
        BY <2>3, <2>4, <2>9 DEF StandsAt
      <3> QED
        BY <2>3, <3>1, <3>2, StandsJoin
    <2>12. sent'["client"] <= Len(S)
      BY <2>3, <2>6
    <2> QED
      BY <1>1, <1>2, <2>1, <2>8, <2>10, <2>11, <2>12 DEF UpInv, Before
  <1> QED
    BY <1>3, <1>4 DEF Sides

LEMMA UpPeerOther ==
  ASSUME TypesOK, TypesOK', UpInv, NEW s \in Sides, PeerReceive(s) \/ PeerEnds(s)
  PROVE  UpInv'
  <1>1. UNCHANGED <<kind, step, parsed, buf, to, short, sent, inq>>
    BY DEF PeerReceive, PeerEnds, handlerVars
  <1>2. UNCHANGED Cat(Carried, inq["client"]) /\ (Relaying' <=> Relaying)
    BY <1>1 DEF Carried, Relaying
  <1>3. Reads("remote")' => Reads("remote")
    <2>1. CASE PeerReceive(s)
      BY <2>1 DEF PeerReceive, Reads
    <2>2. CASE PeerEnds(s)
      <3>1. PICK e : /\ peer' = [peer EXCEPT ![s] = e]
                     /\ e \in {"reset", "pipe", "closed"} \/ peer[s] = "open"
        BY <2>2 DEF PeerEnds
      <3> QED
        BY <3>1 DEF Reads, TypesOK, TypeOK, Sides
    <2> QED
      BY <2>1, <2>2
  <1>4. UNCHANGED Up /\ outq'["remote"] \in Seqs /\ got'["remote"] \in Seqs
    <2>1. CASE PeerEnds(s) \/ s = "client"
      BY <2>1 DEF PeerReceive, PeerEnds, Up, TypesOK, QueuesOK, Sides, UpInv
    <2>2. CASE PeerReceive("remote")
      <3>1. /\ got["remote"] \in Seqs /\ outq["remote"] \in Seqs /\ outq["remote"] # <<>>
            /\ got'["remote"] = Append(got["remote"], Head(outq["remote"]))
            /\ outq'["remote"] = Tail(outq["remote"])
        BY <2>2 DEF PeerReceive, TypesOK, QueuesOK, Sides, UpInv
      <3> QED
        BY <3>1, Received DEF Up
    <2> QED
      BY <2>1, <2>2 DEF Sides
  <1> QED
    BY <1>1, <1>2, <1>3, <1>4, UpQuiet

LEMMA UpControl ==
  ASSUME TypesOK, TypesOK', UpInv,
         Dial \/ Close \/ Relay \/ Select \/ Stop \/ UNCHANGED vars
  PROVE  UpInv'
  <1>1. UNCHANGED <<kind, parsed, buf, to, short, sent, inq, outq, got>>
    BY DEF Dial, Close, Relay, Select, Stop, handlerVars, sockets, vars
  <1>2. UNCHANGED <<Up, Cat(Carried, inq["client"])>>
        /\ outq'["remote"] \in Seqs /\ got'["remote"] \in Seqs
    BY <1>1 DEF Up, Carried, UpInv
  <1>3. step' \in Before => step \in Before
    BY DEF Dial, AfterFailedDial, Close, Relay, Select, Idle, Stop, handlerVars, sockets, vars,
           Before
  <1>4. Relaying' /\ Reads("remote")' => Relaying /\ Reads("remote")
    BY DEF Dial, AfterFailedDial, Close, Relay, Select, Idle, Stop, handlerVars, sockets, vars,
           Relaying, Reads
  <1> QED
    BY <1>1, <1>2, <1>3, <1>4, UpQuiet

LEMMA UpNext == ConnInv /\ UpInv /\ [Next]_vars => UpInv'
  <1> SUFFICES ASSUME ConnInv, UpInv, [Next]_vars PROVE UpInv'
    OBVIOUS
  <1>1. TypesOK /\ TypesOK'
    BY TypesStep DEF ConnInv, TypesOK
  <1> QED
    BY <1>1, UpReadRequest, UpAnswer, UpControl, UpServe, UpSend, UpPeerSend, UpPeerOther
    DEF Next, HandlerStep

LEMMA UpInvariant == Spec => [](ConnInv /\ UpInv)
  BY ConnInvariant, UpInit, UpNext, PTL DEF Spec

\* What stands right at the beginning is a prefix.
LEMMA StandsFirst ==
  ASSUME NEW s \in Seqs, NEW t \in Seqs, StandsAt(s, t, 0)
  PROVE  IsPrefix(s, t)
  <1>1. Len(s) \in Nat /\ Len(t) \in Nat /\ Len(s) <= Len(t)
        /\ \A i \in 1..Len(s) : s[i] = t[i]
    <2>1. Len(s) \in Nat /\ Len(t) \in Nat
      BY LenProperties DEF Seqs
    <2>2. 0 + Len(s) <= Len(t) /\ \A i \in 1..Len(s) : s[i] = t[0 + i]
      BY DEF StandsAt
    <2> QED
      BY <2>1, <2>2
  <1>2. PICK n, x : n = Len(s) /\ x = SubSeq(t, 1, n)
    OBVIOUS
  <1>3. n \in 0..Len(t)
    BY <1>1, <1>2
  <1>4. PICK r \in Seqs : x \in Seqs /\ Cat(x, r) = t
    BY <1>2, <1>3, Cuts
  <1>5. Len(x) = n /\ \A i \in 1..Len(x) : t[i] = x[i]
    BY <1>2, <1>3, <1>4, FirstUnits, Indices
  <1>6. s = x
    <2>1. PICK S : s \in Seq(S) /\ x \in Seq(S)
      BY <1>4 DEF Seqs
    <2>2. Len(x) = Len(s) /\ \A i \in 1..Len(s) : s[i] = x[i]
      BY <1>1, <1>2, <1>5
    <2> QED
      BY <2>1, <2>2, SeqEqual
  <1> QED
    BY <1>1, <1>2, <1>6 DEF IsPrefix

\* The remote host reads the client's units in order, each at most once, and a prefix
\* of what it is owed unless the recv() calls did not end exactly with the request or
\* a send() was cut short.
THEOREM ConnectionUpstreamIntact == Spec => []UpstreamIntact
  <1>1. ConnInv /\ UpInv => UpstreamIntact
    <2> SUFFICES ASSUME ConnInv, UpInv PROVE UpstreamIntact
      OBVIOUS
    <2>1. TypesOK
      BY DEF ConnInv, TypesOK
    <2>2. PICK g, q, S : /\ g = got["remote"] /\ q = outq["remote"]
                         /\ S = Stream("client")
      OBVIOUS
    <2>3. /\ g \in Seqs /\ q \in Seqs /\ Up = Cat(g, q)
          /\ S \in Seqs /\ Len(S) \in Nat /\ Base \in Nat
          /\ Behind \in Nat /\ sent["client"] \in Nat /\ Behind <= sent["client"]
      BY <2>1, <2>2, UpFacts DEF Up
    <2>4. LeftOf(g, S, sent["client"])
      <3>1. LeftOf(Cat(g, q), S, Behind)
        BY <2>2, <2>3 DEF UpInv
      <3>2. LeftOf(g, S, Behind)
        BY <2>3, <3>1, LeftFirst
      <3> QED
        BY <2>3, <3>2, LeftWiden
    <2>5. ASSUME Exact PROVE IsPrefix(g, Upstream)
      <3>1. StandsAt(g, S, Base)
        <4>1. StandsAt(Cat(g, q), S, Base)
          BY <2>2, <2>3, <2>5 DEF UpInv
        <4> QED
          BY <2>3, <4>1, StandsJoin
      <3>2. CASE kind = "http"
        BY <2>2, <2>3, <3>1, <3>2, StandsFirst DEF Base, Upstream
      <3>3. CASE kind # "http"
        <4>1. PICK R, P : R = Request /\ P = Payload["client"]
          OBVIOUS
        <4>2. R \in Seqs /\ P \in Seqs /\ S = Cat(R, P)
          BY <2>1, <2>2, <4>1, Requests, Payloads DEF Sides, Stream, Cat, TypesOK, TypeOK
        <4>3. /\ Len(R) \in Nat /\ Len(P) \in Nat /\ Len(S) = Len(R) + Len(P)
              /\ \A i \in 1..Len(P) : S[Len(R) + i] = P[i]
          BY <4>2, Indices
        <4>4. Len(R) + Len(g) <= Len(S) /\ \A i \in 1..Len(g) : g[i] = S[Len(R) + i]
          BY <3>1, <3>3, <4>1 DEF StandsAt, Base
        <4>5. Len(g) \in Nat
          BY <2>3, LenProperties DEF Seqs
        <4>6. Len(g) <= Len(P)
          BY <4>3, <4>4, <4>5
        <4>7. \A i \in 1..Len(g) : i \in 1..Len(P) /\ 0 + i = i
          BY <4>3, <4>5, <4>6
        <4>8. StandsAt(g, P, 0)
          BY <4>3, <4>4, <4>5, <4>6, <4>7 DEF StandsAt
        <4>9. IsPrefix(g, P)
          BY <2>3, <4>2, <4>8, StandsFirst
        <4> QED
          BY <3>3, <4>1, <4>9 DEF Upstream
      <3> QED
        BY <3>2, <3>3
    <2> QED
      BY <2>2, <2>4, <2>5 DEF UpstreamIntact, Exact
  <1> QED
    BY <1>1, UpInvariant, PTL

------------------------------------------------------------------------
(* The way to the end of a relay. *)

One(s) == IF s \in ready THEN 1 ELSE 0

Sending == IF step = "send" THEN 1 ELSE 0

\* What a relay still does once running_ is cleared: at most one select(), and a
\* recv() and a send() for each side it reports.
AfterStop ==
  CASE step = "select" -> 8
    [] step \in {"serve", "send"} -> 3 + 2 * (One("client") + One("remote")) + Sending
    [] step = "relay" -> 2
    [] step = "close" -> 1
    [] OTHER -> 0

\* What it does until it next reads from a remote host that has ended, which
\* select() reports whenever it is asked.
UntilRemote ==
  CASE step \in {"serve", "send"} ->
         (IF "remote" \in ready THEN 3 ELSE 9) + 2 * One("client") + Sending
    [] step = "relay" -> 8
    [] step = "select" -> 7
    [] step = "close" -> 1
    [] OTHER -> 0

\* send() goes on with what is left.
SendsOn == step = "send" /\ UNCHANGED <<step, ready>> /\ Len(buf') < Len(buf)

\* Whatever the peers do after stop(), nobody takes it back, and each step of the
\* handler brings the relay nearer to its end (proxy_server.cpp:218-244).
StopAdvances ==
  [][Relaying /\ ~running =>
       ~running' /\ (AfterStop' < AfterStop \/ SendsOn \/ UNCHANGED handlerVars)]_vars

\* Once the remote host has ended its side nothing more comes from it, and each step
\* of the handler reads some of what is there or brings the next such read, which
\* ends the relay if nothing is, nearer (lines 221-244).
RemoteEndAdvances ==
  [][Relaying /\ peer["remote"] # "open" =>
       /\ peer'["remote"] # "open"
       /\ \/ Len(inq'["remote"]) < Len(inq["remote"])
          \/ /\ Len(inq'["remote"]) = Len(inq["remote"])
             /\ UntilRemote' < UntilRemote \/ SendsOn \/ UNCHANGED handlerVars]_vars

\* A part of a queue is shorter than the queue.
LEMMA RestIsShorter ==
  ASSUME NEW q \in Seqs, NEW n \in 1..Len(q)
  PROVE  /\ Len(q) \in Nat /\ Len(SubSeq(q, n + 1, Len(q))) \in Nat
         /\ Len(SubSeq(q, n + 1, Len(q))) < Len(q)
BY DEF Seqs

\* What a step of send() comes to: it is over, or goes on with less.
LEMMA SendOutcome ==
  ConnInv /\ Send => SendsOn \/ (step' \in {"serve", "close", "dead"} /\ UNCHANGED ready)
<1> SUFFICES ASSUME ConnInv, Send
             PROVE  SendsOn \/ (step' \in {"serve", "close", "dead"} /\ UNCHANGED ready)
  OBVIOUS
<1>1. buf \in Seqs /\ UNCHANGED ready /\ step = "send"
  BY DEF ConnInv, QueuesOK, Send
<1>2. ASSUME NEW n \in 1..Len(buf), buf' = SubSeq(buf, n + 1, Len(buf)),
             step' = IF n = Len(buf) THEN "serve" ELSE "send"
      PROVE  SendsOn \/ step' = "serve"
  BY <1>1, <1>2, RestIsShorter DEF SendsOn
<1>3. CASE SendAndGoto(to, <<>>, "serve")
  BY <1>1, <1>3 DEF SendAndGoto, BrokenPipe
<1>4. CASE ReturnEarly
  BY <1>1, <1>4 DEF ReturnEarly
<1>5. \/ SendAndGoto(to, <<>>, "serve") \/ ReturnEarly
      \/ \E n \in 1..Len(buf) : /\ buf' = SubSeq(buf, n + 1, Len(buf))
                               /\ step' = IF n = Len(buf) THEN "serve" ELSE "send"
  BY DEF Send
<1> QED
  BY <1>1, <1>2, <1>3, <1>4, <1>5

\* Within a relay both measures fall, the second one until the remote host is read.
LEMMA RelayAdvances ==
  ASSUME ConnInv, Relaying, HandlerStep
  PROVE  /\ ~running => AfterStop' < AfterStop \/ SendsOn
         /\ peer["remote"] # "open" =>
              \/ Len(inq'["remote"]) < Len(inq["remote"])
              \/ inq'["remote"] = inq["remote"] /\ (UntilRemote' < UntilRemote \/ SendsOn)
<1> USE DEF AfterStop, UntilRemote, One, Sending
<1>1. CASE Relay
  BY <1>1 DEF Relay, sockets
<1>2. CASE Select
  <2>1. peer["remote"] \notin {"none", "open"} => Readable("remote")
    BY DEF Readable
  <2>2. peer["remote"] # "none"
    BY DEF ConnInv, TypeOK, Relaying
  <2>3. UNCHANGED inq
    BY <1>2 DEF Select, sockets
  <2>4. /\ step = "select" /\ step' \in {"close", "serve"}
        /\ step' = "serve" /\ Readable("remote") => "remote" \in ready'
    BY <1>2 DEF Select, Idle, Sides
  <2> QED BY <2>1, <2>2, <2>3, <2>4
<1>3. CASE Serve
  <2>1. CASE ready = {}
    BY <1>3, <2>1 DEF Serve
  <2>2. CASE ready # {}
    <3>1. PICK s : s = Serving
      OBVIOUS
    <3>2. s \in ready /\ s \in {"client", "remote"} /\ ("client" \in ready => s = "client")
      BY <2>2, <3>1 DEF Serving, ConnInv, TypeOK, Sides
    <3>3. step = "serve" /\ ready' = ready \ {s}
      BY <1>3, <2>2, <3>1 DEF Serve
    <3>4. inq["client"] \in Seqs /\ inq["remote"] \in Seqs /\ DOMAIN inq = {"client", "remote"}
      BY DEF ConnInv, QueuesOK, Sides
    <3>5. CASE step' = "close" /\ UNCHANGED inq
      BY <3>2, <3>3, <3>5
    <3>6. ASSUME NEW n \in 1..Len(inq[s]), Take(s, n), step' = "send"
          PROVE  /\ AfterStop' < AfterStop
                 /\ s = "remote" => Len(inq'["remote"]) < Len(inq["remote"])
                 /\ s = "client" => UNCHANGED inq["remote"] /\ UntilRemote' < UntilRemote
      <4>1. s = "remote" => Len(inq'["remote"]) < Len(inq["remote"])
        BY <3>2, <3>4, <3>6, RestIsShorter DEF Take
      <4>2. s = "client" => inq'["remote"] = inq["remote"]
        BY <3>4, <3>6 DEF Take
      <4> QED BY <3>2, <3>3, <3>6, <4>1, <4>2
    <3> QED BY <1>3, <2>2, <3>1, <3>2, <3>5, <3>6 DEF Serve, AfterEnd
  <2> QED BY <2>1, <2>2
<1>4. CASE Send
  <2>1. step = "send" /\ UNCHANGED inq
    BY <1>4 DEF Send
  <2>2. SendsOn \/ (step' \in {"serve", "close", "dead"} /\ UNCHANGED ready)
    BY <1>4, SendOutcome
  <2>3. CASE SendsOn
    BY <2>1, <2>3
  <2>4. CASE step' \in {"serve", "close", "dead"} /\ UNCHANGED ready
    BY <2>1, <2>4
  <2> QED BY <2>2, <2>3, <2>4
<1>5. Relay \/ Select \/ Serve \/ Send
  BY DEF HandlerStep, Relaying, ReadRequest, Dial, Answer, Close
<1> QED BY <1>1, <1>2, <1>3, <1>4, <1>5

\* After stop() a relay comes nearer to its end with each step of its handler.
THEOREM ConnectionStopAdvances == Spec => StopAdvances
  <1>1. ASSUME ConnInv, [Next]_vars, Relaying, ~running
        PROVE  ~running' /\ (AfterStop' < AfterStop \/ SendsOn \/ UNCHANGED handlerVars)
    <2>1. CASE HandlerStep
      <3>1. UNCHANGED running
        BY <2>1 DEF HandlerStep, ReadRequest, Dial, Answer, Close, Relay, Select, Serve, Send
      <3> QED BY <1>1, <2>1, <3>1, RelayAdvances
    <2>2. ~HandlerStep => UNCHANGED <<running, handlerVars>>
      BY <1>1 DEF Next, Stop, PeerSend, PeerReceive, PeerEnds, vars, handlerVars
    <2> QED BY <1>1, <2>1, <2>2
  <1> QED
    BY <1>1, ConnInvariant, PTL DEF Spec, StopAdvances

\* Once the remote host has ended, so does a relay.
THEOREM ConnectionRemoteEndAdvances == Spec => RemoteEndAdvances
  <1>1. ASSUME ConnInv, [Next]_vars, Relaying, peer["remote"] # "open"
        PROVE  /\ peer'["remote"] # "open"
               /\ \/ Len(inq'["remote"]) < Len(inq["remote"])
                  \/ /\ Len(inq'["remote"]) = Len(inq["remote"])
                     /\ UntilRemote' < UntilRemote \/ SendsOn \/ UNCHANGED handlerVars
    <2>1. CASE HandlerStep
      <3>1. peer'["remote"] # "open"
        BY <1>1, <2>1 DEF HandlerStep, ReadRequest, Dial, Answer, Close, Relay, Select, Serve,
                          Send, sockets, Relaying, SendAndGoto, BrokenPipe, ReturnEarly, ConnInv, TypeOK, Sides
      <3> QED BY <1>1, <2>1, <3>1, RelayAdvances
    <2>2. CASE Stop \/ UNCHANGED vars
      BY <1>1, <2>2 DEF Stop, sockets, handlerVars, vars
    <2>3. ASSUME NEW s \in Sides, PeerSend(s) \/ PeerReceive(s) \/ PeerEnds(s)
          PROVE  peer'["remote"] # "open" /\ UNCHANGED <<inq["remote"], handlerVars>>
      <3>1. "remote" \in DOMAIN peer /\ "remote" \in DOMAIN inq
        BY <1>1 DEF ConnInv, TypeOK, QueuesOK, Sides
      <3>2. CASE PeerSend(s)
        BY <1>1, <3>1, <3>2 DEF PeerSend, Sides
      <3>3. CASE PeerReceive(s)
        BY <1>1, <3>3 DEF PeerReceive
      <3>4. CASE PeerEnds(s)
        BY <1>1, <3>1, <3>4 DEF PeerEnds, Sides
      <3> QED BY <2>3, <3>2, <3>3, <3>4
    <2> QED BY <1>1, <2>1, <2>2, <2>3 DEF Next
  <1> QED
    BY <1>1, ConnInvariant, PTL DEF Spec, RemoteEndAdvances
======================================================================
