---------------------- MODULE MainProgramProofs ----------------------
(***************************************************************************)
(* Theorems about MainProgram: its types, that a signal never ends a        *)
(* program that holds a session, what its exit status says, and what        *)
(* configuration reaches the controller.                                    *)
(***************************************************************************)
EXTENDS MainProgram, Loops

\* Where main is says what the controller may be doing: outside start() and
\* stop() it is stopped or running, and handlers are in place from Install on.
HeldWhere ==
  /\ serving => session
  /\ phase = "stopped" => ~session
  /\ pc \in {"parse", "config", "command", "start", "end"} => phase = "stopped"
  /\ pc \in {"parse", "config", "command"} => ~handled
  /\ pc \in {"start", "starting", "wait", "stopping"} => handled
  /\ pc = "stopping" => asked

MainInv == TypeOK /\ HeldWhere /\ ExitTellsTruth

LEMMA PortFits == \A n \in Int : Port(n) \in 0..PortLimit - 1
<1>1. PortLimit \in Nat \ {0}
  BY SMT DEF PortLimit
<1>2. \A n \in Int, d \in Nat \ {0} : n % d \in 0..d - 1
  BY SMT
<1> QED BY <1>1, <1>2, Zenon DEF Port

LEMMA OptionDomains == DOMAIN BeforeArgs = Option /\ \A data : DOMAIN Merge(data) = Option
BY DEF BeforeArgs, Merge, Default, Option, ValueOption

LEMMA MainInit == Init => MainInv
<1> SUFFICES ASSUME Init PROVE MainInv
  OBVIOUS
<1>1. OptionsOK
  BY OptionDomains, SMT DEF Init, OptionsOK
<1>2. ControlOK
  BY SMT DEF Init, ControlOK, Proxy!Init
<1>3. SwitchesOK
  BY Zenon DEF Init, SwitchesOK, Proxy!Init
<1>4. HeldWhere /\ ExitTellsTruth
  BY SMT DEF Init, Proxy!Init, HeldWhere, ExitTellsTruth
<1> QED BY <1>1, <1>2, <1>3, <1>4 DEF MainInv, TypeOK

\* Only four actions touch flags, opts and config.
LEMMA OptionsKept == OptionsOK /\ [Next]_vars => OptionsOK'
<1> SUFFICES ASSUME OptionsOK, [Next]_vars PROVE OptionsOK'
  OBVIOUS
<1>1. CASE ParseFlag
  BY <1>1, SMT DEF ParseFlag, OptionsOK
<1>2. CASE ParseValue
  <2>1. opts' = opts \/ \E o \in Option : opts' = [opts EXCEPT ![o] = args[2]]
    BY <1>2, Zenon DEF ParseValue
  <2>2. DOMAIN opts' = Option
    BY <2>1, SMT DEF OptionsOK
  <2>3. flags' = flags /\ config' = config
    BY <1>2, Zenon DEF ParseValue
  <2> QED BY <2>2, <2>3, SMT DEF OptionsOK
<1>3. CASE ReadFile
  <2>1. opts' = opts \/ opts' = Merge(ParseFile)
    BY <1>3, Zenon DEF ReadFile
  <2>2. DOMAIN opts' = Option
    BY <2>1, OptionDomains, Zenon DEF OptionsOK
  <2>3. flags' = flags /\ config' = config
    BY <1>3, Zenon DEF ReadFile
  <2> QED BY <2>2, <2>3, SMT DEF OptionsOK
<1>4. CASE Initialize
  <2> DEFINE Given(o) ==
        IF o = "port" THEN Port(Stoi[opts[o]])
        ELSE IF o \in {"username", "password"} /\ opts[o] = "" THEN "builtin" ELSE opts[o]
  <2>1. config' = [o \in Option |-> Given(o)]
    BY <1>4, Zenon DEF Initialize
  <2>2. "port" \in Option
    BY SMT DEF Option, ValueOption
  <2>3. Given("port") = Port(Stoi[opts["port"]])
    OBVIOUS
  <2> HIDE DEF Given
  <2>4. DOMAIN config' = Option /\ config'["port"] = Given("port")
    BY <2>1, <2>2, Zenon
  <2>5. opts["port"] \in DOMAIN Stoi
    BY <1>4, Zenon DEF Initialize
  <2>6. Stoi[opts["port"]] \in Int
    BY <2>5, MainAssumption, Zenon
  <2>7. config'["port"] \in 0..PortLimit - 1
    BY <2>3, <2>4, <2>6, PortFits, Zenon
  <2>8. flags' = flags /\ opts' = opts
    BY <1>4, Zenon DEF Initialize
  <2> QED BY <2>4, <2>7, <2>8, SMT DEF OptionsOK
<1> DEFINE Kept == flags' = flags /\ opts' = opts /\ config' = config
<1>5. UNCHANGED options => Kept
  BY SMT DEF options
<1>6. ParseInfo \/ FetchEndpoints \/ BadPort \/ OneShot \/ Install \/ Start \/ Inside => Kept
  BY <1>5, Zenon DEF ParseInfo, FetchEndpoints, BadPort, OneShot, Install, Start, Inside
<1>7. Started \/ NotStarted \/ Stop \/ Stopped \/ Signal \/ Crash => Kept
  BY <1>5, Zenon DEF Started, NotStarted, Stop, Stopped, Signal, Crash
<1>8. ParseOther => Kept
  BY Zenon DEF ParseOther
<1>9. UNCHANGED vars => Kept
  BY <1>5, SMT DEF vars
<1>10. CASE Kept
  BY <1>10, SMT DEF OptionsOK
<1> QED BY <1>1, <1>2, <1>3, <1>4, <1>6, <1>7, <1>8, <1>9, <1>10, Zenon DEF Next, Step

\* Where main goes, and what the controller does with it.
LEMMA ControlStep ==
  MainInv /\ Next => ControlOK' /\ SwitchesOK' /\ HeldWhere' /\ ExitTellsTruth'
<1> SUFFICES ASSUME MainInv, Next
             PROVE ControlOK' /\ SwitchesOK' /\ HeldWhere' /\ ExitTellsTruth'
  OBVIOUS
<1> USE DEF MainInv, TypeOK
<1>1. CASE ParseFlag \/ ParseValue \/ ParseOther
  <2>1. UNCHANGED <<pc, handled, signalled, asked, exit, phase, session, serving>>
    BY <1>1, SMT DEF ParseFlag, ParseValue, ParseOther, signals, lifecycle
  <2> QED BY <2>1, SMT DEF ControlOK, SwitchesOK, HeldWhere, ExitTellsTruth
<1>2. CASE ReadFile \/ Initialize
  <2>1. /\ UNCHANGED signals /\ UNCHANGED lifecycle /\ exit' = exit
        /\ pc \in {"parse", "config"} /\ pc' \in {"config", "command"}
    BY <1>2, Zenon DEF ReadFile, Initialize
  <2>2. UNCHANGED <<handled, signalled, asked, exit, phase, session, serving>>
    BY <2>1, SMT DEF signals, lifecycle
  <2> QED BY <2>1, <2>2, SMT DEF ControlOK, SwitchesOK, HeldWhere, ExitTellsTruth
<1>3. CASE ParseInfo \/ FetchEndpoints \/ BadPort \/ OneShot
  <2>1. /\ UNCHANGED <<handled, signalled, asked, phase, session, serving>>
        /\ pc \in {"parse", "config", "command"} /\ pc' = "end" /\ exit' \in {"0", "crash"}
    BY <1>3, SMT DEF ParseInfo, FetchEndpoints, BadPort, OneShot, End, signals, lifecycle
  <2> QED BY <2>1, SMT DEF ControlOK, SwitchesOK, HeldWhere, ExitTellsTruth
<1>4. CASE Install
  <2>1. /\ UNCHANGED <<signalled, asked, exit, phase, session, serving>>
        /\ pc = "command" /\ pc' = "start" /\ handled'
    BY <1>4, SMT DEF Install, Handle, lifecycle
  <2>2. SwitchesOK'
    BY <1>4, <2>1, Zenon DEF SwitchesOK, Install, Handle
  <2> QED BY <2>1, <2>2, SMT DEF ControlOK, HeldWhere, ExitTellsTruth
<1>5. CASE Start \/ Started \/ Stop
  <2>1. /\ UNCHANGED <<handled, signalled, asked, exit, session, serving>>
        /\ \/ pc = "start" /\ pc' = "starting" /\ phase' = "starting" /\ phase = "stopped"
           \/ pc = "starting" /\ pc' = "wait" /\ phase' = "running" /\ phase = "running"
           \/ pc = "wait" /\ pc' = "stopping" /\ asked /\ phase' = "stopping" /\ session
    BY <1>5, SMT DEF Start, Started, Stop, Proxy!Begin, Proxy!BeginStop, signals, lifecycle
  <2> QED BY <2>1, SMT DEF ControlOK, SwitchesOK, HeldWhere, ExitTellsTruth
<1>6. CASE Inside
  <2>1. UNCHANGED <<pc, handled, signalled, asked, exit>> /\ pc \in {"starting", "stopping"}
    BY <1>6, SMT DEF Inside, signals
  <2>2. phase' \in {"stopped", "starting", "running", "stopping"}
    BY <1>6, SMT DEF Inside, Proxy!OpenSession, Proxy!Fail, Proxy!Serve, Proxy!BeginStop,
       Proxy!StopServing, Proxy!CloseSession, Proxy!Stopped, ControlOK
  <2>3. session' \in BOOLEAN /\ serving' \in BOOLEAN
    BY <1>6, Zenon DEF Inside, Proxy!OpenSession, Proxy!Fail, Proxy!Serve, Proxy!BeginStop,
       Proxy!StopServing, Proxy!CloseSession, Proxy!Stopped, SwitchesOK
  <2>4. (serving' => session') /\ (phase' = "stopped" => ~session')
    BY <1>6, SMT DEF Inside, Proxy!OpenSession, Proxy!Fail, Proxy!Serve, Proxy!BeginStop,
       Proxy!StopServing, Proxy!CloseSession, Proxy!Stopped, HeldWhere
  <2>5. SwitchesOK'
    BY <2>1, <2>3, Zenon DEF SwitchesOK
  <2> QED BY <2>1, <2>2, <2>4, <2>5, SMT DEF ControlOK, HeldWhere, ExitTellsTruth
<1>7. CASE NotStarted \/ Stopped
  <2>1. /\ UNCHANGED <<handled, signalled, asked, phase, session, serving>>
        /\ phase = "stopped" /\ pc' = "end"
        /\ \/ pc = "starting" /\ exit' = "1"
           \/ pc = "stopping" /\ exit' = "0"
    BY <1>7, SMT DEF NotStarted, Stopped, Failure, End, signals, lifecycle
  <2> QED BY <2>1, SMT DEF ControlOK, SwitchesOK, HeldWhere, ExitTellsTruth
<1>8. CASE Signal /\ handled
  <2>1. UNCHANGED <<pc, handled, exit, phase, session, serving>> /\ asked' /\ exit = "none"
    BY <1>8, SMT DEF Signal, Ask, lifecycle
  <2>2. SwitchesOK'
    BY <1>8, <2>1, Zenon DEF SwitchesOK, Signal, Ask
  <2> QED BY <2>1, <2>2, SMT DEF ControlOK, HeldWhere, ExitTellsTruth
<1>9. CASE (Signal /\ ~handled) \/ Crash
  <2>1. /\ UNCHANGED <<handled, asked>> /\ exit' \in {"signal", "crash"} /\ pc' = "end"
        /\ phase' = "stopped" /\ ~session' /\ ~serving'
    BY <1>9, SMT DEF Signal, Crash, End, Proxy!Die, signals
  <2>2. SwitchesOK'
    BY <1>9, <2>1, Zenon DEF SwitchesOK, Signal, Crash, Proxy!Die, signals
  <2> QED BY <2>1, <2>2, SMT DEF ControlOK, HeldWhere, ExitTellsTruth
<1> QED BY <1>1, <1>2, <1>3, <1>4, <1>5, <1>6, <1>7, <1>8, <1>9, Zenon DEF Next, Step

LEMMA MainStep == MainInv /\ [Next]_vars => MainInv'
<1> SUFFICES ASSUME MainInv, [Next]_vars PROVE MainInv'
  OBVIOUS
<1>1. OptionsOK'
  BY OptionsKept DEF MainInv, TypeOK
<1>2. CASE Next
  BY <1>1, <1>2, ControlStep DEF MainInv, TypeOK
<1>3. CASE UNCHANGED vars
  BY <1>1, <1>3, SMT DEF vars, signals, lifecycle, MainInv, TypeOK, ControlOK, SwitchesOK,
                     HeldWhere, ExitTellsTruth
<1> QED BY <1>2, <1>3

LEMMA MainInvariant == Spec => []MainInv
BY MainInit, MainStep, PTL DEF Spec

\* Every variable of main stays within its values, and every port that reaches
\* the controller fits its 16 bits.
THEOREM MainTypeCorrect == Spec => []TypeOK
BY MainInvariant, PTL DEF MainInv

\* After --start the exit status 0 means a stop that was asked for, and nothing
\* is held at any ordinary end.
THEOREM MainExitTellsTruth == Spec => []ExitTellsTruth
BY MainInvariant, PTL DEF MainInv

\* No signal ends a program that holds a session or serves clients.
THEOREM MainSignalSparesHolder == Spec => SignalSparesHolder
<1>1. MainInv /\ [Next]_vars => [exit' = "signal" => ~session /\ ~serving]_vars
  <2> SUFFICES ASSUME MainInv, Next, exit' = "signal" PROVE ~session /\ ~serving
    OBVIOUS
  <2>1. pc = "end" => ~session /\ ~serving
    BY SMT DEF MainInv, HeldWhere
  <2>2. CASE exit = "signal"
    BY <2>1, <2>2, SMT DEF MainInv, TypeOK, ControlOK
  <2>3. CASE exit # "signal"
    <3>1. exit' # exit
      BY <2>3
    <3>2. ParseInfo \/ FetchEndpoints \/ OneShot => exit' = "0"
      BY Zenon DEF ParseInfo, FetchEndpoints, OneShot, End
    <3>3. /\ BadPort \/ Crash => exit' = "crash"
          /\ NotStarted => exit' = "1"
          /\ Stopped => exit' = "0"
      BY Zenon DEF BadPort, Crash, NotStarted, Failure, Stopped, End
    <3>4. /\ ParseFlag \/ ParseValue \/ ParseOther \/ ReadFile \/ Initialize => exit' = exit
          /\ Install \/ Start \/ Inside \/ Started \/ Stop => exit' = exit
      BY Zenon DEF ParseFlag, ParseValue, ParseOther, ReadFile, Initialize, Install, Start,
         Inside, Started, Stop
    <3>5. exit' \notin {"0", "1", "crash"}
      BY SMT
    <3>6. Signal
      BY <3>1, <3>2, <3>3, <3>4, <3>5, SMT DEF Next, Step
    <3>7. ~handled /\ exit = "none"
      BY <3>1, <3>6, Zenon DEF Signal
    <3> QED BY <3>7, SMT DEF MainInv, TypeOK, ControlOK, HeldWhere
  <2> QED BY <2>2, <2>3
<1> QED BY <1>1, MainInvariant, PTL DEF Spec, SignalSparesHolder

------------------------------------------------------------------------
(* The configuration file. *)

Leaves == [key : STRING, value : STRING]

\* A file as it is read: values by key.
Maps == UNION { [K -> STRING] : K \in SUBSET STRING }

\* One leaf of the file is stored.
LEMMA Stored ==
  ASSUME NEW data \in Maps, NEW leaf \in Leaves
  PROVE  /\ Store(data, leaf) \in Maps
         /\ DOMAIN Store(data, leaf) = DOMAIN data \cup {leaf.key}
         /\ Store(data, leaf)[leaf.key] = leaf.value
         /\ \A k \in DOMAIN data \ {leaf.key} : Store(data, leaf)[k] = data[k]
<1>1. PICK K \in SUBSET STRING : data \in [K -> STRING]
  BY DEF Maps
<1>2. leaf.key \in STRING /\ leaf.value \in STRING
  BY DEF Leaves
<1>4. Store(data, leaf) \in [K \cup {leaf.key} -> STRING]
  BY <1>1, <1>2 DEF Store
<1>5. K \cup {leaf.key} \in SUBSET STRING
  BY <1>2
<1> QED BY <1>1, <1>4, <1>5 DEF Maps, Store

\* What parseJson() makes of the file comes out of its loop.
LEMMA StoreLoop ==
  ASSUME file \in Seq(Leaves)
  PROVE  \E data \in [0..Len(file) -> Maps] :
           /\ data[0] = <<>>
           /\ \A n \in 1..Len(file) : data[n] = Store(data[n - 1], file[n])
           /\ ParseFile = data[Len(file)]
<1> DEFINE n == Len(file)
           Eq(f) == f = [i \in 0..n |-> IF i = 0 THEN <<>> ELSE Store(f[i - 1], file[i])]
           data == CHOOSE f : Eq(f)
<1>1. n \in Nat /\ \A i \in 1..n : file[i] \in Leaves
  OBVIOUS
<1>2. <<>> \in Maps
  <2>1. <<>> \in [{} -> STRING]
    OBVIOUS
  <2> QED BY <2>1 DEF Maps
<1>3. \A d \in Maps, i \in 1..n : Store(d, file[i]) \in Maps
  BY <1>1, Stored
<1> DEFINE S(d, i) == Store(d, file[i])
<1>4. \A d, i : S(d, i) = Store(d, file[i])
  OBVIOUS
<1>5. \A d \in Maps, i \in 1..n : S(d, i) \in Maps
  BY <1>3
<1>6. PICK f \in [0..n -> Maps] : f[0] = <<>> /\ \A i \in 1..n : f[i] = S(f[i - 1], i)
  <2> HIDE DEF n, S
  <2> DEFINE steps == [i \in 1..n |-> [d \in Maps |-> S(d, i)]]
  <2>1. steps \in Passes(Maps, n)
    BY <1>5 DEF Passes
  <2>2. PICK A, a, st : A = Maps /\ a = <<>> /\ st = steps
    OBVIOUS
  <2>3. Runs(A, a, n, st) # {}
    BY ONLY <1>1, <1>2, <2>1, <2>2, Iteration
  <2>4. PICK f \in [0..n -> Maps] : f[0] = <<>> /\ \A i \in 1..n : f[i] = steps[i][f[i - 1]]
    BY <2>2, <2>3 DEF Runs
  <2>5. ASSUME NEW i \in 1..n PROVE f[i] = S(f[i - 1], i)
    <3>1. f[i - 1] \in Maps
      BY <1>1, <2>4
    <3> QED BY <2>4, <3>1
  <2> QED BY <2>4, <2>5
<1>7. \E g \in [0..n -> Maps] :
        /\ g[0] = <<>>
        /\ \A i \in 1..n : g[i] = S(g[i - 1], i)
        /\ ParseFile = g[n]
  <2>1. f = [i \in 0..n |-> f[i]] /\ \A i \in 0..n : i # 0 => i \in 1..n
    BY <1>1
  <2>2. Eq(f)
    <3> HIDE DEF n
    <3> QED BY <1>6, <2>1
  <2>3. Eq(data)
    <3> HIDE DEF Eq
    <3> QED BY <2>2
  <2>4. ParseFile = data[n]
    BY DEF ParseFile
  <2> HIDE DEF data
  <2>5. data[0] = <<>> /\ \A i \in 1..n : data[i] = S(data[i - 1], i)
    <3> HIDE DEF n
    <3> QED BY <1>1, <2>3
  <2>6. data = [i \in 0..n |-> data[i]]
    <3> HIDE DEF n
    <3> QED BY <2>3
  <2> DEFINE T == { i \in 0..n : data[i] \in Maps }
  <2>7. 0 \in T
    BY <1>1, <1>2, <2>5
  <2>8. \A i \in 0..(n - 1) : i \in T => i + 1 \in T
    <3> SUFFICES ASSUME NEW i \in 0..(n - 1), i \in T PROVE i + 1 \in T
      OBVIOUS
    <3>1. i + 1 \in 1..n /\ (i + 1) - 1 = i /\ i + 1 \in 0..n
      BY <1>1
    <3>2. data[i + 1] = S(data[i], i + 1) /\ data[i] \in Maps
      <4> HIDE DEF n, S
      <4> QED BY <2>5, <3>1
    <3>3. data[i + 1] \in Maps
      <4> HIDE DEF n, S
      <4> QED BY <1>5, <3>1, <3>2
    <3> QED BY <3>1, <3>3
  <2>9. \A i \in 0..n : i \in T
    <3> HIDE DEF n, T
    <3> QED BY <1>1, <2>7, <2>8, Inductive
  <2>10. data \in [0..n -> Maps]
    <3> HIDE DEF n
    <3> QED BY <2>6, <2>9
  <2> HIDE DEF n, S
  <2> QED BY <2>4, <2>5, <2>10
<1> QED
  <2> HIDE DEF n
  <2>1. PICK g \in [0..n -> Maps] :
          g[0] = <<>> /\ (\A i \in 1..n : g[i] = S(g[i - 1], i)) /\ ParseFile = g[n]
    BY <1>7
  <2>2. \A i \in 1..n : g[i] = Store(g[i - 1], file[i])
    BY <2>1
  <2> QED BY <2>1, <2>2 DEF n

\* What data owes to the first n leaves of the file: the last value of every key.
LastOf(data, n) ==
  /\ DOMAIN data = { file[i].key : i \in 1..n }
  /\ \A i \in 1..n : (\A j \in 1..n : file[j].key = file[i].key => j <= i)
                     => data[file[i].key] = file[i].value

LEMMA LastStored ==
  ASSUME file \in Seq(Leaves), NEW data \in Maps, NEW n \in 0..(Len(file) - 1), LastOf(data, n)
  PROVE  LastOf(Store(data, file[n + 1]), n + 1)
<1>1. n \in Nat /\ n + 1 \in 1..Len(file) /\ \A i \in 1..Len(file) : file[i] \in Leaves
  OBVIOUS
<1>2. PICK leaf, more : leaf = file[n + 1] /\ more = Store(data, leaf)
  OBVIOUS
<1>3. leaf \in Leaves
  BY <1>1, <1>2
<1>4. /\ DOMAIN more = DOMAIN data \cup {leaf.key}
      /\ more[leaf.key] = leaf.value
      /\ \A k \in DOMAIN data \ {leaf.key} : more[k] = data[k]
  BY <1>2, <1>3, Stored
<1>5. 1..(n + 1) = (1..n) \cup {n + 1} /\ n + 1 \notin 1..n
  BY <1>1
<1>6. DOMAIN more = { file[i].key : i \in 1..(n + 1) }
  BY <1>2, <1>4, <1>5 DEF LastOf
<1>7. ASSUME NEW i \in 1..(n + 1), \A j \in 1..(n + 1) : file[j].key = file[i].key => j <= i
      PROVE  more[file[i].key] = file[i].value
  <2>1. CASE i = n + 1
    BY <1>2, <1>4, <2>1
  <2>2. CASE i \in 1..n
    <3>1. file[i].key # leaf.key
      <4>1. ~ (n + 1 <= i)
        BY <1>1, <2>2
      <4> QED BY <1>2, <1>5, <1>7, <4>1
    <3>2. file[i].key \in DOMAIN data /\ data[file[i].key] = file[i].value
      BY <1>5, <1>7, <2>2 DEF LastOf
    <3> QED BY <1>4, <3>1, <3>2
  <2> QED BY <1>5, <2>1, <2>2
<1> QED BY <1>2, <1>6, <1>7 DEF LastOf

\* parseJson() keeps the last value of every key, of whatever object.
LEMMA ParseFileLast ==
  ASSUME file \in Seq(Leaves)
  PROVE  LastOf(ParseFile, Len(file))
<1>1. PICK data \in [0..Len(file) -> Maps] :
        /\ data[0] = <<>>
        /\ \A n \in 1..Len(file) : data[n] = Store(data[n - 1], file[n])
        /\ ParseFile = data[Len(file)]
  BY StoreLoop
<1>2. PICK T : T = { n \in 0..Len(file) : LastOf(data[n], n) }
  OBVIOUS
<1>3. Len(file) \in Nat
  OBVIOUS
<1>4. 0 \in T
  <2>1. 1..0 = {} /\ DOMAIN <<>> = {}
    OBVIOUS
  <2> QED BY <1>1, <1>2, <1>3, <2>1 DEF LastOf
<1>5. \A n \in 0..(Len(file) - 1) : n \in T => n + 1 \in T
  <2> SUFFICES ASSUME NEW n \in 0..(Len(file) - 1), n \in T PROVE n + 1 \in T
    OBVIOUS
  <2>1. n \in 0..Len(file) /\ n + 1 \in 1..Len(file) /\ (n + 1) - 1 = n
        /\ n + 1 \in 0..Len(file)
    BY <1>3
  <2>2. data[n] \in Maps /\ LastOf(data[n], n)
    BY <1>1, <1>2, <2>1
  <2>3. LastOf(Store(data[n], file[n + 1]), n + 1)
    BY <2>2, LastStored
  <2>4. data[n + 1] = Store(data[n], file[n + 1])
    BY <1>1, <2>1
  <2> QED BY <1>2, <2>1, <2>3, <2>4
<1>6. Len(file) \in T
  <2>1. \A n \in 0..Len(file) : n \in T
    BY ONLY <1>3, <1>4, <1>5, Inductive
  <2> QED BY <1>3, <2>1
<1> QED BY <1>1, <1>2, <1>6

\* The last of some places.
LEMMA LastPlace ==
  ASSUME NEW n \in Nat, NEW P \in SUBSET (1..n), P # {}
  PROVE  Max(P) \in P /\ \A i \in P : i <= Max(P)
<1>1. PICK T : T = { n - i : i \in P }
  OBVIOUS
<1>2. T \in SUBSET Nat /\ T # {}
  <2>1. \A i \in P : n - i \in Nat
    OBVIOUS
  <2> QED BY ONLY <1>1, <2>1, P # {}
<1>3. PICK m \in T : \A k \in T : m <= k
  BY ONLY <1>2, Least
<1>4. PICK x \in P : m = n - x
  BY <1>1, <1>3
<1>5. \A y \in P : n - x <= n - y
  BY <1>1, <1>3, <1>4
<1>6. \A y \in P : y \in Nat
  OBVIOUS
<1>7. \A y \in P : x >= y
  BY <1>4, <1>5, <1>6
<1>8. Max(P) \in P /\ \A y \in P : Max(P) >= y
  BY <1>4, <1>7 DEF Max
<1> QED BY <1>6, <1>8

------------------------------------------------------------------------
(* The command line. *)

IsOption(w) == \E o \in Option : w = ValueOption[o]

\* An argument stands on its own unless the one before is an option that does.
LEMMA OptionPlaces ==
  ASSUME argv \in Seq(STRING)
  PROVE  /\ OptionAt \subseteq 1..Len(argv)
         /\ \A i \in 1..Len(argv) :
              i \in OptionAt <=> i = 1 \/ ~ (i - 1 \in OptionAt /\ IsOption(argv[i - 1]))
<1> DEFINE n == Len(argv)
           Own(b, i) == i = 1 \/ ~ (b /\ \E o \in Option : argv[i - 1] = ValueOption[o])
           Eq(f) == f = [i \in 1..n |->
                           i = 1 \/ ~ (f[i - 1] /\ \E o \in Option : argv[i - 1] = ValueOption[o])]
           at == CHOOSE f : Eq(f)
<1>1. n \in Nat
  OBVIOUS
<1>2. OptionAt = { i \in 1..n : at[i] }
  BY DEF OptionAt
<1>3. \A b, i : Own(b, i) \in BOOLEAN
  OBVIOUS
<1>4. PICK f \in [0..n -> BOOLEAN] : \A i \in 1..n : f[i] = Own(f[i - 1], i)
  <2> HIDE DEF n, Own
  <2> DEFINE steps == [i \in 1..n |-> [b \in BOOLEAN |-> Own(b, i)]]
  <2>1. steps \in Passes(BOOLEAN, n)
    BY <1>3 DEF Passes
  <2>2. PICK A, a, st : A = BOOLEAN /\ a = TRUE /\ st = steps
    OBVIOUS
  <2>3. Runs(A, a, n, st) # {}
    BY ONLY <1>1, <2>1, <2>2, Iteration
  <2>4. PICK f \in [0..n -> BOOLEAN] : \A i \in 1..n : f[i] = steps[i][f[i - 1]]
    BY <2>2, <2>3 DEF Runs
  <2>5. ASSUME NEW i \in 1..n PROVE f[i] = Own(f[i - 1], i)
    <3>1. f[i - 1] \in BOOLEAN
      BY <1>1, <2>4
    <3> QED BY <2>4, <3>1
  <2> QED BY <2>4, <2>5
<1>5. PICK g : g = [i \in 1..n |-> f[i]]
  OBVIOUS
<1>6. \A i \in 1..n : g[i] = Own(g[i - 1], i)
  <2> SUFFICES ASSUME NEW i \in 1..n PROVE g[i] = Own(g[i - 1], i)
    OBVIOUS
  <2>1. CASE i = 1
    <3>1. f[1] = Own(f[0], 1) /\ g[1] = f[1]
      BY <1>1, <1>4, <1>5, <2>1
    <3> QED BY <2>1, <3>1
  <2>2. CASE i # 1
    <3>1. i - 1 \in 1..n
      BY <1>1, <2>2
    <3> HIDE DEF Own
    <3> QED BY <1>4, <1>5, <3>1
  <2> QED BY <2>1, <2>2
<1>7. Eq(g)
  <2>1. \A i \in 1..n :
          g[i] = (i = 1 \/ ~ (g[i - 1] /\ \E o \in Option : argv[i - 1] = ValueOption[o]))
    BY <1>6
  <2>2. g = [i \in 1..n |-> g[i]]
    BY <1>5
  <2> HIDE DEF n
  <2> QED BY <2>1, <2>2
<1>8. Eq(at)
  <2> HIDE DEF Eq
  <2> QED BY <1>7
<1>9. \A i \in 1..n : at[i] = Own(at[i - 1], i)
  <2> HIDE DEF n, at
  <2> QED BY <1>8
<1> HIDE DEF at, n
<1>10. ASSUME NEW i \in 1..n
       PROVE  i \in OptionAt <=> i = 1 \/ ~ (i - 1 \in OptionAt /\ IsOption(argv[i - 1]))
  <2>1. at[i] <=> i = 1 \/ ~ (at[i - 1] /\ IsOption(argv[i - 1]))
    BY <1>9 DEF IsOption
  <2>2. i # 1 => i - 1 \in 1..n
    BY <1>1
  <2> QED BY <1>2, <2>1, <2>2
<1> QED BY <1>2, <1>10 DEF n

------------------------------------------------------------------------
(* What reaches the controller. *)

\* v is the value of option o after the first n arguments.
ChosenAfter(o, n, v) ==
  LET places == { i \in GivenAt(o) : i <= n } IN
  \/ places = {} /\ v = BeforeArgs[o]
  \/ \E i \in places : (\A j \in places : j <= i) /\ v = argv[i + 1]

\* Some arguments are parsed, the next one stands on its own.
Parsing ==
  pc = "parse" =>
    \E n \in 0..Len(argv) :
      /\ args \in Seq(STRING) /\ Len(args) = Len(argv) - n
      /\ \A i \in 1..Len(args) : args[i] = argv[n + i]
      /\ n < Len(argv) => n + 1 \in OptionAt
      /\ \A o \in Option : ChosenAfter(o, n, opts[o])

\* Then the file is merged; its port has become a number and a word again.
Merged ==
  pc = "config" =>
    \A o \in Option :
      opts[o] = IF o = "port" /\ Chosen(o) = Default[o] /\ InFile(o) # {}
                  THEN TextOf[GetInt(Meant(o))] ELSE Meant(o)

Givens == argv \in Argvs /\ environ \in Environs /\ file \in Files

ConfInv ==
  /\ Givens
  /\ pc \in {"parse", "config"} => config = <<>>
  /\ Parsing /\ Merged /\ ConfigMeaning

LEMMA OptionWords ==
  /\ \A o, p \in Option : ValueOption[o] = ValueOption[p] => o = p
  /\ \A w \in Flag : ~ IsOption(w)
BY DEF Option, ValueOption, Flag, IsOption

\* What is given on the command line.
LEMMA GivenArgs ==
  ASSUME Givens
  PROVE  /\ argv \in Seq(STRING) /\ Len(argv) \in Nat
         /\ file # Unreadable => file \in Seq(Leaves)
         /\ \A o \in Option : GivenAt(o) \in SUBSET (1..Len(argv))
<1>1. argv \in Seq(STRING) /\ (file # Unreadable => file \in Seq(Leaves))
  BY MainAssumption DEF Givens, Leaves
<1>2. OptionAt \subseteq 1..Len(argv)
  BY <1>1, OptionPlaces
<1>3. Len(argv) \in Nat
  BY <1>1
<1>4. \A o \in Option : GivenAt(o) \in SUBSET (1..Len(argv))
  <2> SUFFICES ASSUME NEW o \in Option PROVE GivenAt(o) \in SUBSET (1..Len(argv))
    OBVIOUS
  <2>1. GivenAt(o) \subseteq OptionAt
    BY Zenon DEF GivenAt
  <2> QED BY ONLY <1>2, <2>1
<1> QED BY <1>1, <1>3, <1>4

\* Arguments that do not give an option leave it alone.
LEMMA ChosenKept ==
  ASSUME NEW o, NEW v, NEW n \in Nat, NEW m \in Nat, n <= m, GivenAt(o) \subseteq Nat,
         \A i \in GivenAt(o) : i <= m => i <= n, ChosenAfter(o, n, v)
  PROVE  ChosenAfter(o, m, v)
<1>1. { i \in GivenAt(o) : i <= m } = { i \in GivenAt(o) : i <= n }
  OBVIOUS
<1> QED BY <1>1 DEF ChosenAfter

\* An option that is given again has a new value.
LEMMA ChosenAgain ==
  ASSUME NEW o, NEW m, NEW i \in GivenAt(o), i <= m,
         \A j \in GivenAt(o) : j <= m => j <= i
  PROVE  ChosenAfter(o, m, argv[i + 1])
BY DEF ChosenAfter

\* In the end the last one counts.
LEMMA ChosenAll ==
  ASSUME NEW o, NEW v, Len(argv) \in Nat, GivenAt(o) \in SUBSET (1..Len(argv)),
         ChosenAfter(o, Len(argv), v)
  PROVE  v = Chosen(o)
<1>1. { i \in GivenAt(o) : i <= Len(argv) } = GivenAt(o)
  OBVIOUS
<1>2. CASE GivenAt(o) = {}
  BY <1>1, <1>2 DEF ChosenAfter, Chosen
<1>3. CASE GivenAt(o) # {}
  <2>1. PICK i \in GivenAt(o) : (\A j \in GivenAt(o) : j <= i) /\ v = argv[i + 1]
    BY <1>1, <1>3 DEF ChosenAfter
  <2>2. PICK P : P = GivenAt(o)
    OBVIOUS
  <2>3. Max(P) \in P /\ \A j \in P : j <= Max(P)
    BY ONLY <1>3, <2>2, Len(argv) \in Nat, GivenAt(o) \in SUBSET (1..Len(argv)), LastPlace
  <2>4. i <= Max(P) /\ Max(P) <= i /\ i \in Nat /\ Max(P) \in Nat
    BY <2>1, <2>2, <2>3
  <2>5. i = Max(P)
    BY ONLY <2>4
  <2> QED BY <1>3, <2>1, <2>2, <2>5 DEF Chosen
<1> QED BY <1>2, <1>3

\* The values that the file has for an option.
LEMMA FileHas ==
  ASSUME file \in Seq(Leaves), NEW o \in Option, o # "configFile",
         Chosen("configFile") # "", file # Unreadable
  PROVE  /\ o \in DOMAIN ParseFile <=> InFile(o) # {}
         /\ InFile(o) # {} => ParseFile[o] = file[Max(InFile(o))].value
<1>1. InFile(o) = { i \in 1..Len(file) : file[i].key = o } /\ Len(file) \in Nat
  <2>1. InFile(o) = { i \in DOMAIN file : file[i].key = o }
    BY Zenon DEF InFile
  <2>2. DOMAIN file = 1..Len(file) /\ Len(file) \in Nat
    BY ONLY file \in Seq(Leaves)
  <2> QED BY <2>1, <2>2, Zenon
<1>2. LastOf(ParseFile, Len(file))
  BY ParseFileLast
<1>3. o \in DOMAIN ParseFile <=> InFile(o) # {}
  BY <1>1, <1>2 DEF LastOf
<1>4. ASSUME InFile(o) # {} PROVE ParseFile[o] = file[Max(InFile(o))].value
  <2>1. PICK P, n : P = InFile(o) /\ n = Len(file)
    OBVIOUS
  <2>2. n \in Nat /\ P \in SUBSET (1..n) /\ P # {}
    BY <1>1, <1>4, <2>1
  <2>3. Max(P) \in P /\ \A i \in P : i <= Max(P)
    BY ONLY <2>2, LastPlace
  <2>4. PICK m \in 1..Len(file) : m = Max(P) /\ file[m].key = o
    BY <1>1, <2>1, <2>3
  <2>5. \A j \in 1..Len(file) : file[j].key = file[m].key => j <= m
    BY <1>1, <2>1, <2>3, <2>4
  <2> QED BY <1>2, <2>1, <2>4, <2>5 DEF LastOf
<1> QED BY <1>3, <1>4

LEMMA ConfInit == Init => ConfInv
<1> SUFFICES ASSUME Init PROVE ConfInv
  OBVIOUS
<1>1. Givens /\ pc = "parse" /\ args = argv /\ opts = BeforeArgs /\ config = <<>>
  BY DEF Init, Givens
<1>2. /\ argv \in Seq(STRING) /\ Len(argv) \in Nat
      /\ \A o \in Option : GivenAt(o) \in SUBSET (1..Len(argv))
  BY <1>1, GivenArgs
<1>3. Len(argv) > 0 => 1 \in OptionAt
  BY <1>2, OptionPlaces
<1>4. ASSUME NEW o \in Option PROVE ChosenAfter(o, 0, opts[o])
  <2>1. { i \in GivenAt(o) : i <= 0 } = {}
    BY <1>2
  <2> QED BY <1>1, <2>1 DEF ChosenAfter
<1>5. Parsing
  <2>1. 0 \in 0..Len(argv) /\ Len(args) = Len(argv) - 0 /\ 0 + 1 = 1
        /\ \A i \in 1..Len(args) : args[i] = argv[0 + i]
    BY <1>1, <1>2
  <2> QED BY <1>1, <1>2, <1>3, <1>4, <2>1 DEF Parsing
<1> QED BY <1>1, <1>5 DEF ConfInv, Merged, ConfigMeaning

\* The arguments from place n + 1 on are still to be parsed.
Rest(n) ==
  /\ args \in Seq(STRING) /\ Len(args) = Len(argv) - n
  /\ \A i \in 1..Len(args) : args[i] = argv[n + i]

LEMMA RestOfRest ==
  ASSUME argv \in Seq(STRING), NEW n \in Nat, NEW list \in Seq(STRING), list # <<>>,
         Len(list) = Len(argv) - n, \A i \in 1..Len(list) : list[i] = argv[n + i]
  PROVE  /\ Tail(list) \in Seq(STRING) /\ Len(Tail(list)) = Len(argv) - (n + 1)
         /\ \A i \in 1..Len(Tail(list)) : Tail(list)[i] = argv[(n + 1) + i]
         /\ n + 1 \in 1..Len(argv) /\ Head(list) = argv[n + 1]
<1>1. Len(list) \in Nat /\ Len(list) > 0 /\ Head(list) = list[1] /\ Len(argv) \in Nat
  OBVIOUS
<1>2. /\ Tail(list) \in Seq(STRING) /\ Len(Tail(list)) = Len(list) - 1
      /\ \A i \in 1..Len(Tail(list)) : Tail(list)[i] = list[i + 1]
  OBVIOUS
<1>3. \A i \in 1..Len(Tail(list)) : i + 1 \in 1..Len(list) /\ n + (i + 1) = (n + 1) + i
  BY <1>1, <1>2
<1>4. Len(list) - 1 = Len(argv) - (n + 1) /\ n + 1 \in 1..Len(argv)
  BY <1>1
<1>5. list[1] = argv[n + 1]
  BY <1>1
<1> QED BY <1>1, <1>2, <1>3, <1>4, <1>5

\* The next argument stands on its own.
LEMMA NextArgument ==
  ASSUME Givens, Parsing, pc = "parse", args # <<>>
  PROVE  \E n \in Nat :
           /\ Rest(n) /\ n + 1 \in OptionAt /\ n + 1 \in 1..Len(argv)
           /\ argv[n + 1] = Head(args)
           /\ \A o \in Option : ChosenAfter(o, n, opts[o])
<1>1. PICK n \in 0..Len(argv) :
        /\ args \in Seq(STRING) /\ Len(args) = Len(argv) - n
        /\ \A i \in 1..Len(args) : args[i] = argv[n + i]
        /\ n < Len(argv) => n + 1 \in OptionAt
        /\ \A o \in Option : ChosenAfter(o, n, opts[o])
  BY DEF Parsing
<1>2. argv \in Seq(STRING) /\ Len(argv) \in Nat /\ n \in Nat
  BY GivenArgs
<1>3. n + 1 \in 1..Len(argv) /\ argv[n + 1] = Head(args)
  BY <1>1, <1>2, RestOfRest
<1>4. n < Len(argv)
  BY <1>2, <1>3
<1> QED BY <1>1, <1>2, <1>3, <1>4 DEF Rest

\* m arguments are parsed and the next one stands on its own.
LEMMA ParsingGoesOn ==
  ASSUME UNCHANGED given, NEW m \in 0..Len(argv), Rest(m)',
         m < Len(argv) => m + 1 \in OptionAt,
         \A o \in Option : ChosenAfter(o, m, opts'[o])
  PROVE  Parsing'
<1>1. UNCHANGED <<argv, environ>>
  BY DEF given
<1>2. OptionAt' = OptionAt /\ BeforeArgs' = BeforeArgs
  BY <1>1 DEF OptionAt, BeforeArgs
<1>3. ASSUME NEW o \in Option PROVE ChosenAfter(o, m, opts[o])'
  <2>1. ChosenAfter(o, m, opts'[o])
    OBVIOUS
  <2> QED BY <1>1, <1>2, <2>1 DEF ChosenAfter, GivenAt
<1> QED BY <1>1, <1>2, <1>3 DEF Parsing, Rest

\* The next argument is none of an option's: it is passed over.
LEMMA PassedOver ==
  ASSUME Givens, Parsing, pc = "parse", args # <<>>, ~ IsOption(Head(args)),
         args' = Tail(args), UNCHANGED <<given, opts>>
  PROVE  Parsing'
<1>1. PICK n \in Nat :
        /\ Rest(n) /\ n + 1 \in OptionAt /\ n + 1 \in 1..Len(argv)
        /\ argv[n + 1] = Head(args)
        /\ \A o \in Option : ChosenAfter(o, n, opts[o])
  BY NextArgument
<1>2. /\ argv \in Seq(STRING) /\ Len(argv) \in Nat
      /\ \A o \in Option : GivenAt(o) \in SUBSET (1..Len(argv))
  BY GivenArgs
<1>3. Rest(n + 1)'
  <2>1. argv' = argv
    BY DEF given
  <2> QED BY <1>1, <1>2, <2>1, RestOfRest DEF Rest
<1>4. n + 1 < Len(argv) => (n + 1) + 1 \in OptionAt
  <2>1. n + 1 < Len(argv) => (n + 1) + 1 \in 1..Len(argv) /\ ((n + 1) + 1) - 1 = n + 1
    BY <1>1, <1>2
  <2> QED BY <1>1, <1>2, <2>1, OptionPlaces
<1>5. ASSUME NEW o \in Option PROVE ChosenAfter(o, n + 1, opts'[o])
  <2>1. n + 1 \notin GivenAt(o)
    BY <1>1 DEF GivenAt, IsOption
  <2>2. \A i \in GivenAt(o) : i <= n + 1 => i <= n
    BY <1>1, <1>2, <2>1
  <2>3. GivenAt(o) \subseteq Nat /\ n <= n + 1 /\ n + 1 \in Nat
    BY <1>1, <1>2
  <2>4. ChosenAfter(o, n, opts[o])
    BY <1>1
  <2> QED BY <1>1, <2>2, <2>3, <2>4, ChosenKept
<1>6. n + 1 \in 0..Len(argv)
  BY <1>1, <1>2
<1> QED BY <1>3, <1>4, <1>5, <1>6, ParsingGoesOn

\* The next argument is an option, the one after it its value.
LEMMA ValueTaken ==
  ASSUME Givens, Parsing, pc = "parse", args # <<>>, DOMAIN opts = Option, UNCHANGED given,
         NEW o \in Option, Head(args) = ValueOption[o],
         IF Len(args) > 1
           THEN opts' = [opts EXCEPT ![o] = args[2]] /\ args' = AfterValue
           ELSE args' = <<>> /\ UNCHANGED opts
  PROVE  Parsing'
<1>1. PICK n \in Nat :
        /\ Rest(n) /\ n + 1 \in OptionAt /\ n + 1 \in 1..Len(argv)
        /\ argv[n + 1] = ValueOption[o]
        /\ \A p \in Option : ChosenAfter(p, n, opts[p])
  BY NextArgument
<1>2. /\ argv \in Seq(STRING) /\ Len(argv) \in Nat
      /\ \A p \in Option : GivenAt(p) \in SUBSET (1..Len(argv))
  BY GivenArgs
<1>3. argv' = argv
  BY DEF given
<1>4. /\ args \in Seq(STRING) /\ Len(args) \in Nat /\ Len(args) = Len(argv) - n
      /\ \A i \in 1..Len(args) : args[i] = argv[n + i]
  BY <1>1 DEF Rest
<1>5. /\ Tail(args) \in Seq(STRING) /\ Len(Tail(args)) = Len(argv) - (n + 1)
      /\ \A i \in 1..Len(Tail(args)) : Tail(args)[i] = argv[(n + 1) + i]
  BY <1>2, <1>4, RestOfRest
<1>6. CASE Len(args) > 1
  <2>1. Tail(args) # <<>> /\ n + 1 < Len(argv)
    <3>1. n + 1 < Len(argv)
      BY <1>2, <1>4, <1>6
    <3>2. PICK list : list = Tail(args)
      OBVIOUS
    <3>3. Len(list) = Len(argv) - (n + 1) /\ Len(argv) \in Nat
      BY <1>2, <1>5, <3>2
    <3>4. list # <<>>
      <4>1. Len(<<>>) = 0
        OBVIOUS
      <4> QED BY <3>1, <3>3, <4>1
    <3> QED BY <3>1, <3>2, <3>4
  <2>2. /\ AfterValue \in Seq(STRING) /\ Len(AfterValue) = Len(argv) - ((n + 1) + 1)
        /\ \A i \in 1..Len(AfterValue) : AfterValue[i] = argv[((n + 1) + 1) + i]
        /\ (n + 1) + 1 \in 1..Len(argv)
    <3>1. n + 1 \in Nat
      OBVIOUS
    <3>2. \A m \in Nat, list \in Seq(STRING) : m = n + 1 /\ list = Tail(args) =>
            /\ Tail(list) \in Seq(STRING) /\ Len(Tail(list)) = Len(argv) - (m + 1)
            /\ \A i \in 1..Len(Tail(list)) : Tail(list)[i] = argv[(m + 1) + i]
            /\ m + 1 \in 1..Len(argv)
      <4> SUFFICES ASSUME NEW m \in Nat, NEW list \in Seq(STRING), m = n + 1,
                          list = Tail(args)
                   PROVE  /\ Tail(list) \in Seq(STRING)
                          /\ Len(Tail(list)) = Len(argv) - (m + 1)
                          /\ \A i \in 1..Len(Tail(list)) : Tail(list)[i] = argv[(m + 1) + i]
                          /\ m + 1 \in 1..Len(argv)
        OBVIOUS
      <4>1. Len(list) = Len(argv) - m /\ list # <<>>
        BY <1>5, <2>1
      <4>2. \A i \in 1..Len(list) : list[i] = argv[m + i]
        BY <1>5
      <4> QED BY ONLY <1>2, <4>1, <4>2, m \in Nat, list \in Seq(STRING), RestOfRest
    <3> QED BY <1>5, <3>1, <3>2 DEF AfterValue
  <2>3. (n + 1) + 1 = n + 2 /\ n + 2 \in Nat /\ n + 2 \in 0..Len(argv)
    BY <1>2, <2>2
  <2>4. Rest(n + 2)'
    BY <1>3, <1>6, <2>2, <2>3 DEF Rest
  <2>5. n + 2 \in 1..Len(argv) /\ (n + 2) - 1 = n + 1 /\ n + 2 # 1
    BY <1>2, <2>2
  <2>6. n + 2 \notin OptionAt
    BY <1>1, <1>2, <2>5, OptionPlaces DEF IsOption
  <2>7. n + 2 < Len(argv) => (n + 2) + 1 \in OptionAt
    <3>1. n + 2 < Len(argv) => (n + 2) + 1 \in 1..Len(argv) /\ ((n + 2) + 1) - 1 = n + 2
      BY <1>2
    <3> QED BY <1>2, <2>6, <3>1, OptionPlaces
  <2>8. \A p \in Option : \A i \in GivenAt(p) : i <= n + 2 => i <= n + 1 /\ (p # o => i <= n)
    <3> SUFFICES ASSUME NEW p \in Option, NEW i \in GivenAt(p), i <= n + 2
                 PROVE i <= n + 1 /\ (p # o => i <= n)
      OBVIOUS
    <3>1. i \in OptionAt /\ argv[i] = ValueOption[p] /\ i \in Nat
      BY <1>2 DEF GivenAt
    <3>2. i # n + 2 /\ (p # o => i # n + 1)
      BY <1>1, <2>6, <3>1, OptionWords
    <3> QED BY <3>1, <3>2
  <2>9. ASSUME NEW p \in Option PROVE ChosenAfter(p, n + 2, opts'[p])
    <3>1. CASE p = o
      <4>1. n + 1 \in GivenAt(o) /\ n + 1 <= n + 2
        BY <1>1, <1>2, <2>1 DEF GivenAt
      <4>2. \A j \in GivenAt(o) : j <= n + 2 => j <= n + 1
        BY <2>8
      <4>3. opts'[o] = argv[(n + 1) + 1]
        <5>1. args[2] = argv[n + 2]
          BY <1>4, <1>6
        <5> QED BY <1>6, <2>3, <5>1
      <4>4. PICK i \in GivenAt(o) : i = n + 1
        BY <4>1
      <4>5. ChosenAfter(o, n + 2, argv[i + 1])
        BY <4>1, <4>2, <4>4, ChosenAgain
      <4> QED BY <3>1, <4>3, <4>4, <4>5
    <3>2. CASE p # o
      <4>1. GivenAt(p) \subseteq Nat /\ n <= n + 2
        BY <1>2
      <4>2. \A i \in GivenAt(p) : i <= n + 2 => i <= n
        BY <2>8, <3>2
      <4>3. ChosenAfter(p, n, opts[p]) /\ opts'[p] = opts[p]
        BY <1>1, <1>6, <3>2
      <4> QED BY <2>3, <4>1, <4>2, <4>3, ChosenKept
    <3> QED BY <3>1, <3>2
  <2> QED BY <2>3, <2>4, <2>7, <2>9, ParsingGoesOn
<1>7. CASE ~ (Len(args) > 1)
  <2>1. n + 1 = Len(argv) /\ n + 1 \in 0..Len(argv) /\ n + 1 \in Nat
    BY <1>1, <1>2, <1>4, <1>7
  <2>2. Rest(n + 1)'
    <3>1. <<>> \in Seq(STRING) /\ Len(<<>>) = 0 /\ 1..Len(<<>>) = {}
      OBVIOUS
    <3>2. args' = <<>> /\ Len(argv) - (n + 1) = 0
      BY <1>2, <1>7, <2>1
    <3> QED BY <1>3, <3>1, <3>2 DEF Rest
  <2>3. ~ (n + 1 < Len(argv))
    BY <2>1
  <2>4. ASSUME NEW p \in Option PROVE ChosenAfter(p, n + 1, opts'[p])
    <3>1. n + 1 \notin GivenAt(p)
      BY <2>1 DEF GivenAt
    <3>2. \A i \in GivenAt(p) : i <= n + 1 => i <= n
      BY <1>2, <3>1
    <3>3. GivenAt(p) \subseteq Nat /\ n <= n + 1
      BY <1>2
    <3>4. ChosenAfter(p, n, opts[p]) /\ opts'[p] = opts[p]
      BY <1>1, <1>7
    <3> QED BY <2>1, <3>2, <3>3, <3>4, ChosenKept
  <2> QED BY <2>1, <2>2, <2>3, <2>4, ParsingGoesOn
<1> QED BY <1>6, <1>7

\* After the last argument the options have what was chosen.
LEMMA AllParsed ==
  ASSUME Givens, Parsing, pc = "parse", args = <<>>
  PROVE  \A o \in Option : opts[o] = Chosen(o)
<1>1. PICK n \in 0..Len(argv) :
        Len(args) = Len(argv) - n /\ \A o \in Option : ChosenAfter(o, n, opts[o])
  BY DEF Parsing
<1>2. /\ Len(argv) \in Nat
      /\ \A o \in Option : GivenAt(o) \in SUBSET (1..Len(argv))
  BY GivenArgs
<1>3. n = Len(argv)
  <2>1. Len(args) = 0
    OBVIOUS
  <2> QED BY <1>1, <1>2, <2>1
<1> QED BY <1>1, <1>2, <1>3, ChosenAll

\* What the givens determine stays.
LEMMA GivensStay ==
  ASSUME UNCHANGED given
  PROVE  /\ (Givens' <=> Givens)
         /\ \A o : Chosen(o)' = Chosen(o) /\ InFile(o)' = InFile(o) /\ Meant(o)' = Meant(o)
<1>1. UNCHANGED <<argv, environ, file>>
  BY DEF given
<1>2. OptionAt' = OptionAt /\ BeforeArgs' = BeforeArgs
  BY <1>1 DEF OptionAt, BeforeArgs
<1>3. \A o : GivenAt(o)' = GivenAt(o)
  BY <1>1, <1>2 DEF GivenAt
<1>4. \A o : Chosen(o)' = Chosen(o)
  BY <1>1, <1>2, <1>3 DEF Chosen
<1>5. \A o : InFile(o)' = InFile(o)
  BY <1>1, <1>4 DEF InFile
<1> QED BY <1>1, <1>4, <1>5 DEF Meant, Givens

LEMMA FileRead ==
  ASSUME Givens, Parsing, ReadFile
  PROVE  Merged'
<1>1. UNCHANGED given /\ pc = "parse" /\ args = <<>>
      /\ opts' = IF opts.configFile = "" \/ file = Unreadable THEN opts ELSE Merge(ParseFile)
  BY DEF ReadFile
<1>2. \A o \in Option : opts[o] = Chosen(o)
  BY <1>1, AllParsed
<1>3. "configFile" \in Option /\ FileOption = Option \ {"configFile"}
  BY DEF Option, ValueOption, FileOption
<1>4. ASSUME NEW o \in Option
      PROVE  opts'[o] = IF o = "port" /\ Chosen(o) = Default[o] /\ InFile(o) # {}
                          THEN TextOf[GetInt(Meant(o))] ELSE Meant(o)
  <2>1. CASE Chosen("configFile") = "" \/ file = Unreadable
    <3>1. InFile(o) = {}
      BY <2>1 DEF InFile
    <3>2. opts'[o] = opts[o]
      BY <1>1, <1>2, <1>3, <2>1
    <3> QED BY <1>2, <3>1, <3>2 DEF Meant
  <2>2. CASE ~ (Chosen("configFile") = "" \/ file = Unreadable)
    <3>1. opts'[o] = IF o \notin DOMAIN ParseFile \cap FileOption \/ opts[o] # Default[o]
                       THEN opts[o]
                     ELSE IF o = "port" THEN TextOf[GetInt(ParseFile[o])] ELSE ParseFile[o]
      BY <1>1, <1>2, <1>3, <2>2 DEF Merge
    <3>2. CASE o = "configFile"
      <4>1. InFile(o) = {}
        BY <3>2 DEF InFile
      <4> QED BY <1>2, <1>3, <3>1, <3>2, <4>1 DEF Meant
    <3>3. CASE o # "configFile"
      <4>1. file \in Seq(Leaves)
        BY <2>2, GivenArgs
      <4>2. /\ o \in DOMAIN ParseFile <=> InFile(o) # {}
            /\ InFile(o) # {} => ParseFile[o] = file[Max(InFile(o))].value
        BY <2>2, <3>3, <4>1, FileHas
      <4> QED BY <1>2, <1>3, <3>1, <3>3, <4>2 DEF Meant
    <3> QED BY <3>2, <3>3
  <2> QED BY <2>1, <2>2
<1> QED BY <1>1, <1>4, GivensStay DEF Merged

LEMMA Initialized ==
  ASSUME Merged, Initialize
  PROVE  ConfigMeaning'
<1>1. /\ UNCHANGED given /\ pc = "config" /\ opts["port"] \in DOMAIN Stoi
      /\ config' = [o \in Option |->
                      IF o = "port" THEN Port(Stoi[opts[o]])
                      ELSE IF o \in {"username", "password"} /\ opts[o] = "" THEN "builtin"
                      ELSE opts[o]]
  BY DEF Initialize
<1>2. \A o \in Option :
        opts[o] = IF o = "port" /\ Chosen(o) = Default[o] /\ InFile(o) # {}
                    THEN TextOf[GetInt(Meant(o))] ELSE Meant(o)
  BY <1>1 DEF Merged
<1>3. \A w : Stoi[TextOf[GetInt(w)]] = GetInt(w)
  <2> SUFFICES ASSUME NEW w PROVE Stoi[TextOf[GetInt(w)]] = GetInt(w)
    OBVIOUS
  <2>1. GetInt(w) \in DOMAIN TextOf
    BY MainAssumption DEF GetInt
  <2> QED BY <2>1, MainAssumption
<1>4. "port" \in Option
  BY DEF Option, ValueOption
<1>5. Stoi[opts["port"]] = GetInt(Meant("port"))
  <2>1. CASE opts["port"] = Meant("port")
    BY <1>1, <2>1 DEF GetInt
  <2>2. CASE opts["port"] = TextOf[GetInt(Meant("port"))]
    BY <1>3, <2>2
  <2> QED BY <1>2, <1>4, <2>1, <2>2
<1>6. ASSUME NEW o \in Option
      PROVE  config'[o] = IF o = "port" THEN GetInt(Meant(o)) % PortLimit
                          ELSE IF o \in {"username", "password"} /\ Meant(o) = "" THEN "builtin"
                          ELSE Meant(o)
  <2>1. CASE o = "port"
    BY <1>1, <1>4, <1>5, <2>1 DEF Port
  <2>2. CASE o # "port"
    <3>1. opts[o] = Meant(o)
      BY <1>2, <2>2
    <3> QED BY <1>1, <2>2, <3>1
  <2> QED BY <2>1, <2>2
<1> QED BY <1>1, <1>6, GivensStay DEF ConfigMeaning

LEMMA ConfStep == OptionsOK /\ ConfInv /\ [Next]_vars => ConfInv'
<1> SUFFICES ASSUME OptionsOK, ConfInv, [Next]_vars PROVE ConfInv'
  OBVIOUS
<1>1. UNCHANGED given
  BY DEF Next, Step, ParseFlag, ParseValue, ParseInfo, ParseOther, FetchEndpoints, ReadFile,
         Initialize, BadPort, OneShot, Install, Start, Inside, Started, NotStarted, Stop,
         Stopped, Signal, Crash, vars
<1>2. Givens /\ Givens' /\ Parsing /\ Merged /\ ConfigMeaning
  BY <1>1, GivensStay DEF ConfInv
<1>3. ASSUME UNCHANGED config PROVE ConfigMeaning'
  BY <1>1, <1>2, <1>3, GivensStay DEF ConfigMeaning
<1>4. CASE pc = "parse" /\ pc' = "parse" /\ UNCHANGED config /\ Parsing'
  BY <1>2, <1>3, <1>4 DEF ConfInv, Merged
<1>5. CASE ParseFlag \/ ParseOther
  <2>1. ~ IsOption(Head(args))
    BY <1>5, OptionWords DEF ParseFlag, ParseOther, IsOption
  <2>2. /\ pc = "parse" /\ pc' = "parse" /\ args # <<>> /\ args' = Tail(args)
        /\ UNCHANGED <<opts, config>>
    BY <1>5 DEF ParseFlag, ParseOther
  <2> QED BY <1>1, <1>2, <1>4, <2>1, <2>2, PassedOver
<1>6. CASE ParseValue
  <2>1. /\ pc = "parse" /\ pc' = "parse" /\ args # <<>> /\ UNCHANGED config
        /\ \E o \in Option :
             /\ Head(args) = ValueOption[o]
             /\ IF Len(args) > 1
                  THEN opts' = [opts EXCEPT ![o] = args[2]] /\ args' = AfterValue
                  ELSE args' = <<>> /\ UNCHANGED opts
    BY <1>6 DEF ParseValue
  <2>2. DOMAIN opts = Option
    BY DEF OptionsOK
  <2> QED BY <1>1, <1>2, <1>4, <2>1, <2>2, ValueTaken
<1>7. CASE ReadFile
  <2>1. pc' = "config" /\ pc = "parse" /\ UNCHANGED config
    BY <1>7 DEF ReadFile
  <2> QED BY <1>2, <1>3, <1>7, <2>1, FileRead DEF ConfInv, Parsing
<1>8. CASE Initialize
  <2>1. pc' = "command"
    BY <1>8 DEF Initialize
  <2> QED BY <1>2, <1>8, <2>1, Initialized DEF ConfInv, Parsing, Merged
<1>9. CASE pc' \notin {"parse", "config"} /\ UNCHANGED config
  BY <1>2, <1>3, <1>9 DEF ConfInv, Parsing, Merged
<1>10. CASE UNCHANGED <<pc, args, opts, config>>
  <2>1. UNCHANGED <<argv, environ>>
    BY <1>1 DEF given
  <2>2. OptionAt' = OptionAt /\ BeforeArgs' = BeforeArgs
    BY <2>1 DEF OptionAt, BeforeArgs
  <2>3. Parsing' <=> Parsing
    BY <1>10, <2>1, <2>2 DEF Parsing, ChosenAfter, GivenAt
  <2>4. Merged' <=> Merged
    BY <1>1, <1>10, GivensStay DEF Merged
  <2> QED BY <1>2, <1>3, <1>10, <2>3, <2>4 DEF ConfInv
<1>11. ParseInfo \/ FetchEndpoints \/ BadPort \/ OneShot \/ Install \/ Start \/ Started
       \/ NotStarted \/ Stop \/ Stopped \/ Crash \/ (Signal /\ ~ handled)
       => pc' \notin {"parse", "config"} /\ UNCHANGED config
  BY DEF ParseInfo, FetchEndpoints, BadPort, OneShot, Install, Start, Started, NotStarted, Stop,
         Stopped, Crash, Signal, End, options
<1>12. Inside \/ (Signal /\ handled) \/ UNCHANGED vars => UNCHANGED <<pc, args, opts, config>>
  BY DEF Inside, Signal, options, vars
<1> QED
  BY <1>5, <1>6, <1>7, <1>8, <1>9, <1>10, <1>11, <1>12, Zenon DEF Next, Step

LEMMA ConfInvariant == Spec => []ConfInv
<1>1. MainInv => OptionsOK
  BY DEF MainInv, TypeOK
<1> QED BY <1>1, ConfInit, ConfStep, MainInvariant, PTL DEF Spec

\* Whatever the command line, the environment and the file: the controller is given
\* the last value on the command line, else the environment's; and the file's last one
\* where that is the built-in value.
THEOREM MainConfigMeaning == Spec => []ConfigMeaning
<1>1. ConfInv => ConfigMeaning
  BY DEF ConfInv
<1> QED BY <1>1, ConfInvariant, PTL
=======================================================================
