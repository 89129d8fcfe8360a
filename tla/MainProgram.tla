------------------------- MODULE MainProgram -------------------------
(***************************************************************************)
(* One run of the program, src/main.cpp with src/utils/config.cpp: the      *)
(* environment, the command line and the configuration file are merged into *)
(* a ProxyConfig, a command is carried out, and signals or a crash may come *)
(* at any point.  The controller is what ProxyLifecycle says of it, which   *)
(* EmergencyProxy implements.  A word stands for an argument or a value,    *)
(* "" for the empty string; an option's short form is the same word.        *)
(***************************************************************************)
EXTENDS Integers, SequencesExt

CONSTANTS
  Argvs,     \* command lines: sequences of words
  Environs,  \* [user, pass]: each a pair of words or Unset, by precedence
  Unset,     \* what getenv returns for a variable that is not set
  Files,     \* files: sequences of leaves [key, value]; or Unreadable
  Unreadable,
  Stoi,      \* the number std::stoi finds in a word; not all words have one
  TextOf     \* the word std::to_string makes of a number

ASSUME MainAssumption ==
  /\ Argvs \subseteq Seq(STRING)
  /\ Files \ {Unreadable} \subseteq Seq([key : STRING, value : STRING])
  /\ DOMAIN TextOf = {Stoi[w] : w \in DOMAIN Stoi} \cup {0}
  /\ \A w \in DOMAIN Stoi : Stoi[w] \in Int
  /\ \A n \in DOMAIN TextOf : TextOf[n] \in DOMAIN Stoi /\ Stoi[TextOf[n]] = n

VARIABLES
  argv, environ, file,  \* what this run is given; they never change
  pc,        \* where main is
  args,      \* arguments not parsed yet
  flags,     \* options without a value seen so far
  opts,      \* the option variables of main, by ValueOption
  config,    \* the ProxyConfig of the controller; empty before initialize
  handled,   \* SIGINT and SIGTERM have a handler
  signalled, \* one has come
  asked,     \* ~g_running
  exit,      \* "none", an exit status, or "signal" or "crash"
  phase, session, serving

given == <<argv, environ, file>>
options == <<args, flags, opts, config>>
signals == <<handled, signalled, asked>>
lifecycle == <<phase, session, serving>>
vars == <<given, pc, options, signals, exit, lifecycle>>

Proxy == INSTANCE ProxyLifecycle

Flag == {"--start", "--stop", "--status", "--fetch-endpoints", "--no-auto-fetch"}
Info == {"--help", "--version"}
ValueOption ==
  [port |-> "--port", bindAddress |-> "--bind", username |-> "--username",
   password |-> "--password", ovpnConfigPath |-> "--ovpn",
   configFile |-> "--config", logLevel |-> "--log-level", logFile |-> "--log-file"]
Option == DOMAIN ValueOption
FileOption == Option \ {"configFile"}

\* The initial value of an option variable.
Default ==
  [o \in Option |-> CASE o = "port" -> "8888" [] o = "bindAddress" -> "127.0.0.1"
                      [] o = "logLevel" -> "info" [] OTHER -> ""]

\* A set variable counts even if it is empty.
GetEnv(names) ==
  IF names[1] # Unset THEN names[1] ELSE IF names[2] # Unset THEN names[2] ELSE ""

BeforeArgs ==
  [Default EXCEPT !.username = GetEnv(environ.user), !.password = GetEnv(environ.pass)]

Init ==
  /\ argv \in Argvs /\ environ \in Environs /\ file \in Files
  /\ pc = "parse" /\ args = argv /\ flags = {} /\ opts = BeforeArgs
  /\ config = <<>>
  /\ handled = FALSE /\ signalled = FALSE /\ asked = FALSE
  /\ exit = "none"
  /\ Proxy!Init

------------------------------------------------------------------------
(* The command line, one round of the loop per step. *)

End(status) == exit = "none" /\ exit' = status /\ pc' = "end"

ParseFlag ==
  /\ pc = "parse" /\ args # <<>> /\ Head(args) \in Flag
  /\ flags' = flags \cup {Head(args)}
  /\ args' = Tail(args)
  /\ UNCHANGED <<given, pc, opts, config, signals, exit, lifecycle>>

\* Mutant: the value is looked at again, as an argument.
AfterValueMutant == Tail(args)

AfterValue == Tail(Tail(args))

\* The next argument is the value, whatever it looks like; an option at the
\* very end is ignored.
ParseValue ==
  /\ pc = "parse" /\ args # <<>>
  /\ \E o \in Option :
       /\ Head(args) = ValueOption[o]
       /\ IF Len(args) > 1
            THEN opts' = [opts EXCEPT ![o] = args[2]] /\ args' = AfterValue
            ELSE args' = <<>> /\ UNCHANGED opts
  /\ UNCHANGED <<given, pc, flags, config, signals, exit, lifecycle>>

\* --help and --version end the program there and then.
ParseInfo ==
  /\ pc = "parse" /\ args # <<>> /\ Head(args) \in Info
  /\ End("0")
  /\ UNCHANGED <<given, options, signals, lifecycle>>

\* Any other word is skipped.
ParseOther ==
  /\ pc = "parse" /\ args # <<>>
  /\ Head(args) \notin Flag \cup Info \cup {ValueOption[o] : o \in Option}
  /\ args' = Tail(args)
  /\ UNCHANGED <<given, pc, flags, opts, config, signals, exit, lifecycle>>

\* --fetch-endpoints goes before every command: a detached worker lists what
\* it has found if it does so in two seconds, then the program ends.
FetchEndpoints ==
  /\ pc = "parse" /\ args = <<>> /\ "--fetch-endpoints" \in flags
  /\ End("0")
  /\ UNCHANGED <<given, options, signals, lifecycle>>

------------------------------------------------------------------------
(* The configuration file. *)

\* Mutant: the first value of a key stays, as with map::insert.
StoreMutant(data, leaf) == data @@ (leaf.key :> leaf.value)

\* data_[key] = value.
Store(data, leaf) ==
  [k \in DOMAIN data \cup {leaf.key} |-> IF k = leaf.key THEN leaf.value ELSE data[k]]

\* parseJson() steps over braces and brackets, so all leaves of the file, from
\* whatever object, end up side by side.
ParseFile ==
  LET data[n \in 0..Len(file)] ==
        IF n = 0 THEN <<>> ELSE Store(data[n - 1], file[n])
  IN  data[Len(file)]

GetInt(word) == IF word \in DOMAIN Stoi THEN Stoi[word] ELSE 0

\* What the file has for an option counts where the option still has its
\* initial value.  A port is made a number and a word again.
Merge(data) ==
  [o \in Option |->
     IF o \notin DOMAIN data \cap FileOption \/ opts[o] # Default[o] THEN opts[o]
     ELSE IF o = "port" THEN TextOf[GetInt(data[o])] ELSE data[o]]

\* Logger and WSNet are set up, and a file is read if one was named; one that
\* cannot be opened makes a warning.
ReadFile ==
  /\ pc = "parse" /\ args = <<>> /\ "--fetch-endpoints" \notin flags
  /\ opts' = IF opts.configFile = "" \/ file = Unreadable THEN opts ELSE Merge(ParseFile)
  /\ pc' = "config"
  /\ UNCHANGED <<given, args, flags, config, signals, exit, lifecycle>>

\* 2^16: proxyPort is an uint16_t.
PortLimit == 65536

\* Mutant: the number is taken as it is.
PortMutant(n) == n

Port(n) == n % PortLimit

\* EmergencyConnectProxy::initialize fills in missing credentials, and it
\* fetches the endpoints in every case, since no option brings any: neither
\* --no-auto-fetch nor the file's autoFetchEndpoints matters.
Initialize ==
  /\ pc = "config" /\ opts.port \in DOMAIN Stoi
  /\ config' = [o \in Option |->
                  IF o = "port" THEN Port(Stoi[opts[o]])
                  ELSE IF o \in {"username", "password"} /\ opts[o] = "" THEN "builtin"
                  ELSE opts[o]]
  /\ pc' = "command"
  /\ UNCHANGED <<given, args, flags, opts, signals, exit, lifecycle>>

\* std::stoi throws, and nobody catches it.
BadPort ==
  /\ pc = "config" /\ opts.port \notin DOMAIN Stoi
  /\ End("crash")
  /\ UNCHANGED <<given, options, signals, lifecycle>>

------------------------------------------------------------------------
(* The commands.  The controller's own steps are those of ProxyLifecycle. *)

\* --stop and --status ask the controller of this very run, which does not
\* run; without a command the usage is printed.
OneShot ==
  /\ pc = "command" /\ "--start" \notin flags
  /\ End("0")
  /\ UNCHANGED <<given, options, signals, lifecycle>>

\* Mutant: the handlers are forgotten.
HandleMutant == UNCHANGED handled

Handle == handled' = TRUE

Install ==
  /\ pc = "command" /\ "--start" \in flags
  /\ Handle
  /\ pc' = "start"
  /\ UNCHANGED <<given, options, signalled, asked, exit, lifecycle>>

Start ==
  /\ pc = "start"
  /\ Proxy!Begin
  /\ pc' = "starting"
  /\ UNCHANGED <<given, options, signals, exit>>

\* start() or stop() goes on.
Inside ==
  /\ pc \in {"starting", "stopping"}
  /\ \/ Proxy!OpenSession \/ Proxy!Fail \/ Proxy!Serve
     \/ pc = "starting" /\ Proxy!BeginStop
     \/ Proxy!StopServing \/ Proxy!CloseSession \/ Proxy!Stopped
  /\ UNCHANGED <<given, pc, options, signals, exit>>

\* start() returned true.
Started ==
  /\ pc = "starting" /\ phase = "running"
  /\ pc' = "wait"
  /\ UNCHANGED <<given, options, signals, exit, lifecycle>>

\* Mutant: a start that failed ends like one that succeeded.
FailureMutant == "0"

Failure == "1"

\* It returned false; the destructor's stop() has nothing to do.
NotStarted ==
  /\ pc = "starting" /\ phase = "stopped"
  /\ End(Failure)
  /\ UNCHANGED <<given, options, signals, lifecycle>>

\* g_running is looked at every 200 ms.
Stop ==
  /\ pc = "wait" /\ asked
  /\ Proxy!BeginStop
  /\ pc' = "stopping"
  /\ UNCHANGED <<given, options, signals, exit>>

Stopped ==
  /\ pc = "stopping" /\ phase = "stopped"
  /\ End("0")
  /\ UNCHANGED <<given, options, signals, lifecycle>>

------------------------------------------------------------------------
(* What comes from outside. *)

\* Mutant: g_running is left alone.
AskMutant == UNCHANGED asked

\* handleSignal
Ask == asked' = TRUE

\* SIGINT or SIGTERM: without a handler it ends the program.
Signal ==
  /\ exit = "none"
  /\ signalled' = TRUE
  /\ IF handled
       THEN Ask /\ UNCHANGED <<pc, exit, lifecycle>>
       ELSE Proxy!Die /\ End("signal") /\ UNCHANGED asked
  /\ UNCHANGED <<given, options, handled>>

\* SIGPIPE, an exception in the accept thread, SIGKILL.
Crash ==
  /\ phase # "stopped"
  /\ Proxy!Die /\ End("crash")
  /\ UNCHANGED <<given, options, signals>>

------------------------------------------------------------------------
Step ==
  \/ ParseFlag \/ ParseValue \/ ParseInfo \/ ParseOther \/ FetchEndpoints
  \/ ReadFile \/ Initialize \/ BadPort \/ OneShot \/ Install
  \/ Start \/ Inside \/ Started \/ NotStarted \/ Stop \/ Stopped

Next == Step \/ Signal \/ Crash

Spec == Init /\ [][Next]_vars

\* The thread of main runs; start() and stop() return, which is CallsReturn of
\* EmergencyProxy.
FairSpec == Spec /\ WF_vars(Step)

------------------------------------------------------------------------
(* Properties. *)

OptionsOK ==
  /\ flags \subseteq Flag /\ DOMAIN opts = Option
  /\ config # <<>> => DOMAIN config = Option /\ config.port \in 0..PortLimit - 1

ControlOK ==
  /\ pc \in {"parse", "config", "command", "start", "starting", "wait", "stopping", "end"}
  /\ exit \in {"none", "0", "1", "signal", "crash"}
  /\ exit = "none" <=> pc # "end"
  /\ phase \in {"stopped", "starting", "running", "stopping"}

SwitchesOK ==
  /\ handled \in BOOLEAN /\ signalled \in BOOLEAN /\ asked \in BOOLEAN
  /\ session \in BOOLEAN /\ serving \in BOOLEAN

\* Every variable stays within the values the code gives it, and the port the
\* controller is given fits uint16_t.
TypeOK == OptionsOK /\ ControlOK /\ SwitchesOK

\* Where the command line has an option and not the value of one.
OptionAt ==
  LET at[i \in 1..Len(argv)] ==
        i = 1 \/ ~(at[i - 1] /\ \E o \in Option : argv[i - 1] = ValueOption[o])
  IN {i \in 1..Len(argv) : at[i]}

GivenAt(o) == {i \in OptionAt \ {Len(argv)} : argv[i] = ValueOption[o]}

\* What an option is before the file is read.
Chosen(o) == IF GivenAt(o) = {} THEN BeforeArgs[o] ELSE argv[Max(GivenAt(o)) + 1]

InFile(o) ==
  IF Chosen("configFile") = "" \/ file = Unreadable \/ o = "configFile" THEN {}
  ELSE {i \in DOMAIN file : file[i].key = o}

\* What an option means: the last value on the command line, else the environment's;
\* where that is the built-in value, the last one in the file.
Meant(o) ==
  IF Chosen(o) = Default[o] /\ InFile(o) # {} THEN file[Max(InFile(o))].value ELSE Chosen(o)

\* That is what reaches the controller (main.cpp:59-220).
ConfigMeaning ==
  config # <<>> =>
    \A o \in Option :
      config[o] = IF o = "port" THEN GetInt(Meant(o)) % PortLimit
                  ELSE IF o \in {"username", "password"} /\ Meant(o) = "" THEN "builtin"
                  ELSE Meant(o)

\* SIGINT and SIGTERM never end a program that holds a session or serves
\* clients: it is told to stop instead, so that openvpn, its credentials file
\* and the listener go with it (main.cpp:229-243).
SignalSparesHolder == [][exit' = "signal" => ~session /\ ~serving]_vars

\* After --start, status 0 says that the proxy was stopped because a signal asked
\* for it: a start that fails never ends with it.  Whatever the status, this
\* program holds nothing (main.cpp:232-247).  Of --stop it says no more: that one
\* answers 0 and stops nothing, as the controller of its process never ran
\* (main.cpp:249-252), although README.md:47, 102 offers it to stop the proxy.
ExitTellsTruth ==
  exit \in {"0", "1"} =>
    /\ phase = "stopped" /\ ~session /\ ~serving
    /\ handled => (exit = "0" => asked)

\* A signal ends the program, wherever it is (main.cpp:13-18, 238).
SignalEndsProgram == signalled ~> exit # "none"
=======================================================================
