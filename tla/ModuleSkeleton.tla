--------------------------- MODULE ModuleSkeleton ---------------------------
(* How a module starts and what it serves meanwhile: the main thread reads  *)
(* the command line and the configuration files in initSkeleton, creating   *)
(* the TCP manager, the HTTP server and the file server on its way; their   *)
(* threads accept peers and requests from the moment they are started.      *)
(*                                                                          *)
(* The definitions named ..._Bug are mistakes that the properties detect;   *)
(* they are not part of the model.                                          *)
EXTENDS Naturals, Sequences

CONSTANTS Argvs,      \* command lines, without the name of the program
          Files,      \* names of configuration files
          ConfigOf,   \* [file]: what it says, NULL if it cannot be read
          Ports,
          BusyPorts,  \* ports that other processes listen on
          NULL

\* The entries of a configuration that start something or name a parameter.
Config   == [tcp : Ports \cup {NULL}, http : Ports \cup {NULL}, files : BOOLEAN,
             params : SUBSET {"initialModuleUri", "spawnId"}]
NoConfig == [tcp |-> NULL, http |-> NULL, files |-> FALSE, params |-> {}]

Flags    == {"-c", "--initialModuleUri", "--spawnId"}
Handlers == {"get", "post", "json", "interrupt", "disconnect"}

ASSUME ConfigAssumption == ConfigOf \in [Files -> Config \cup {NULL}]
ASSUME ArgvAssumption   == /\ \A a \in Argvs : a \in Seq(Flags \cup Files \cup {"word"})
                           /\ \A a \in Argvs : \A k \in 2..Len(a) :
                                 a[k - 1] = "-c" => a[k] \in Files
ASSUME NullAssumption   == /\ NULL \notin Ports /\ NULL \notin Config
                           /\ NULL \notin {"argv", "ownUri", "postHandler", "failed"}

VARIABLES
  argv, i,       \* the command line and the next argument
  moduleConfig,  \* the configuration read last
  params,        \* parameters that have a value
  todo,          \* calls of handleConfig the main thread has still to make
  phase,         \* "starting" until initSkeleton returns
  process,       \* "up", or how the process ended
  fault,         \* history: the NULL pointer that ended it
  own_port,      \* port PeerManager listens on
  ownUri,        \* PeerManager::ownUri is set
  tcpPort,       \* TCP port in myUri, NULL for INVALID_PORT_NUM
  daemon,        \* port the HTTP daemon listens on, "failed" if it could not
  httpPort,      \* HTTP port in myUri
  fileServer,    \* the file server exists
  handlers,      \* handlers the program has set
  signals,       \* SetSignalHandler has been called
  lastServed     \* history: the HTTP request answered last, NULL if none

mainVars == <<argv, i, moduleConfig, params, todo, phase>>
tcpVars  == <<own_port, ownUri, tcpPort>>
httpVars == <<daemon, httpPort, fileServer>>
progVars == <<handlers, signals>>
dieVars  == <<process, fault>>
vars     == <<mainVars, tcpVars, httpVars, progVars, dieVars, lastServed>>

Init ==
  /\ argv \in Argvs /\ i = 1
  /\ moduleConfig = NoConfig /\ params = {}
  /\ todo = << >>
  /\ phase = "starting"
  /\ process = "up" /\ fault = NULL
  /\ own_port = NULL /\ ownUri = FALSE /\ tcpPort = NULL
  /\ daemon = NULL /\ httpPort = NULL /\ fileServer = FALSE
  /\ handlers = {} /\ signals \in BOOLEAN
  /\ lastServed = NULL

-----------------------------------------------------------------------------
\* A signal ends the process; SignalHandler calls the interrupt handler first
\* and reports success.
Signalled == process' = IF signals THEN "exit(0)" ELSE "killed"

Segfault(what) ==
  /\ Signalled
  /\ fault' = what
  /\ UNCHANGED <<mainVars, tcpVars, httpVars, progVars, lastServed>>

Main == process = "up" /\ phase = "starting"

Call(op, port) == [op |-> op, port |-> port]

handleConfig_Bug(c) ==
    (IF c.tcp = NULL THEN << >>
     ELSE <<Call("PeerManager", c.tcp), Call("SetTcpPort", c.tcp)>>)
  \o (IF c.http = NULL THEN << >>
      ELSE <<Call("HTTPServer", c.http), Call("SetHttpPort", c.http)>>)

\* The calls of handleConfig, in order.
handleConfig(c) ==
    (IF c.tcp = NULL THEN << >>
     ELSE <<Call("PeerManager", c.tcp), Call("SetTcpPort", c.tcp)>>)
  \o (IF c.http = NULL THEN << >>
      ELSE <<Call("HTTPServer", c.http), Call("SetHttpPort", c.http)>>)
  \o (IF c.files THEN <<Call("FileServer", NULL)>> ELSE << >>)

-----------------------------------------------------------------------------
(* The loop over the arguments.                                             *)

AtArgument == Main /\ todo = << >> /\ i <= Len(argv)

\* The last argument is a flag: "i++ < argc" holds all the same, and
\* argv[argc] is NULL.
FlagWithoutValue ==
  /\ AtArgument
  /\ argv[i] \in Flags /\ i = Len(argv)
  /\ Segfault("argv")

\* A file that cannot be read leaves the configuration as it was, and
\* handleConfig works through it once more.
ConfigFlag ==
  /\ AtArgument
  /\ argv[i] = "-c" /\ i < Len(argv)
  /\ LET read == ConfigOf[argv[i + 1]]
         c    == IF read = NULL THEN moduleConfig ELSE read
     IN  /\ moduleConfig' = c
         /\ params' = params \cup {"configFilename"} \cup c.params
         /\ todo' = handleConfig(c)
  /\ i' = i + 2
  /\ UNCHANGED <<argv, phase, tcpVars, httpVars, progVars, dieVars, lastServed>>

ParameterFlag ==
  /\ AtArgument
  /\ argv[i] \in Flags \ {"-c"} /\ i < Len(argv)
  /\ params' = params \cup {IF argv[i] = "--spawnId" THEN "spawnId" ELSE "initialModuleUri"}
  /\ i' = i + 2
  /\ UNCHANGED <<argv, moduleConfig, todo, phase, tcpVars, httpVars, progVars, dieVars, lastServed>>

UnknownArgument ==
  /\ AtArgument
  /\ argv[i] \notin Flags
  /\ i' = i + 1
  /\ UNCHANGED <<argv, moduleConfig, params, todo, phase, tcpVars, httpVars, progVars,
                 dieVars, lastServed>>

\* What is missing is only logged.
InitReturns ==
  /\ Main /\ todo = << >> /\ i > Len(argv)
  /\ phase' = "running"
  /\ UNCHANGED <<argv, i, moduleConfig, params, todo, tcpVars, httpVars, progVars, dieVars,
                 lastServed>>

-----------------------------------------------------------------------------
(* The calls of handleConfig.                                               *)

Doing(op) == Main /\ todo # << >> /\ Head(todo).op = op

\* The call is over; calls, if any, come before those still to make.
Done(calls) == todo' = calls \o Tail(todo) /\ UNCHANGED <<argv, i, moduleConfig, params, phase>>

\* PeerManager::GetInstance and initOwnSocket: bind, then start the threads.
initOwnSocket ==
  /\ Doing("PeerManager")
  /\ own_port = NULL /\ Head(todo).port \notin BusyPorts
  /\ own_port' = Head(todo).port
  /\ Done(<<Call("ownUri", NULL)>>)
  /\ UNCHANGED <<ownUri, tcpPort, httpVars, progVars, dieVars, lastServed>>

\* "ERROR on binding to por!"
BindFails ==
  /\ Doing("PeerManager")
  /\ own_port = NULL /\ Head(todo).port \in BusyPorts
  /\ process' = "exit(1)"
  /\ UNCHANGED <<mainVars, tcpVars, httpVars, progVars, fault, lastServed>>

AlreadyCreated ==
  /\ \/ Doing("PeerManager") /\ own_port # NULL
     \/ Doing("HTTPServer") /\ daemon # NULL
  /\ Done(<< >>)
  /\ UNCHANGED <<tcpVars, httpVars, progVars, dieVars, lastServed>>

SetOwnUri_Bug ==
  /\ Doing("ownUri")
  /\ Done(<< >>)
  /\ UNCHANGED <<tcpVars, httpVars, progVars, dieVars, lastServed>>

\* singleton->ownUri = uri, when the threads already run.
SetOwnUri ==
  /\ Doing("ownUri")
  /\ ownUri' = TRUE
  /\ Done(<< >>)
  /\ UNCHANGED <<own_port, tcpPort, httpVars, progVars, dieVars, lastServed>>

SetTcpPort_Bug ==
  /\ Doing("SetTcpPort")
  /\ Done(<< >>)
  /\ UNCHANGED <<tcpVars, httpVars, progVars, dieVars, lastServed>>

\* createTcpPeerManager: peers, its JSON handler, and the port in myUri.
SetTcpPort ==
  /\ Doing("SetTcpPort")
  /\ tcpPort' = Head(todo).port
  /\ Done(<< >>)
  /\ UNCHANGED <<own_port, ownUri, httpVars, progVars, dieVars, lastServed>>

\* HTTPServer::GetInstance; a daemon that does not start is only logged.
StartDaemon ==
  /\ Doing("HTTPServer")
  /\ daemon = NULL
  /\ daemon' = IF Head(todo).port \in BusyPorts \cup {own_port} THEN "failed"
               ELSE Head(todo).port
  /\ Done(<< >>)
  /\ UNCHANGED <<tcpVars, httpPort, fileServer, progVars, dieVars, lastServed>>

SetHttpPort ==
  /\ Doing("SetHttpPort")
  /\ httpPort' = Head(todo).port
  /\ Done(<< >>)
  /\ UNCHANGED <<tcpVars, daemon, fileServer, progVars, dieVars, lastServed>>

createFileServer ==
  /\ Doing("FileServer")
  /\ fileServer' = TRUE
  /\ Done(<< >>)
  /\ UNCHANGED <<tcpVars, daemon, httpPort, progVars, dieVars, lastServed>>

-----------------------------------------------------------------------------
(* The program, after initSkeleton (signals: at any time).                  *)

\* The disconnect handler is kept by PeerManager, if there is one.
SetHandler(h) ==
  /\ process = "up" /\ phase = "running"
  /\ handlers' = IF h = "disconnect" /\ tcpPort = NULL THEN handlers ELSE handlers \cup {h}
  /\ UNCHANGED <<mainVars, tcpVars, httpVars, signals, dieVars, lastServed>>

SetSignalHandler ==
  /\ process = "up" /\ ~signals
  /\ signals' = TRUE
  /\ UNCHANGED <<mainVars, tcpVars, httpVars, handlers, dieVars, lastServed>>

Signal ==
  /\ process = "up"
  /\ Signalled
  /\ UNCHANGED <<mainVars, tcpVars, httpVars, progVars, fault, lastServed>>

-----------------------------------------------------------------------------
(* The threads that serve others.                                           *)

\* waitForPeers: the first thing a new peer gets is *ownUri.
AcceptBeforeUri ==
  /\ process = "up"
  /\ own_port # NULL /\ ~ownUri
  /\ Segfault("ownUri")

Serving == process = "up" /\ daemon \in Ports

Answer(method, url, result) ==
  /\ lastServed' = [method |-> method, url |-> url, answer |-> result, at |-> phase,
                     handlers |-> handlers]
  /\ UNCHANGED <<mainVars, tcpVars, httpVars, progVars, dieVars>>

\* A URL is inside the subdomain of the file server ("file") or not.
handleGet(url) ==
  /\ Serving
  /\ Answer("GET", url, IF fileServer /\ url = "file" THEN "file"
                        ELSE IF "get" \in handlers THEN "handler"
                        ELSE "NOT_IMPLEMENTED")

handlePost ==
  /\ Serving
  /\ "get" \in handlers => "post" \in handlers
  /\ Answer("POST", "other", IF "get" \in handlers THEN "handler" ELSE "NOT_IMPLEMENTED")

\* handlePost tests getHandler and calls postHandler.
PostWithoutHandler ==
  /\ Serving
  /\ "get" \in handlers /\ "post" \notin handlers
  /\ Segfault("postHandler")

-----------------------------------------------------------------------------
MainStep ==
  \/ FlagWithoutValue \/ ConfigFlag \/ ParameterFlag \/ UnknownArgument \/ InitReturns
  \/ initOwnSocket \/ BindFails \/ AlreadyCreated \/ SetOwnUri \/ SetTcpPort
  \/ StartDaemon \/ SetHttpPort \/ createFileServer

Next ==
  \/ MainStep
  \/ \E h \in Handlers : SetHandler(h)
  \/ SetSignalHandler \/ Signal
  \/ AcceptBeforeUri
  \/ \E url \in {"file", "other"} : handleGet(url)
  \/ handlePost \/ PostWithoutHandler

Spec == Init /\ [][Next]_vars

-----------------------------------------------------------------------------
Ops == {"PeerManager", "ownUri", "SetTcpPort", "HTTPServer", "SetHttpPort", "FileServer"}

Served == [method : {"GET", "POST"}, url : {"file", "other"},
           answer : {"file", "handler", "NOT_IMPLEMENTED"},
           at : {"starting", "running"}, handlers : SUBSET Handlers]

\* The type of every variable (ModuleSkeleton.h:35-70).
TypeOK ==
  /\ argv \in Argvs /\ i \in 1..Len(argv) + 1
  /\ moduleConfig \in Config
  /\ params \subseteq {"configFilename", "initialModuleUri", "spawnId"}
  /\ todo \in Seq([op : Ops, port : Ports \cup {NULL}])
  /\ phase \in {"starting", "running"}
  /\ process \in {"up", "exit(0)", "exit(1)", "killed"}
  /\ fault \in {NULL, "argv", "ownUri", "postHandler"}
  /\ own_port \in Ports \cup {NULL} /\ ownUri \in BOOLEAN /\ tcpPort \in Ports \cup {NULL}
  /\ daemon \in Ports \cup {NULL, "failed"} /\ httpPort \in Ports \cup {NULL}
  /\ fileServer \in BOOLEAN
  /\ handlers \subseteq Handlers /\ signals \in BOOLEAN
  /\ lastServed \in Served \cup {NULL}

\* The configurations the command line names.
ConfigsNamed == {ConfigOf[argv[k + 1]] : k \in {j \in 1..Len(argv) - 1 : argv[j] = "-c"}} \ {NULL}

\* Once initSkeleton has returned, the address the module gives to its peers
\* is the one it listens on, if it was given one configuration, however often
\* it is worked through (ModuleSkeleton.cpp:140-155); only a daemon that could
\* not start leaves its port in the address.
UriTruthful ==
  phase = "running" /\ (\A c, d \in ConfigsNamed : c = d) =>
     /\ tcpPort = own_port
     /\ httpPort = daemon \/ daemon = "failed"

\* A peer may find a manager that does not know its own address only while
\* the main thread is inside initSkeleton: GetInstance starts the accepting
\* thread before it stores the address (PeerManager.cpp:74-81).
UriKnownWhenRunning == fault = "ownUri" => phase = "starting"

\* From the return of initSkeleton on, a file of a configured file server is
\* served by it and not by the program (ModuleSkeleton.cpp:162-175), although
\* the HTTP server answers before the file server exists.
FilesServed ==
  lastServed # NULL => LET r == lastServed IN
     r.method = "GET" /\ r.url = "file" /\ r.at = "running" /\ moduleConfig.files
        => r.answer = "file"

\* "waiting for peers...": a manager that accepts peers knows its own address.
ReadyWhenWaiting == fault # "ownUri"
=============================================================================
