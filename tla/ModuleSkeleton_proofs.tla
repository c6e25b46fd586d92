------------------------ MODULE ModuleSkeleton_proofs ------------------------
(* Proofs about the start of a module, for every command line, every set of *)
(* configuration files and every port, and about the start of its children, *)
(* for any modules, children and numbers.                                   *)
EXTENDS ModuleSkeleton, Spawn, SequenceTheorems, TLAPS

Calls == [op : Ops, port : Ports \cup {NULL}]

USE DEF mainVars, tcpVars, httpVars, progVars, dieVars, Main, Doing, AtArgument

-----------------------------------------------------------------------------
(* What the calls still to make say.                                        *)

\* initSkeleton returns with nothing left to do.
NothingLeft == phase = "running" => todo = << >>

\* A manager that accepts peers and does not know its address is about to be
\* told it: nothing comes between.
UriIsNext == own_port # NULL /\ ~ownUri => todo # << >> /\ Head(todo).op = "ownUri"

\* A file server that the configuration asks for exists or is still to come.
FilesToCome == moduleConfig.files /\ ~fileServer =>
                 \E k \in DOMAIN todo : todo[k].op = "FileServer"

\* Nothing happens after the end of the process.
FaultIsLast == /\ fault # NULL => process # "up"
               /\ UriKnownWhenRunning

StartInv == /\ TypeOK /\ NothingLeft /\ UriIsNext /\ FilesToCome /\ FaultIsLast
            /\ FilesServed
            /\ lastServed # NULL /\ lastServed.at = "running" => phase = "running"

LEMMA ConfigCalls ==
  ASSUME NEW c \in Config
  PROVE  /\ handleConfig(c) \in Seq(Calls)
         /\ c.files => \E k \in DOMAIN handleConfig(c) : handleConfig(c)[k].op = "FileServer"
<1> DEFINE T == IF c.tcp = NULL THEN << >>
                ELSE <<Call("PeerManager", c.tcp), Call("SetTcpPort", c.tcp)>>
           H == IF c.http = NULL THEN << >>
                ELSE <<Call("HTTPServer", c.http), Call("SetHttpPort", c.http)>>
           F == IF c.files THEN <<Call("FileServer", NULL)>> ELSE << >>
<1>1. c.tcp \in Ports \cup {NULL} /\ c.http \in Ports \cup {NULL}
  BY DEF Config
<1>2. T \in Seq(Calls) /\ H \in Seq(Calls) /\ F \in Seq(Calls)
  <2>1. \A p \in Ports \cup {NULL}, o \in Ops : Call(o, p) \in Calls
    BY DEF Call, Calls
  <2>2. /\ {"PeerManager", "SetTcpPort", "HTTPServer", "SetHttpPort", "FileServer"} \subseteq Ops
        /\ NULL \in Ports \cup {NULL}
    BY DEF Ops
  <2>3. \A x, y \in Calls : <<x, y>> \in Seq(Calls) /\ <<x>> \in Seq(Calls)
    OBVIOUS
  <2>4. << >> \in Seq(Calls)
    OBVIOUS
  <2>5. T \in Seq(Calls)
    BY <1>1, <2>1, <2>2, <2>3, <2>4, Zenon
  <2>6. H \in Seq(Calls)
    BY <1>1, <2>1, <2>2, <2>3, <2>4, Zenon
  <2>7. F \in Seq(Calls)
    BY <2>1, <2>2, <2>3, <2>4, Zenon
  <2> QED
    BY <2>5, <2>6, <2>7
<1>3. c.files => Len(F) = 1 /\ F[1].op = "FileServer"
  BY DEF Call
<1>4. handleConfig(c) = (T \o H) \o F
  BY DEF handleConfig
<1> HIDE DEF T, H, F
<1>5. T \o H \in Seq(Calls) /\ (T \o H) \o F \in Seq(Calls)
  BY <1>2, ConcatProperties
<1>6. ASSUME c.files
      PROVE  \E k \in DOMAIN handleConfig(c) : handleConfig(c)[k].op = "FileServer"
  <2> DEFINE s == T \o H
  <2>1. s \in Seq(Calls) /\ Len(s) \in Nat
    BY <1>5
  <2> HIDE DEF s
  <2>2. Len(s \o F) = Len(s) + 1 /\ (s \o F)[Len(s) + 1] = F[1]
    <3>1. F \in Seq(Calls) /\ Len(F) = 1
      BY <1>2, <1>3, <1>6
    <3>2. Len(s \o F) = Len(s) + Len(F)
      BY <2>1, <3>1, ConcatProperties
    <3>3. (s \o F)[Len(s) + 1] = F[(Len(s) + 1) - Len(s)]
      <4>1. Len(s) + 1 \in 1..Len(s) + Len(F) /\ ~(Len(s) + 1 <= Len(s))
        BY <2>1, <3>1
      <4> QED
        BY <2>1, <3>1, <4>1, ConcatProperties
    <3>4. (Len(s) + 1) - Len(s) = 1
      BY <2>1
    <3> QED
      BY <3>1, <3>2, <3>3, <3>4
  <2>3. Len(s) + 1 \in DOMAIN (s \o F)
    BY <1>2, <2>1, <2>2
  <2> QED
    BY <1>3, <1>4, <1>6, <2>2, <2>3 DEF s
<1> QED
  BY <1>4, <1>5, <1>6

\* Done puts further calls, at most one, before those still to make.
LEMMA DoneCalls ==
  ASSUME TypeOK, todo # << >>, NEW s, s = << >> \/ (\E c \in Calls : s = <<c>>), Done(s)
  PROVE  /\ todo' \in Seq(Calls)
         /\ s # << >> => todo' # << >> /\ Head(todo') = s[1]
         /\ \A k \in DOMAIN todo : k # 1 => \E j \in DOMAIN todo' : todo'[j] = todo[k]
<1>1. todo \in Seq(Calls) /\ Tail(todo) \in Seq(Calls) /\ Len(Tail(todo)) = Len(todo) - 1
  BY DEF TypeOK, Calls
<1>2. \A k \in DOMAIN todo : k # 1 =>
         k - 1 \in 1..Len(Tail(todo)) /\ Tail(todo)[k - 1] = todo[k]
  BY <1>1
<1>3. CASE s = << >>
  <2>1. todo' = Tail(todo)
    BY <1>1, <1>3, ConcatEmptySeq DEF Done
  <2>2. todo' \in Seq(Calls)
    BY <1>1, <2>1
  <2>3. ASSUME NEW k \in DOMAIN todo, k # 1
        PROVE  \E j \in DOMAIN todo' : todo'[j] = todo[k]
    <3>1. k - 1 \in DOMAIN todo' /\ todo'[k - 1] = todo[k]
      BY <1>1, <1>2, <2>1, <2>3
    <3> QED
      BY <3>1
  <2> QED
    BY <1>3, <2>2, <2>3
<1>4. ASSUME NEW c \in Calls, s = <<c>>
      PROVE  /\ todo' \in Seq(Calls)
             /\ todo' # << >> /\ Head(todo') = c
             /\ \A k \in DOMAIN todo : k # 1 => \E j \in DOMAIN todo' : todo'[j] = todo[k]
  <2> DEFINE r == Tail(todo)
  <2>1. r \in Seq(Calls) /\ <<c>> \in Seq(Calls)
    BY <1>1
  <2>2. todo' = <<c>> \o r
    BY <1>4 DEF Done
  <2>3. \A k \in DOMAIN todo : k # 1 => k - 1 \in 1..Len(r) /\ r[k - 1] = todo[k]
    BY <1>2
  <2> HIDE DEF r
  <2>4. /\ todo' \in Seq(Calls) /\ Len(todo') = Len(r) + 1
        /\ todo'[1] = c
        /\ \A j \in 1..Len(r) : todo'[j + 1] = r[j]
    BY <2>1, <2>2
  <2>5. \A k \in DOMAIN todo : k # 1 => k \in DOMAIN todo' /\ todo'[k] = todo[k]
    <3> SUFFICES ASSUME NEW k \in DOMAIN todo, k # 1
                 PROVE  k \in DOMAIN todo' /\ todo'[k] = todo[k]
      OBVIOUS
    <3>1. k \in Nat /\ k - 1 \in 1..Len(r) /\ r[k - 1] = todo[k]
      BY <1>1, <2>3
    <3>2. todo'[(k - 1) + 1] = r[k - 1] /\ (k - 1) + 1 = k
      BY <2>4, <3>1
    <3> QED
      BY <2>1, <2>4, <3>1, <3>2
  <2> QED
    BY <2>4, <2>5
<1> QED
  BY <1>3, <1>4

-----------------------------------------------------------------------------
LEMMA StartInit == Init => StartInv
<1> SUFFICES ASSUME Init
             PROVE  StartInv
  OBVIOUS
<1>1. Len(argv) \in Nat /\ 1 \in 1..Len(argv) + 1
  BY ArgvAssumption DEF Init
<1>2. NoConfig \in Config
  BY DEF NoConfig, Config
<1>3. TypeOK
  <2>1. argv \in Argvs /\ i \in 1..Len(argv) + 1 /\ moduleConfig \in Config
    BY <1>1, <1>2 DEF Init
  <2>2. todo \in Seq([op : Ops, port : Ports \cup {NULL}])
    BY DEF Init
  <2>3. /\ params = {} /\ phase = "starting" /\ process = "up" /\ fault = NULL
        /\ own_port = NULL /\ ownUri = FALSE /\ tcpPort = NULL
        /\ daemon = NULL /\ httpPort = NULL /\ fileServer = FALSE
        /\ handlers = {} /\ signals \in BOOLEAN /\ lastServed = NULL
    BY DEF Init
  <2> QED
    BY <2>1, <2>2, <2>3 DEF TypeOK
<1>4. fault # "ownUri"
  BY NullAssumption DEF Init
<1> QED
  BY <1>3, <1>4 DEF Init, StartInv, NothingLeft, UriIsNext, FilesToCome, FaultIsLast,
                   UriKnownWhenRunning, FilesServed, NoConfig

\* The main thread at its next argument: nothing is left to do, so that the
\* manager, if there is one, knows its address.
LEMMA ArgumentStep ==
  ASSUME StartInv, ConfigFlag \/ ParameterFlag \/ UnknownArgument \/ InitReturns
  PROVE  StartInv'
<1> USE DEF StartInv
<1>1. Len(argv) \in Nat /\ i \in 1..Len(argv) + 1 /\ argv \in Argvs
  BY ArgvAssumption DEF TypeOK
<1>2. CASE ConfigFlag
  <2> DEFINE read == ConfigOf[argv[i + 1]]
             c    == IF read = NULL THEN moduleConfig ELSE read
  <2>1. i + 1 \in 2..Len(argv) /\ argv[(i + 1) - 1] = "-c"
    BY <1>1, <1>2 DEF ConfigFlag
  <2>2. argv[i + 1] \in Files
    BY <1>1, <2>1, ArgvAssumption
  <2>3. c \in Config
    BY <2>2, ConfigAssumption DEF TypeOK
  <2>4. /\ moduleConfig' = c /\ todo' = handleConfig(c)
        /\ params' = params \cup {"configFilename"} \cup c.params
        /\ i' = i + 2 /\ todo = << >>
        /\ UNCHANGED <<argv, phase, own_port, ownUri, tcpPort, daemon, httpPort, fileServer,
                       handlers, signals, process, fault, lastServed>>
        /\ phase = "starting"
    BY <1>2 DEF ConfigFlag
  <2> HIDE DEF c
  <2>5. TypeOK'
    <3>1. i' \in 1..Len(argv') + 1
      BY <1>1, <2>1, <2>4
    <3>2. c.params \subseteq {"initialModuleUri", "spawnId"}
      BY <2>3 DEF Config
    <3>3. todo' \in Seq([op : Ops, port : Ports \cup {NULL}])
      BY <2>3, <2>4, ConfigCalls DEF Calls
    <3> QED
      <4>1. /\ argv' \in Argvs /\ i' \in 1..Len(argv') + 1 /\ moduleConfig' \in Config
            /\ params' \subseteq {"configFilename", "initialModuleUri", "spawnId"}
            /\ todo' \in Seq([op : Ops, port : Ports \cup {NULL}])
        BY <1>1, <2>3, <2>4, <3>1, <3>2, <3>3 DEF TypeOK
      <4> QED
        BY <2>4, <4>1 DEF TypeOK
  <2>6. FilesToCome'
    BY <2>3, <2>4, ConfigCalls DEF FilesToCome
  <2>7. FilesServed'
    BY <2>4 DEF FilesServed
  <2> QED
    BY <2>4, <2>5, <2>6, <2>7 DEF NothingLeft, UriIsNext, FaultIsLast, UriKnownWhenRunning
<1>3. CASE ParameterFlag \/ UnknownArgument
  <2>1. i' \in 1..Len(argv) + 1
    BY <1>1, <1>3 DEF ParameterFlag, UnknownArgument
  <2>2. TypeOK'
    BY <1>3, <2>1 DEF ParameterFlag, UnknownArgument, TypeOK
  <2> QED
    BY <1>3, <2>2 DEF ParameterFlag, UnknownArgument, NothingLeft, UriIsNext, FilesToCome,
                      FaultIsLast, UriKnownWhenRunning, FilesServed
<1>4. CASE InitReturns
  <2>1. TypeOK'
    BY <1>4 DEF InitReturns, TypeOK
  <2> QED
    BY <1>4, <2>1, NullAssumption DEF InitReturns, NothingLeft, UriIsNext, FilesToCome, FaultIsLast,
                      UriKnownWhenRunning, FilesServed
<1> QED
  BY <1>2, <1>3, <1>4

\* What a call of handleConfig leaves alone by being over.
LEMMA AfterCall ==
  ASSUME StartInv, Main, todo # << >>, NEW s,
         s = << >> \/ (\E c \in Calls : s = <<c>>), Done(s),
         UNCHANGED <<process, fault, lastServed>>,
         fileServer' = fileServer \/ fileServer' = TRUE,
         Head(todo).op = "FileServer" => fileServer' = TRUE
  PROVE  /\ todo' \in Seq(Calls) /\ NothingLeft' /\ FilesToCome' /\ FaultIsLast'
         /\ FilesServed'
         /\ UNCHANGED <<argv, i, moduleConfig, params, phase>> /\ phase = "starting"
         /\ lastServed # NULL => lastServed.at # "running"
<1> USE DEF StartInv
<1>1. TypeOK /\ todo \in Seq(Calls) /\ Head(todo) = todo[1]
  BY DEF TypeOK, Calls
<1>2. /\ todo' \in Seq(Calls)
      /\ \A k \in DOMAIN todo : k # 1 => \E j \in DOMAIN todo' : todo'[j] = todo[k]
  BY <1>1, DoneCalls
<1>3. UNCHANGED <<argv, i, moduleConfig, params, phase>> /\ phase = "starting"
  BY DEF Done
<1>4. FilesToCome'
  <2> SUFFICES ASSUME moduleConfig.files, ~fileServer'
               PROVE  \E k \in DOMAIN todo' : todo'[k].op = "FileServer"
    BY <1>3 DEF FilesToCome
  <2>1. ~fileServer /\ Head(todo).op # "FileServer"
    OBVIOUS
  <2>2. PICK k \in DOMAIN todo : todo[k].op = "FileServer"
    BY <2>1 DEF FilesToCome
  <2> QED
    BY <1>1, <1>2, <2>1, <2>2
<1> QED
  BY <1>2, <1>3, <1>4 DEF NothingLeft, FaultIsLast, UriKnownWhenRunning, FilesServed

\* A call of handleConfig: only the start of the manager leaves one that does
\* not know its address, and puts the call that tells it first.
LEMMA CallStep ==
  ASSUME StartInv,
         \/ initOwnSocket \/ BindFails \/ AlreadyCreated \/ SetOwnUri \/ SetTcpPort
         \/ StartDaemon \/ SetHttpPort \/ createFileServer
  PROVE  StartInv'
<1> USE DEF StartInv
<1>1. TypeOK /\ (todo # << >> => Head(todo) \in Calls)
  <2>1. todo \in Seq(Calls)
    BY DEF TypeOK, Calls
  <2> QED
    BY <2>1, HeadTailProperties
<1>2. CASE initOwnSocket
  <2> DEFINE s == <<Call("ownUri", NULL)>>
  <2>1. Call("ownUri", NULL) \in Calls
    BY DEF Call, Calls, Ops
  <2>2. s # << >> /\ s[1] = Call("ownUri", NULL) /\ (\E c \in Calls : s = <<c>>)
    BY <2>1
  <2>3. Done(s) /\ Main /\ todo # << >> /\ Head(todo).op # "FileServer"
    BY <1>2 DEF initOwnSocket
  <2>4. /\ own_port' = Head(todo).port
        /\ UNCHANGED <<ownUri, tcpPort, daemon, httpPort, fileServer, handlers, signals,
                       process, fault, lastServed>>
    BY <1>2 DEF initOwnSocket
  <2> HIDE DEF s
  <2>5. todo' # << >> /\ Head(todo') = Call("ownUri", NULL)
    BY <1>1, <2>2, <2>3, DoneCalls
  <2>6. UriIsNext'
    BY <2>5 DEF UriIsNext, Call
  <2>7. /\ todo' \in Seq(Calls) /\ NothingLeft' /\ FilesToCome' /\ FaultIsLast'
        /\ FilesServed'
        /\ UNCHANGED <<argv, i, moduleConfig, params, phase>>
        /\ lastServed # NULL => lastServed.at # "running"
    BY <2>2, <2>3, <2>4, AfterCall
  <2>8. own_port' \in Ports \cup {NULL}
    BY <1>1, <2>3, <2>4 DEF Calls
  <2>9. TypeOK'
    BY <1>1, <2>4, <2>7, <2>8 DEF TypeOK, Calls
  <2> QED
    BY <2>4, <2>6, <2>7, <2>9
<1>3. CASE BindFails
  <2>1. TypeOK'
    BY <1>3 DEF BindFails, TypeOK
  <2> QED
    BY <1>3, <2>1 DEF BindFails, NothingLeft, UriIsNext, FilesToCome, FaultIsLast,
                      UriKnownWhenRunning, FilesServed
<1>4. CASE AlreadyCreated \/ SetOwnUri \/ SetTcpPort \/ StartDaemon \/ SetHttpPort
             \/ createFileServer
  <2>1. Done(<< >>) /\ Main /\ todo # << >>
    BY <1>4 DEF AlreadyCreated, SetOwnUri, SetTcpPort, StartDaemon, SetHttpPort,
                createFileServer
  <2>2. /\ UNCHANGED <<own_port, handlers, signals, process, fault, lastServed>>
        /\ ownUri' = ownUri \/ ownUri' = TRUE
        /\ Head(todo).op # "ownUri" \/ ownUri' = TRUE
    BY <1>4 DEF AlreadyCreated, SetOwnUri, SetTcpPort, StartDaemon, SetHttpPort,
                createFileServer
  <2>3. /\ fileServer' = fileServer \/ fileServer' = TRUE
        /\ Head(todo).op = "FileServer" => fileServer' = TRUE
    BY <1>4 DEF AlreadyCreated, SetOwnUri, SetTcpPort, StartDaemon, SetHttpPort,
                createFileServer
  <2>4. /\ todo' \in Seq(Calls) /\ NothingLeft' /\ FilesToCome' /\ FaultIsLast'
        /\ FilesServed'
        /\ UNCHANGED <<argv, i, moduleConfig, params, phase>>
        /\ lastServed # NULL => lastServed.at # "running"
    BY <2>1, <2>2, <2>3, AfterCall
  <2>5. UriIsNext'
    BY <2>1, <2>2 DEF UriIsNext
  <2>6. tcpPort' \in Ports \cup {NULL} /\ httpPort' \in Ports \cup {NULL}
    BY <1>1, <1>4, <2>1 DEF TypeOK, Calls, AlreadyCreated, SetOwnUri, SetTcpPort, StartDaemon,
                            SetHttpPort, createFileServer
  <2>7. daemon' \in Ports \cup {NULL, "failed"}
    BY <1>1, <1>4, <2>1 DEF TypeOK, Calls, AlreadyCreated, SetOwnUri, SetTcpPort, StartDaemon,
                            SetHttpPort, createFileServer
  <2>8. ownUri' \in BOOLEAN /\ fileServer' \in BOOLEAN
    BY <2>2, <2>3 DEF TypeOK
  <2>9. TypeOK'
    BY <2>2, <2>4, <2>6, <2>7, <2>8 DEF TypeOK, Calls
  <2> QED
    BY <2>2, <2>4, <2>5, <2>9
<1> QED
  BY <1>2, <1>3, <1>4

\* The program, a signal, and the threads that serve others.
LEMMA OtherStep ==
  ASSUME StartInv,
         \/ FlagWithoutValue \/ AcceptBeforeUri \/ PostWithoutHandler
         \/ \E h \in Handlers : SetHandler(h)
         \/ SetSignalHandler \/ Signal
         \/ \E url \in {"file", "other"} : handleGet(url)
         \/ handlePost
  PROVE  StartInv'
<1> USE DEF StartInv
<1>1. ASSUME NEW what \in {"argv", "ownUri", "postHandler"}, Segfault(what), process = "up",
             what = "ownUri" => own_port # NULL /\ ~ownUri
      PROVE  StartInv'
  <2>1. TypeOK'
    BY <1>1 DEF Segfault, Signalled, TypeOK
  <2>2. FaultIsLast'
    BY <1>1 DEF Segfault, Signalled, FaultIsLast, UriKnownWhenRunning, UriIsNext, NothingLeft,
                TypeOK
  <2> QED
    BY <1>1, <2>1, <2>2 DEF Segfault, NothingLeft, UriIsNext, FilesToCome, FilesServed
<1>2. CASE FlagWithoutValue \/ AcceptBeforeUri \/ PostWithoutHandler
  BY <1>1, <1>2 DEF FlagWithoutValue, AcceptBeforeUri, PostWithoutHandler, Serving
<1>3. CASE (\E h \in Handlers : SetHandler(h)) \/ SetSignalHandler \/ Signal
  <2>1. TypeOK'
    BY <1>3 DEF SetHandler, SetSignalHandler, Signal, Signalled, TypeOK
  <2> QED
    BY <1>3, <2>1 DEF SetHandler, SetSignalHandler, Signal, Signalled, NothingLeft, UriIsNext,
                      FilesToCome, FaultIsLast, UriKnownWhenRunning, FilesServed
<1>4. ASSUME NEW method \in {"GET", "POST"}, NEW url \in {"file", "other"},
             NEW result \in {"file", "handler", "NOT_IMPLEMENTED"},
             Answer(method, url, result),
             method = "GET" /\ url = "file" /\ fileServer => result = "file"
      PROVE  StartInv'
  <2> DEFINE r == [method |-> method, url |-> url, answer |-> result, at |-> phase,
                   handlers |-> handlers]
  <2>1. r \in Served
    BY DEF Served, TypeOK
  <2>2. /\ lastServed' = r
        /\ UNCHANGED <<argv, i, moduleConfig, params, todo, phase, own_port, ownUri, tcpPort,
                       daemon, httpPort, fileServer, handlers, signals, process, fault>>
    BY <1>4 DEF Answer
  <2>3. /\ r.method = method /\ r.url = url /\ r.at = phase /\ r.answer = result
    OBVIOUS
  <2> HIDE DEF r
  <2>4. TypeOK'
    BY <2>1, <2>2 DEF TypeOK
  <2>5. phase = "running" /\ moduleConfig.files => fileServer
    BY DEF NothingLeft, FilesToCome
  <2>6. FilesServed'
    BY <1>4, <2>2, <2>3, <2>5 DEF FilesServed
  <2> QED
    BY <2>2, <2>3, <2>4, <2>6 DEF NothingLeft, UriIsNext, FilesToCome, FaultIsLast,
                                  UriKnownWhenRunning
<1>5. CASE handlePost \/ (\E url \in {"file", "other"} : handleGet(url))
  BY <1>4, <1>5 DEF handlePost, handleGet
<1> QED
  BY <1>2, <1>3, <1>5

-----------------------------------------------------------------------------
LEMMA StartStep == StartInv /\ [Next]_vars => StartInv'
<1> SUFFICES ASSUME StartInv, [Next]_vars
             PROVE  StartInv'
  OBVIOUS
<1>1. CASE UNCHANGED vars
  BY <1>1 DEF vars, StartInv, TypeOK, NothingLeft, UriIsNext, FilesToCome, FaultIsLast,
              UriKnownWhenRunning, FilesServed
<1>2. CASE Next
  BY <1>2, ArgumentStep, CallStep, OtherStep DEF Next, MainStep
<1> QED
  BY <1>1, <1>2

\* The strengthening, in every reachable state.
THEOREM StartInvariant == Spec => []StartInv
  BY StartInit, StartStep, PTL DEF Spec

\* The variables keep their types, for every command line and configuration.
THEOREM TypeCorrect == Spec => []TypeOK
<1>1. StartInv => TypeOK
  BY DEF StartInv
<1> QED
  BY <1>1, StartInvariant, PTL

\* The window in which a peer meets a manager without an address ends with
\* the call after the one that opens it, before initSkeleton returns.
THEOREM UriCorrect == Spec => []UriKnownWhenRunning
<1>1. StartInv => UriKnownWhenRunning
  BY DEF StartInv, FaultIsLast
<1> QED
  BY <1>1, StartInvariant, PTL

\* A module that has started and was configured with a file server never
\* leaves a request for a file to the program.
THEOREM FilesCorrect == Spec => []FilesServed
<1>1. StartInv => FilesServed
  BY DEF StartInv
<1> QED
  BY <1>1, StartInvariant, PTL

-----------------------------------------------------------------------------
(* The ports in the address.                                                *)

\* Each a in s is followed by a b.
Followed(s, a, b) == \A k \in DOMAIN s : s[k].op = a =>
                        \E j \in DOMAIN s : k < j /\ s[j].op = b

\* Each b in s comes after an a.
Preceded(s, a, b) == \A k \in DOMAIN s : s[k].op = b =>
                        \E j \in DOMAIN s : j < k /\ s[j].op = a

\* The ports in s are those of configuration c.
PortsOf(s, c) ==
  \A k \in DOMAIN s :
     /\ s[k].op \in {"PeerManager", "SetTcpPort"} => s[k].port = c.tcp
     /\ s[k].op \in {"HTTPServer", "SetHttpPort"} => s[k].port = c.http
     /\ s[k].op \in {"PeerManager", "SetTcpPort", "HTTPServer", "SetHttpPort"} =>
           s[k].port # NULL

Comes(a) == \E k \in DOMAIN todo : todo[k].op = a

\* The calls still to make name the ports of the configuration read last; a
\* server is created before its port goes into the address, and never without.
PortsInv ==
  /\ PortsOf(todo, moduleConfig)
  /\ Followed(todo, "PeerManager", "SetTcpPort") /\ Followed(todo, "HTTPServer", "SetHttpPort")
  /\ own_port = NULL => Preceded(todo, "PeerManager", "SetTcpPort")
  /\ daemon = NULL => Preceded(todo, "HTTPServer", "SetHttpPort")

OneConfig == \A c, d \in ConfigsNamed : c = d

\* What has been created from the one configuration has its ports, which are in
\* the address or about to be put there.
AddressInv ==
  /\ moduleConfig \in ConfigsNamed \cup {NoConfig}
  /\ OneConfig =>
       /\ own_port \in {NULL, moduleConfig.tcp} /\ tcpPort \in {NULL, own_port}
       /\ own_port # NULL /\ tcpPort = NULL => Comes("SetTcpPort")
       /\ daemon \in {NULL, "failed", moduleConfig.http}
       /\ httpPort \in {NULL, moduleConfig.http} /\ (daemon = NULL => httpPort = NULL)
       /\ daemon # NULL /\ httpPort = NULL => Comes("SetHttpPort")

\* Inductive: every step of the main thread preserves it.
UriInv == StartInv /\ PortsInv /\ AddressInv

Orders == {<<"PeerManager", "SetTcpPort">>, <<"HTTPServer", "SetHttpPort">>}

\* In the calls for a configuration: its ports, in order.
Orderly(s, c) == PortsOf(s, c) /\ \A o \in Orders : Followed(s, o[1], o[2]) /\ Preceded(s, o[1], o[2])

LEMMA ConcatOrderly ==
  ASSUME NEW s \in Seq(Calls), NEW t \in Seq(Calls), NEW c, Orderly(s, c), Orderly(t, c)
  PROVE  Orderly(s \o t, c)
<1> DEFINE n == Len(s)
           r == s \o t
<1>1. /\ n \in Nat /\ Len(t) \in Nat /\ DOMAIN s = 1..n /\ DOMAIN t = 1..Len(t)
      /\ DOMAIN r = 1..n + Len(t)
      /\ \A k \in 1..n : r[k] = s[k]
      /\ \A k \in 1..Len(t) : r[n + k] = t[k]
  OBVIOUS
<1> HIDE DEF n, r
<1>2. \A k \in DOMAIN r : (k \in 1..n) \/ (k - n \in 1..Len(t) /\ r[k] = t[k - n])
  <2> TAKE k \in DOMAIN r
  <2>1. CASE k \in 1..n
    BY <2>1
  <2>2. CASE k \notin 1..n
    <3>1. k - n \in 1..Len(t) /\ n + (k - n) = k
      BY <1>1, <2>2
    <3> QED
      BY <1>1, <3>1
  <2> QED
    BY <2>1, <2>2
<1>3. PortsOf(r, c)
  BY <1>1, <1>2 DEF Orderly, PortsOf
<1>4. ASSUME NEW o \in Orders, NEW k \in DOMAIN r, r[k].op = o[1]
      PROVE  \E j \in DOMAIN r : k < j /\ r[j].op = o[2]
  <2>1. CASE k \in 1..n
    <3>1. PICK j \in 1..n : k < j /\ s[j].op = o[2]
      BY <1>1, <1>4, <2>1 DEF Orderly, Followed
    <3>2. j \in DOMAIN r /\ r[j].op = o[2]
      BY <1>1, <3>1
    <3> QED
      BY <3>1, <3>2
  <2>2. CASE k - n \in 1..Len(t) /\ r[k] = t[k - n]
    <3>1. PICK j \in 1..Len(t) : k - n < j /\ t[j].op = o[2]
      BY <1>1, <1>4, <2>2 DEF Orderly, Followed
    <3>2. n + j \in DOMAIN r /\ k < n + j /\ r[n + j].op = o[2]
      BY <1>1, <3>1
    <3> QED
      BY <3>2
  <2> QED
    BY <1>2, <2>1, <2>2
<1>5. ASSUME NEW o \in Orders, NEW k \in DOMAIN r, r[k].op = o[2]
      PROVE  \E j \in DOMAIN r : j < k /\ r[j].op = o[1]
  <2>1. CASE k \in 1..n
    <3>1. PICK j \in 1..n : j < k /\ s[j].op = o[1]
      BY <1>1, <1>5, <2>1 DEF Orderly, Preceded
    <3>2. j \in DOMAIN r /\ r[j].op = o[1]
      BY <1>1, <3>1
    <3> QED
      BY <3>1, <3>2
  <2>2. CASE k - n \in 1..Len(t) /\ r[k] = t[k - n]
    <3>1. PICK j \in 1..Len(t) : j < k - n /\ t[j].op = o[1]
      BY <1>1, <1>5, <2>2 DEF Orderly, Preceded
    <3>2. n + j \in DOMAIN r /\ n + j < k /\ r[n + j].op = o[1]
      BY <1>1, <3>1
    <3> QED
      BY <3>2
  <2> QED
    BY <1>2, <2>1, <2>2
<1> QED
  BY <1>3, <1>4, <1>5 DEF Orderly, Followed, Preceded, r

LEMMA ConfigOrderly ==
  ASSUME NEW c \in Config
  PROVE  Orderly(handleConfig(c), c)
<1> DEFINE T == IF c.tcp = NULL THEN << >>
                ELSE <<Call("PeerManager", c.tcp), Call("SetTcpPort", c.tcp)>>
           H == IF c.http = NULL THEN << >>
                ELSE <<Call("HTTPServer", c.http), Call("SetHttpPort", c.http)>>
           F == IF c.files THEN <<Call("FileServer", NULL)>> ELSE << >>
<1>1. /\ T \in Seq(Calls) /\ H \in Seq(Calls) /\ F \in Seq(Calls)
  <2>1. \A p \in Ports \cup {NULL}, o \in Ops : Call(o, p) \in Calls
    BY DEF Call, Calls
  <2>2. \A x, y \in Calls : <<x, y>> \in Seq(Calls) /\ <<x>> \in Seq(Calls)
    OBVIOUS
  <2>3. c.tcp \in Ports \cup {NULL} /\ c.http \in Ports \cup {NULL}
    BY DEF Config
  <2>4. Call("FileServer", NULL) \in Calls
    BY <2>1 DEF Ops
  <2>5. F \in Seq(Calls)
    BY <2>2, <2>4
  <2> HIDE DEF F
  <2>6. /\ Call("PeerManager", c.tcp) \in Calls /\ Call("SetTcpPort", c.tcp) \in Calls
        /\ Call("HTTPServer", c.http) \in Calls /\ Call("SetHttpPort", c.http) \in Calls
    BY <2>1, <2>3 DEF Ops
  <2>7. T \in Seq(Calls) /\ H \in Seq(Calls)
    BY <2>2, <2>6
  <2> QED
    BY <2>5, <2>7
<1>2. Orderly(<< >>, c)
  BY DEF Orderly, PortsOf, Followed, Preceded
<1>3. Orderly(T, c)
  <2>1. CASE c.tcp = NULL
    BY <1>2, <2>1
  <2>2. CASE c.tcp # NULL
    <3>1. /\ DOMAIN T = {1, 2}
          /\ T[1].op = "PeerManager" /\ T[2].op = "SetTcpPort"
          /\ T[1].port = c.tcp /\ T[2].port = c.tcp
      BY <2>2 DEF Call
    <3> HIDE DEF T
    <3> QED
      BY <2>2, <3>1 DEF Orderly, Orders, PortsOf, Followed, Preceded
  <2> QED
    BY <2>1, <2>2
<1>4. Orderly(H, c)
  <2>1. CASE c.http = NULL
    BY <1>2, <2>1
  <2>2. CASE c.http # NULL
    <3>1. /\ DOMAIN H = {1, 2}
          /\ H[1].op = "HTTPServer" /\ H[2].op = "SetHttpPort"
          /\ H[1].port = c.http /\ H[2].port = c.http
      BY <2>2 DEF Call
    <3> HIDE DEF H
    <3> QED
      BY <2>2, <3>1 DEF Orderly, Orders, PortsOf, Followed, Preceded
  <2> QED
    BY <2>1, <2>2
<1>5. Orderly(F, c)
  <2>1. CASE c.files
    <3>1. DOMAIN F = {1} /\ F[1].op = "FileServer"
      BY <2>1 DEF Call
    <3> HIDE DEF F
    <3> QED
      BY <3>1 DEF Orderly, Orders, PortsOf, Followed, Preceded
  <2>2. CASE ~c.files
    BY <1>2, <2>2
  <2> QED
    BY <2>1, <2>2
<1>6. handleConfig(c) = (T \o H) \o F
  BY DEF handleConfig
<1> HIDE DEF T, H, F
<1>7. T \o H \in Seq(Calls)
  BY <1>1, ConcatProperties
<1>8. Orderly(T \o H, c)
  BY <1>1, <1>3, <1>4, ConcatOrderly
<1> QED
  BY <1>1, <1>5, <1>6, <1>7, <1>8, ConcatOrderly

\* A call that is over leaves the others in place, and may put SetOwnUri in its
\* own.
LEMMA Shift ==
  ASSUME StartInv, todo # << >>, NEW s, s \in {<< >>, <<Call("ownUri", NULL)>>}, Done(s)
  PROVE  \E d \in {0, 1} :
           /\ \A k \in DOMAIN todo : k # 1 => k - d \in DOMAIN todo' /\ todo'[k - d] = todo[k]
           /\ \A k \in DOMAIN todo' : \/ todo'[k].op = "ownUri"
                                      \/ /\ k + d \in DOMAIN todo /\ k + d # 1
                                         /\ todo'[k] = todo[k + d]
           /\ DOMAIN todo \subseteq Nat /\ DOMAIN todo' \subseteq Nat
           /\ 1 \in DOMAIN todo /\ Head(todo) = todo[1]
           /\ \A k \in DOMAIN todo : 1 <= k
<1> DEFINE r == Tail(todo)
<1>1. /\ todo \in Seq(Calls) /\ Len(todo) \in Nat /\ r \in Seq(Calls) /\ Len(r) = Len(todo) - 1
      /\ DOMAIN todo = 1..Len(todo) /\ 1 \in DOMAIN todo /\ Head(todo) = todo[1]
      /\ \A k \in 1..Len(r) : r[k] = todo[k + 1]
  BY DEF StartInv, TypeOK, Calls
<1> HIDE DEF r
<1>2. CASE s = << >>
  <2>1. todo' = r
    BY <1>1, <1>2, ConcatEmptySeq DEF Done, r
  <2>2. DOMAIN todo' = 1..Len(r) /\ \A k \in DOMAIN todo' : todo'[k] = todo[k + 1]
    BY <1>1, <2>1
  <2>3. \A k \in DOMAIN todo : k # 1 => k - 1 \in DOMAIN todo' /\ todo'[k - 1] = todo[k]
    <3> SUFFICES ASSUME NEW k \in DOMAIN todo, k # 1
                 PROVE  k - 1 \in DOMAIN todo' /\ todo'[k - 1] = todo[k]
      OBVIOUS
    <3>1. k - 1 \in 1..Len(r) /\ (k - 1) + 1 = k
      BY <1>1
    <3> QED
      BY <2>2, <3>1
  <2>4. \A k \in DOMAIN todo' : k + 1 \in DOMAIN todo /\ k + 1 # 1 /\ todo'[k] = todo[k + 1]
    BY <1>1, <2>2
  <2>5. DOMAIN todo \subseteq Nat /\ DOMAIN todo' \subseteq Nat /\ \A k \in DOMAIN todo : 1 <= k
    BY <1>1, <2>2
  <2> QED
    BY <1>1, <2>3, <2>4, <2>5
<1>3. CASE s = <<Call("ownUri", NULL)>>
  <2> DEFINE c == Call("ownUri", NULL)
  <2>1. todo' = <<c>> \o r /\ c.op = "ownUri" /\ c \in Calls
    BY <1>3 DEF Done, r, Call, Calls, Ops
  <2> HIDE DEF c
  <2>2. /\ DOMAIN todo' = 1..Len(r) + 1 /\ todo'[1] = c
        /\ \A k \in 1..Len(r) : todo'[k + 1] = r[k]
    BY <1>1, <2>1
  <2>3. \A k \in DOMAIN todo : k # 1 => k \in DOMAIN todo' /\ todo'[k] = todo[k]
    <3> SUFFICES ASSUME NEW k \in DOMAIN todo, k # 1
                 PROVE  k \in DOMAIN todo' /\ todo'[k] = todo[k]
      OBVIOUS
    <3>1. k - 1 \in 1..Len(r) /\ (k - 1) + 1 = k /\ k \in 1..Len(r) + 1
      BY <1>1
    <3>2. todo'[(k - 1) + 1] = r[k - 1] /\ r[k - 1] = todo[(k - 1) + 1]
      BY <1>1, <2>2, <3>1
    <3> QED
      BY <2>2, <3>1, <3>2
  <2>4. DOMAIN todo' = DOMAIN todo
    BY <1>1, <2>2
  <2>5. /\ \A k \in DOMAIN todo : k # 1 => k - 0 \in DOMAIN todo' /\ todo'[k - 0] = todo[k]
        /\ \A k \in DOMAIN todo' : \/ todo'[k].op = "ownUri"
                                   \/ /\ k + 0 \in DOMAIN todo /\ k + 0 # 1
                                      /\ todo'[k] = todo[k + 0]
    <3>1. \A k \in DOMAIN todo : k - 0 = k /\ k + 0 = k
      BY <1>1
    <3> QED
      BY <2>1, <2>2, <2>3, <2>4, <3>1
  <2>6. DOMAIN todo \subseteq Nat /\ \A k \in DOMAIN todo : 1 <= k
    BY <1>1
  <2> QED
    BY <1>1, <2>4, <2>5, <2>6
<1> QED
  BY <1>2, <1>3

\* What a call leaves of the ports by being over.
LEMMA PortsAfter ==
  ASSUME StartInv, PortsInv, todo # << >>,
         NEW s, s \in {<< >>, <<Call("ownUri", NULL)>>}, Done(s),
         own_port # NULL => own_port' # NULL, daemon # NULL => daemon' # NULL,
         Head(todo).op = "PeerManager" => own_port' # NULL,
         Head(todo).op = "HTTPServer" => daemon' # NULL
  PROVE  /\ PortsInv'
         /\ \A a : Comes(a) /\ Head(todo).op # a => Comes(a)'
         /\ Head(todo).op = "PeerManager" => Comes("SetTcpPort")'
         /\ Head(todo).op = "HTTPServer" => Comes("SetHttpPort")'
         /\ Head(todo).op \in {"PeerManager", "SetTcpPort"} => Head(todo).port = moduleConfig.tcp
         /\ Head(todo).op \in {"HTTPServer", "SetHttpPort"} => Head(todo).port = moduleConfig.http
         /\ Head(todo).op \in {"SetTcpPort", "SetHttpPort"} => Head(todo).port # NULL
         /\ Head(todo).op = "SetTcpPort" => own_port # NULL
         /\ Head(todo).op = "SetHttpPort" => daemon # NULL
<1>1. PICK d \in {0, 1} :
           /\ \A k \in DOMAIN todo : k # 1 => k - d \in DOMAIN todo' /\ todo'[k - d] = todo[k]
           /\ \A k \in DOMAIN todo' : \/ todo'[k].op = "ownUri"
                                      \/ /\ k + d \in DOMAIN todo /\ k + d # 1
                                         /\ todo'[k] = todo[k + d]
           /\ DOMAIN todo \subseteq Nat /\ DOMAIN todo' \subseteq Nat
           /\ 1 \in DOMAIN todo /\ Head(todo) = todo[1]
           /\ \A k \in DOMAIN todo : 1 <= k
  BY Shift
<1>2. moduleConfig' = moduleConfig
  BY DEF Done
<1>3. PortsOf(todo', moduleConfig)
  BY <1>1 DEF PortsInv, PortsOf
<1>4. ASSUME NEW a, NEW b, Followed(todo, a, b), a # "ownUri"
      PROVE  Followed(todo', a, b)
  <2> SUFFICES ASSUME NEW k \in DOMAIN todo', todo'[k].op = a
               PROVE  \E j \in DOMAIN todo' : k < j /\ todo'[j].op = b
    BY DEF Followed
  <2>1. k + d \in DOMAIN todo /\ k + d # 1 /\ todo[k + d].op = a
    BY <1>1, <1>4
  <2>2. PICK j \in DOMAIN todo : k + d < j /\ todo[j].op = b
    BY <1>4, <2>1 DEF Followed
  <2>3. j # 1 /\ k < j - d
    BY <1>1, <2>1, <2>2
  <2> QED
    BY <1>1, <2>2, <2>3
<1>5. ASSUME NEW a, NEW b, Preceded(todo, a, b), b # "ownUri", Head(todo).op # a
      PROVE  Preceded(todo', a, b)
  <2> SUFFICES ASSUME NEW k \in DOMAIN todo', todo'[k].op = b
               PROVE  \E j \in DOMAIN todo' : j < k /\ todo'[j].op = a
    BY DEF Preceded
  <2>1. k + d \in DOMAIN todo /\ todo[k + d].op = b
    BY <1>1, <1>5
  <2>2. PICK j \in DOMAIN todo : j < k + d /\ todo[j].op = a
    BY <1>5, <2>1 DEF Preceded
  <2>3. j # 1 /\ j - d < k
    BY <1>1, <1>5, <2>1, <2>2
  <2> QED
    BY <1>1, <2>2, <2>3
<1>6. PortsInv'
  <2>1. own_port' = NULL => Preceded(todo', "PeerManager", "SetTcpPort")
    BY <1>5 DEF PortsInv
  <2>2. daemon' = NULL => Preceded(todo', "HTTPServer", "SetHttpPort")
    BY <1>5 DEF PortsInv
  <2>3. /\ Followed(todo', "PeerManager", "SetTcpPort")
        /\ Followed(todo', "HTTPServer", "SetHttpPort")
    BY <1>4 DEF PortsInv
  <2> QED
    BY <1>2, <1>3, <2>1, <2>2, <2>3 DEF PortsInv
<1>7. \A a : Comes(a) /\ Head(todo).op # a => Comes(a)'
  BY <1>1 DEF Comes
<1>8. ASSUME NEW a, NEW b, Followed(todo, a, b), Head(todo).op = a
      PROVE  Comes(b)'
  <2>1. PICK j \in DOMAIN todo : 1 < j /\ todo[j].op = b
    BY <1>1, <1>8 DEF Followed
  <2> QED
    BY <1>1, <2>1 DEF Comes
<1>9. ASSUME NEW a, NEW b, Preceded(todo, a, b)
      PROVE  Head(todo).op # b
  BY <1>1, <1>9 DEF Preceded
<1>10. /\ Head(todo).op = "PeerManager" => Comes("SetTcpPort")'
       /\ Head(todo).op = "HTTPServer" => Comes("SetHttpPort")'
  BY <1>8 DEF PortsInv
<1>11. /\ Head(todo).op = "SetTcpPort" => own_port # NULL
       /\ Head(todo).op = "SetHttpPort" => daemon # NULL
  BY <1>9 DEF PortsInv
<1> QED
  BY <1>1, <1>6, <1>7, <1>10, <1>11 DEF PortsInv, PortsOf

\* The configuration that a -c names is a configuration named.
LEMMA ConfigKeeps ==
  ASSUME UriInv, ConfigFlag
  PROVE  PortsInv' /\ AddressInv'
<1> USE DEF UriInv
<1> DEFINE read == ConfigOf[argv[i + 1]]
           c    == IF read = NULL THEN moduleConfig ELSE read
<1>1. Len(argv) \in Nat /\ i \in 1..Len(argv) + 1 /\ argv \in Argvs
  BY ArgvAssumption DEF StartInv, TypeOK
<1>2. i + 1 \in 2..Len(argv) /\ argv[(i + 1) - 1] = "-c" /\ i \in 1..Len(argv) - 1 /\ argv[i] = "-c"
  BY <1>1 DEF ConfigFlag
<1>3. argv[i + 1] \in Files
  BY <1>1, <1>2, ArgvAssumption
<1>4. c \in Config
  BY <1>3, ConfigAssumption DEF StartInv, TypeOK
<1>5. /\ moduleConfig' = c /\ todo' = handleConfig(c) /\ todo = << >>
      /\ UNCHANGED <<argv, own_port, tcpPort, daemon, httpPort>>
  BY DEF ConfigFlag
<1>6. read # NULL => read \in ConfigsNamed
  BY <1>2 DEF ConfigsNamed
<1>7. ConfigsNamed' = ConfigsNamed
  BY <1>5 DEF ConfigsNamed
<1>8. ~Comes("SetTcpPort") /\ ~Comes("SetHttpPort")
  BY <1>5 DEF Comes
<1>9. c \in ConfigsNamed \cup {NoConfig}
  BY <1>6 DEF AddressInv
<1>10. OneConfig => c = moduleConfig \/ moduleConfig = NoConfig
  BY <1>6 DEF AddressInv, OneConfig
<1> HIDE DEF c
<1>11. PortsInv'
  <2>1. Orderly(todo', moduleConfig')
    BY <1>4, <1>5, ConfigOrderly
  <2> QED
    BY <2>1 DEF Orderly, Orders, PortsInv
<1>12. OneConfig => /\ own_port \in {NULL, c.tcp} /\ tcpPort = own_port
                    /\ daemon \in {NULL, "failed", c.http}
                    /\ httpPort \in {NULL, c.http} /\ (daemon = NULL => httpPort = NULL)
                    /\ daemon # NULL => httpPort # NULL
  BY <1>8, <1>10 DEF AddressInv, NoConfig
<1>13. AddressInv'
  <2>1. OneConfig' <=> OneConfig
    BY <1>7 DEF OneConfig
  <2> QED
    BY <1>5, <1>7, <1>9, <1>12, <2>1 DEF AddressInv
<1> QED
  BY <1>11, <1>13

\* Each call puts into the address what its server got, or opens the gap that
\* a later call closes.
LEMMA CallPorts ==
  ASSUME UriInv,
         \/ initOwnSocket \/ AlreadyCreated \/ SetOwnUri \/ SetTcpPort
         \/ StartDaemon \/ SetHttpPort \/ createFileServer
  PROVE  PortsInv' /\ AddressInv'
<1> USE DEF UriInv
<1> DEFINE op == Head(todo).op
           port == Head(todo).port
<1>1. PICK s : s \in {<< >>, <<Call("ownUri", NULL)>>} /\ Done(s)
  BY DEF initOwnSocket, AlreadyCreated, SetOwnUri, SetTcpPort, StartDaemon, SetHttpPort,
         createFileServer
<1>2. todo # << >> /\ moduleConfig' = moduleConfig /\ ConfigsNamed' = ConfigsNamed
  BY <1>1 DEF initOwnSocket, AlreadyCreated, SetOwnUri, SetTcpPort, StartDaemon, SetHttpPort,
              createFileServer, Done, ConfigsNamed
<1>3. CASE initOwnSocket
  <2>1. op = "PeerManager" /\ own_port = NULL /\ own_port' = port
        /\ UNCHANGED <<tcpPort, daemon, httpPort>>
    BY <1>3 DEF initOwnSocket
  <2>2. port # NULL
    <3>1. todo \in Seq(Calls) /\ 1 \in DOMAIN todo /\ Head(todo) = todo[1]
      BY <1>2 DEF StartInv, TypeOK, Calls
    <3> QED
      BY <2>1, <3>1 DEF PortsInv, PortsOf
  <2>3. /\ PortsInv' /\ \A a : Comes(a) /\ op # a => Comes(a)'
        /\ Comes("SetTcpPort")' /\ port = moduleConfig.tcp
    BY <1>1, <1>2, <2>1, <2>2, PortsAfter
  <2>4. Comes("SetHttpPort") => Comes("SetHttpPort")'
    BY <2>1, <2>3
  <2> QED
    BY <1>2, <2>1, <2>3, <2>4 DEF AddressInv, OneConfig
<1>4. CASE AlreadyCreated \/ SetOwnUri \/ createFileServer
  <2>1. /\ UNCHANGED <<own_port, tcpPort, daemon, httpPort>>
        /\ op = "PeerManager" => own_port # NULL
        /\ op = "HTTPServer" => daemon # NULL
        /\ op \notin {"SetTcpPort", "SetHttpPort"}
    BY <1>4 DEF AlreadyCreated, SetOwnUri, createFileServer
  <2>2. PortsInv' /\ \A a : Comes(a) /\ op # a => Comes(a)'
    BY <1>1, <1>2, <2>1, PortsAfter
  <2>3. /\ Comes("SetTcpPort") => Comes("SetTcpPort")'
        /\ Comes("SetHttpPort") => Comes("SetHttpPort")'
    BY <2>1, <2>2
  <2> QED
    BY <1>2, <2>1, <2>2, <2>3 DEF AddressInv, OneConfig
<1>5. CASE SetTcpPort
  <2>1. op = "SetTcpPort" /\ tcpPort' = port /\ UNCHANGED <<own_port, daemon, httpPort>>
    BY <1>5 DEF SetTcpPort
  <2>2. /\ PortsInv' /\ \A a : Comes(a) /\ op # a => Comes(a)'
        /\ port = moduleConfig.tcp /\ own_port # NULL
    BY <1>1, <1>2, <2>1, PortsAfter
  <2>3. Comes("SetHttpPort") => Comes("SetHttpPort")'
    BY <2>1, <2>2
  <2> QED
    BY <1>2, <2>1, <2>2, <2>3 DEF AddressInv, OneConfig
<1>6. CASE StartDaemon
  <2>1. /\ op = "HTTPServer" /\ daemon = NULL /\ daemon' \in {"failed", port}
        /\ UNCHANGED <<own_port, tcpPort, httpPort>>
    BY <1>6 DEF StartDaemon
  <2>2. daemon' # NULL
    <3>1. todo \in Seq(Calls) /\ 1 \in DOMAIN todo /\ Head(todo) = todo[1]
      BY <1>2 DEF StartInv, TypeOK, Calls
    <3> QED
      BY <2>1, <3>1, NullAssumption DEF PortsInv, PortsOf
  <2>3. /\ PortsInv' /\ \A a : Comes(a) /\ op # a => Comes(a)'
        /\ Comes("SetHttpPort")' /\ port = moduleConfig.http
    BY <1>1, <1>2, <2>1, <2>2, PortsAfter
  <2>4. Comes("SetTcpPort") => Comes("SetTcpPort")'
    BY <2>1, <2>3
  <2> QED
    BY <1>2, <2>1, <2>2, <2>3, <2>4 DEF AddressInv, OneConfig
<1>7. CASE SetHttpPort
  <2>1. op = "SetHttpPort" /\ httpPort' = port /\ UNCHANGED <<own_port, tcpPort, daemon>>
    BY <1>7 DEF SetHttpPort
  <2>2. /\ PortsInv' /\ \A a : Comes(a) /\ op # a => Comes(a)'
        /\ port = moduleConfig.http /\ port # NULL /\ daemon # NULL
    BY <1>1, <1>2, <2>1, PortsAfter
  <2>3. Comes("SetTcpPort") => Comes("SetTcpPort")'
    BY <2>1, <2>2
  <2> QED
    BY <1>2, <2>1, <2>2, <2>3 DEF AddressInv, OneConfig
<1> QED
  BY <1>3, <1>4, <1>5, <1>6, <1>7

LEMMA UriStep == UriInv /\ [Next]_vars => UriInv'
<1> SUFFICES ASSUME UriInv, [Next]_vars
             PROVE  UriInv'
  OBVIOUS
<1> USE DEF UriInv
<1>1. StartInv'
  BY StartStep
<1> SUFFICES PortsInv' /\ AddressInv'
  BY <1>1
<1>2. ASSUME UNCHANGED <<argv, moduleConfig, todo, own_port, tcpPort, daemon, httpPort>>
      PROVE  PortsInv' /\ AddressInv'
  <2>1. ConfigsNamed' = ConfigsNamed
    BY <1>2 DEF ConfigsNamed
  <2>2. PortsInv'
    BY <1>2 DEF PortsInv
  <2>3. \A a : Comes(a)' <=> Comes(a)
    BY <1>2 DEF Comes
  <2> QED
    BY <1>2, <2>1, <2>2, <2>3 DEF AddressInv, OneConfig
<1>3. CASE UNCHANGED vars
  BY <1>2, <1>3 DEF vars
<1>4. CASE ParameterFlag \/ UnknownArgument \/ InitReturns \/ BindFails \/ FlagWithoutValue
             \/ AcceptBeforeUri \/ PostWithoutHandler
  BY <1>2, <1>4 DEF ParameterFlag, UnknownArgument, InitReturns, BindFails, FlagWithoutValue,
                    AcceptBeforeUri, PostWithoutHandler, Segfault
<1>5. CASE \/ \E h \in Handlers : SetHandler(h)
           \/ SetSignalHandler \/ Signal
           \/ \E url \in {"file", "other"} : handleGet(url)
           \/ handlePost
  BY <1>2, <1>5 DEF SetHandler, SetSignalHandler, Signal, handleGet, handlePost, Answer
<1>6. CASE ConfigFlag
  BY <1>6, ConfigKeeps
<1>7. CASE \/ initOwnSocket \/ AlreadyCreated \/ SetOwnUri \/ SetTcpPort
           \/ StartDaemon \/ SetHttpPort \/ createFileServer
  BY <1>7, CallPorts
<1> QED
  BY <1>3, <1>4, <1>5, <1>6, <1>7 DEF Next, MainStep

\* The strengthening of UriTruthful, in every reachable state.
THEOREM PortsInvariant == Spec => []UriInv
<1>1. Init => UriInv
  <2> SUFFICES ASSUME Init PROVE UriInv
    OBVIOUS
  <2>1. StartInv
    BY StartInit
  <2>2. PortsInv /\ AddressInv
    BY DEF Init, PortsInv, PortsOf, Followed, Preceded, AddressInv, NoConfig, Comes
  <2> QED
    BY <2>1, <2>2 DEF UriInv
<1> QED
  BY <1>1, UriStep, PTL DEF Spec

\* A module that has been given one configuration, however often it is worked
\* through and whatever serves meanwhile, tells its peers the ports it listens
\* on, for every command line, set of configurations and ports.
THEOREM AddressCorrect == Spec => []UriTruthful
<1>1. UriInv => UriTruthful
  BY DEF UriInv, StartInv, NothingLeft, AddressInv, OneConfig, Comes, UriTruthful
<1> QED
  BY <1>1, PortsInvariant, PTL

HIDE DEF mainVars, tcpVars, httpVars, progVars, dieVars, Main, Doing, AtArgument

-----------------------------------------------------------------------------
(* The calls of spawnLocally and their children.                            *)

\* The type of every variable of Spawn.
SpawnTypeOK ==
  /\ now \in Seeds
  /\ seed \in [Modules -> Seeds]
  /\ seedings \in [Modules -> Nat]
  /\ drawn \in [Modules -> Nat]
  /\ file \in [Names -> Contents]
  /\ spawned \in [Children -> SpawnCall \cup {None}]

\* The numbers drawn since the last seeding are behind the place in the stream.
DrawnInv ==
  \A c \in Children : spawned[c] # None =>
     LET s == spawned[c]
     IN  /\ s.seeding <= seedings[s.by]
         /\ s.seeding = seedings[s.by] => s.name[1] = seed[s.by] /\ s.name[2] < drawn[s.by]

\* One seeding gives a file to one call.
NamesInv ==
  \A c, d \in Children : /\ c # d /\ spawned[c] # None /\ spawned[d] # None
                         /\ spawned[c].by = spawned[d].by
                         /\ spawned[c].seeding = spawned[d].seeding
                         => spawned[c].name # spawned[d].name

\* A file that no other call has taken holds what its call has put in so far.
HoldsOwn(c) ==
  LET s == spawned[c]
  IN  /\ s.stage = "opened" => file[s.name] = "empty"
      /\ s.stage \in {"written", "running"} => file[s.name] = c
      /\ s.stage = "configured" => s.read = c

FileInv == \A c \in Children : spawned[c] # None => HoldsOwn(c) \/ NameTaken(c)

\* Inductive, for the calls of spawnLocally.
SpawnInv == SpawnTypeOK /\ DrawnInv /\ NamesInv /\ FileInv

LEMMA InitKeeps ==
  ASSUME MaxTime \in Nat \ {0}, SpawnInit
  PROVE  SpawnInv
BY DEF SpawnInit, SpawnInv, SpawnTypeOK, DrawnInv, NamesInv, FileInv, Seeds, Contents

-----------------------------------------------------------------------------
\* The clock, seedings and messages leave the calls alone.
LEMMA StreamStep ==
  ASSUME MaxTime \in Nat \ {0}, SpawnInv,
         \/ Tick
         \/ \E m \in Modules : sendJson(m) \/ \E draws \in {0, 1} : Seed(m, draws)
  PROVE  SpawnInv'
<1> USE DEF SpawnInv
<1>1. spawned' = spawned /\ file' = file
  BY DEF Tick, sendJson, Seed
<1>2. CASE Tick
  <2>1. SpawnTypeOK'
    BY <1>2 DEF Tick, randVars, SpawnTypeOK, Seeds
  <2> QED
    BY <1>2, <2>1 DEF Tick, randVars, DrawnInv, NamesInv, FileInv, HoldsOwn, NameTaken
<1>3. ASSUME NEW m \in Modules, sendJson(m)
      PROVE  SpawnInv'
  <2>1. SpawnTypeOK'
    BY <1>3 DEF sendJson, SpawnTypeOK
  <2>2. DrawnInv'
    <3>1. ASSUME NEW c \in Children, spawned[c] # None
          PROVE  spawned[c] \in SpawnCall
      BY <3>1 DEF SpawnTypeOK
    <3> QED
      BY <1>3, <3>1 DEF sendJson, SpawnTypeOK, DrawnInv, SpawnCall, Names
  <2> QED
    BY <1>1, <2>1, <2>2 DEF NamesInv, FileInv, HoldsOwn, NameTaken
<1>4. ASSUME NEW m \in Modules, NEW draws \in {0, 1}, Seed(m, draws)
      PROVE  SpawnInv'
  <2>1. SpawnTypeOK'
    BY <1>4 DEF Seed, SpawnTypeOK
  <2>2. DrawnInv'
    <3>1. ASSUME NEW c \in Children, spawned[c] # None
          PROVE  spawned[c] \in SpawnCall
      BY <3>1 DEF SpawnTypeOK
    <3> QED
      BY <1>4, <3>1 DEF Seed, SpawnTypeOK, DrawnInv, SpawnCall
  <2> QED
    BY <1>1, <2>1, <2>2 DEF NamesInv, FileInv, HoldsOwn, NameTaken
<1> QED
  BY <1>2, <1>3, <1>4

\* A new call draws a number that no call under this seeding has.
LEMMA OpenStep ==
  ASSUME None \notin SpawnCall, MaxRand \in Nat, SpawnInv,
         NEW c \in Children, NEW m \in Modules, OpenFile(c, m)
  PROVE  SpawnInv'
<1> USE DEF SpawnInv
<1> DEFINE s == [by |-> m, seeding |-> seedings[m], name |-> Rand(m),
                 stage |-> "opened", read |-> None]
<1>1. Rand(m) \in Names /\ s \in SpawnCall /\ s # None
  BY DEF OpenFile, Rand, Names, SpawnTypeOK, SpawnCall, Contents
<1>2. spawned'[c] = s /\ \A d \in Children : d # c => spawned'[d] = spawned[d]
  BY DEF OpenFile, SpawnTypeOK
<1>3. \A d \in Children : spawned[d] # None => d # c /\ spawned[d] \in SpawnCall
  BY DEF OpenFile, SpawnTypeOK
<1>4. file'[Rand(m)] = "empty" /\ \A n \in Names : n # Rand(m) => file'[n] = file[n]
  BY <1>1 DEF OpenFile, SpawnTypeOK
<1> HIDE DEF s
<1>5. SpawnTypeOK'
  <2>1. file' \in [Names -> Contents]
    BY <1>1 DEF OpenFile, SpawnTypeOK, Contents
  <2>2. spawned' \in [Children -> SpawnCall \cup {None}]
    BY <1>1 DEF OpenFile, SpawnTypeOK, s
  <2> QED
    BY <2>1, <2>2 DEF OpenFile, SpawnTypeOK
<1>6. DrawnInv'
  <2> SUFFICES ASSUME NEW d \in Children, spawned'[d] # None
               PROVE  /\ spawned'[d].seeding <= seedings'[spawned'[d].by]
                      /\ spawned'[d].seeding = seedings'[spawned'[d].by] =>
                            /\ spawned'[d].name[1] = seed'[spawned'[d].by]
                            /\ spawned'[d].name[2] < drawn'[spawned'[d].by]
    BY DEF DrawnInv
  <2>1. CASE d = c
    BY <1>2, <2>1 DEF OpenFile, s, Rand, SpawnTypeOK
  <2>2. CASE d # c
    <3>1. spawned'[d] = spawned[d] /\ spawned[d] \in SpawnCall
      BY <1>2, <1>3, <2>2
    <3> QED
      BY <3>1 DEF OpenFile, DrawnInv, SpawnTypeOK, SpawnCall, Names
  <2> QED
    BY <2>1, <2>2
<1>7. ASSUME NEW d \in Children, d # c, spawned[d] # None, spawned[d].name = Rand(m)
      PROVE  <<spawned[d].by, spawned[d].seeding>> # <<m, seedings[m]>>
  BY <1>3, <1>7 DEF DrawnInv, Rand, SpawnTypeOK, SpawnCall
<1>8. NamesInv'
  BY <1>2, <1>7 DEF NamesInv, s
<1>9. FileInv'
  <2> SUFFICES ASSUME NEW d \in Children, spawned'[d] # None
               PROVE  HoldsOwn(d)' \/ NameTaken(d)'
    BY DEF FileInv
  <2>1. CASE d = c
    BY <1>2, <1>4, <2>1 DEF HoldsOwn, s
  <2>2. CASE d # c /\ spawned[d].name = Rand(m)
    <3>1. NameTaken(d)'
      BY <1>1, <1>2, <1>7, <2>2 DEF NameTaken, s
    <3> QED
      BY <3>1
  <2>3. CASE d # c /\ spawned[d].name # Rand(m)
    <3>1. spawned'[d] = spawned[d] /\ spawned[d].name \in Names
      BY <1>2, <1>3, <2>3 DEF SpawnCall
    <3>2. HoldsOwn(d) => HoldsOwn(d)'
      BY <1>4, <2>3, <3>1 DEF HoldsOwn
    <3>3. NameTaken(d) => NameTaken(d)'
      BY <1>2, <1>3, <3>1 DEF NameTaken
    <3> QED
      BY <3>1, <3>2, <3>3 DEF FileInv
  <2> QED
    BY <2>1, <2>2, <2>3
<1> QED
  BY <1>5, <1>6, <1>8, <1>9

\* The other steps of a call keep its name, and change no file but its own.
LEMMA ChildStep ==
  ASSUME None \notin SpawnCall, SpawnInv, NEW c \in Children,
         WriteFile(c) \/ Execute(c) \/ parseFromFile(c)
  PROVE  SpawnInv'
<1> USE DEF SpawnInv
<1>0. spawned[c] # None /\ spawned[c] \in SpawnCall
  BY DEF WriteFile, Execute, parseFromFile, At, SpawnTypeOK
<1> DEFINE n == spawned[c].name
<1>1. n \in Names
  BY <1>0 DEF SpawnCall
<1>2. PICK st \in {"written", "running", "configured"}, r \in Contents \cup {None} :
        spawned' = [spawned EXCEPT ![c] = [spawned[c] EXCEPT !.stage = st, !.read = r]]
  <2>1. CASE WriteFile(c) \/ Execute(c)
    <3>1. PICK st \in {"written", "running"} : spawned' = [spawned EXCEPT ![c].stage = st]
      BY <2>1 DEF WriteFile, Execute
    <3>2. [spawned[c] EXCEPT !.stage = st]
            = [spawned[c] EXCEPT !.stage = st, !.read = spawned[c].read]
      BY <1>0 DEF SpawnCall
    <3>3. spawned[c].read \in Contents \cup {None}
      BY <1>0 DEF SpawnCall
    <3> QED
      BY <3>1, <3>2, <3>3
  <2>2. CASE parseFromFile(c)
    BY <1>1, <2>2 DEF parseFromFile, SpawnTypeOK
  <2> QED
    BY <2>1, <2>2
<1>3. /\ spawned'[c] = [by |-> spawned[c].by, seeding |-> spawned[c].seeding, name |-> n,
                        stage |-> st, read |-> r]
      /\ spawned'[c] \in SpawnCall
      /\ \A d \in Children : d # c => spawned'[d] = spawned[d]
  BY <1>0, <1>2 DEF SpawnTypeOK, SpawnCall
<1>4. file' \in [Names -> Contents] /\ \A k \in Names : k # n => file'[k] = file[k]
  BY <1>1 DEF WriteFile, Execute, parseFromFile, SpawnTypeOK, Contents
<1>5. UNCHANGED <<now, seed, seedings, drawn>>
  BY DEF WriteFile, Execute, parseFromFile, randVars
<1>6. SpawnTypeOK'
  BY <1>2, <1>3, <1>4, <1>5 DEF SpawnTypeOK
<1>7. \A d \in Children : /\ spawned'[d] = None <=> spawned[d] = None
                          /\ spawned[d] # None => /\ spawned'[d].by = spawned[d].by
                                                  /\ spawned'[d].seeding = spawned[d].seeding
                                                  /\ spawned'[d].name = spawned[d].name
  BY <1>0, <1>3
<1>8. DrawnInv' /\ NamesInv'
  BY <1>5, <1>7 DEF DrawnInv, NamesInv
<1>9. \A d \in Children : spawned[d] # None /\ NameTaken(d) => NameTaken(d)'
  BY <1>7 DEF NameTaken
<1>10. FileInv'
  <2> SUFFICES ASSUME NEW d \in Children, spawned[d] # None, ~NameTaken(d)
               PROVE  HoldsOwn(d)'
    BY <1>7, <1>9 DEF FileInv
  <2>1. HoldsOwn(d)
    BY DEF FileInv
  <2>2. CASE d = c
    <3>1. CASE WriteFile(c)
      BY <1>0, <1>1, <1>3, <2>1, <2>2, <3>1 DEF WriteFile, At, HoldsOwn, SpawnTypeOK
    <3>2. CASE Execute(c)
      BY <1>0, <1>1, <1>3, <2>1, <2>2, <3>2 DEF Execute, At, HoldsOwn, SpawnTypeOK
    <3>3. CASE parseFromFile(c)
      BY <1>0, <1>1, <1>3, <2>1, <2>2, <3>3 DEF parseFromFile, At, HoldsOwn, SpawnTypeOK
    <3> QED
      BY <3>1, <3>2, <3>3
  <2>3. CASE d # c
    <3>1. spawned[d].name # n
      BY <1>0, <2>3 DEF NamesInv, NameTaken
    <3>2. spawned[d].name \in Names
      BY DEF SpawnTypeOK, SpawnCall
    <3> QED
      BY <1>3, <1>4, <2>1, <2>3, <3>1, <3>2 DEF HoldsOwn
  <2> QED
    BY <2>2, <2>3
<1> QED
  BY <1>6, <1>8, <1>10

\* Whatever is spawned, sent and seeded, and however late a child starts, it
\* reads its own configuration unless a stream begun anew gave its number to
\* another call.
THEOREM OwnConfigCorrect == SpawnSpec => []OwnConfig
<1>1. SpawnInit => SpawnInv
  BY InitKeeps, ClockAssumption
<1>2. SpawnInv /\ [SpawnNext]_spawnVars => SpawnInv'
  <2> SUFFICES ASSUME SpawnInv, [SpawnNext]_spawnVars PROVE SpawnInv'
    OBVIOUS
  <2>1. CASE UNCHANGED spawnVars
    BY <2>1 DEF spawnVars, randVars, SpawnInv, SpawnTypeOK, DrawnInv, NamesInv, FileInv,
                HoldsOwn, NameTaken
  <2> QED
    BY <2>1, StreamStep, OpenStep, ChildStep, ClockAssumption, NoneAssumption DEF SpawnNext
<1>3. SpawnInv => OwnConfig
  BY DEF SpawnInv, FileInv, OwnConfig, At, HoldsOwn
<1> QED
  BY <1>1, <1>2, <1>3, PTL DEF SpawnSpec
=============================================================================
