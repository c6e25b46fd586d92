-------------------------------- MODULE Spawn --------------------------------
(* spawnLocally: a module writes a configuration file for a new process and   *)
(* starts it in the background; the process reads the file some time later.   *)
(* The file is named by rand(), whose one stream of numbers the whole process *)
(* shares and several places seed with the time in seconds.  The modules run  *)
(* in one directory and start one binary, since others cannot meet; a call    *)
(* without a configuration makes no file.                                     *)
(*                                                                            *)
(* rand is external: a number is its seed and its place in the stream, and    *)
(* different places hold different numbers.                                   *)
(*                                                                            *)
(* The definitions named ..._Bug are mistakes that the properties detect;     *)
(* they are not part of the model.                                            *)
EXTENDS Naturals

CONSTANTS Modules,   \* the processes that spawn
          Children,  \* the calls of spawnLocally, each used once
          MaxTime,   \* bound on the clock, in seconds
          MaxRand,   \* bound on the numbers drawn from one seed
          MaxSeedings,
          None

Seeds == 0..MaxTime  \* 0: the process has never called srand
Names == Seeds \X (0..MaxRand)

\* What a file may hold, and a call of spawnLocally.
Contents  == Children \cup {"missing", "empty", "mixed"}
SpawnCall == [by : Modules, seeding : Nat, name : Names,
              stage : {"opened", "written", "running", "configured"},
              read : Contents \cup {None}]

ASSUME ClockAssumption == MaxTime \in Nat \ {0} /\ MaxRand \in Nat
ASSUME NoneAssumption  == None \notin SpawnCall

VARIABLES
  now,       \* time(NULL)
  seed,      \* [m]: what rand was seeded with last
  seedings,  \* [m]: history: how often that was
  drawn,     \* [m]: numbers drawn since
  file,      \* [name]: the child whose configuration it holds, or another content
  spawned    \* [c]: the call and its child, None before

randVars  == <<seed, seedings, drawn>>
spawnVars == <<now, randVars, file, spawned>>

SpawnInit ==
  /\ now = 1
  /\ seed = [m \in Modules |-> 0]
  /\ seedings = [m \in Modules |-> 0]
  /\ drawn = [m \in Modules |-> 0]
  /\ file = [n \in Names |-> "missing"]
  /\ spawned = [c \in Children |-> None]

-----------------------------------------------------------------------------
(* The stream of numbers.                                                    *)

\* The next number of m's stream.
Rand(m) == <<seed[m], drawn[m]>>

\* srand(time(NULL)): the constructor of PeerManager, and, with a number drawn
\* at once, a request with JSON or a log file without a name.
Seed(m, draws) ==
  /\ seedings[m] < MaxSeedings
  /\ seed' = [seed EXCEPT ![m] = now]
  /\ seedings' = [seedings EXCEPT ![m] = @ + 1]
  /\ drawn' = [drawn EXCEPT ![m] = draws]
  /\ UNCHANGED <<now, file, spawned>>

\* sendJson numbers its message.
sendJson(m) ==
  /\ drawn[m] < MaxRand
  /\ drawn' = [drawn EXCEPT ![m] = @ + 1]
  /\ UNCHANGED <<now, seed, seedings, file, spawned>>

Tick ==
  /\ now < MaxTime
  /\ now' = now + 1
  /\ UNCHANGED <<randVars, file, spawned>>

-----------------------------------------------------------------------------
(* spawnLocally, in the order of its calls, by any thread of m.              *)

\* The file is opened, and what it held is gone.
OpenFile(c, m) ==
  /\ spawned[c] = None
  /\ drawn[m] < MaxRand
  /\ drawn' = [drawn EXCEPT ![m] = @ + 1]
  /\ file' = [file EXCEPT ![Rand(m)] = "empty"]
  /\ spawned' = [spawned EXCEPT ![c] = [by |-> m, seeding |-> seedings[m], name |-> Rand(m),
                                        stage |-> "opened", read |-> None]]
  /\ UNCHANGED <<now, seed, seedings>>

At(c, stage) == spawned[c] # None /\ spawned[c].stage = stage

\* Two calls that have opened one file write over each other.
WriteFile(c) ==
  /\ At(c, "opened")
  /\ LET n == spawned[c].name
     IN  \E content \in IF file[n] = "empty" THEN {c} ELSE {c, "mixed"} :
            file' = [file EXCEPT ![n] = content]
  /\ spawned' = [spawned EXCEPT ![c].stage = "written"]
  /\ UNCHANGED <<now, randVars>>

Execute_Bug(c) ==
  /\ At(c, "opened")
  /\ spawned' = [spawned EXCEPT ![c].stage = "running"]
  /\ UNCHANGED <<now, randVars, file>>

\* system() returns when the shell has started the child in the background.
Execute(c) ==
  /\ At(c, "written")
  /\ spawned' = [spawned EXCEPT ![c].stage = "running"]
  /\ UNCHANGED <<now, randVars, file>>

\* parseFromFile, in the child.
parseFromFile(c) ==
  /\ At(c, "running")
  /\ spawned' = [spawned EXCEPT ![c].stage = "configured",
                                ![c].read = file[spawned[c].name]]
  /\ UNCHANGED <<now, randVars, file>>

SpawnNext ==
  \/ Tick
  \/ \E m \in Modules : \/ \E draws \in {0, 1} : Seed(m, draws)
                        \/ sendJson(m)
                        \/ \E c \in Children : OpenFile(c, m)
  \/ \E c \in Children : WriteFile(c) \/ Execute(c) \/ parseFromFile(c)

SpawnSpec == SpawnInit /\ [][SpawnNext]_spawnVars

-----------------------------------------------------------------------------
\* Another call has the number of c, from a stream begun anew.
NameTaken(c) ==
  \E d \in Children \ {c} :
     /\ spawned[d] # None /\ spawned[d].name = spawned[c].name
     /\ <<spawned[d].by, spawned[d].seeding>> # <<spawned[c].by, spawned[c].seeding>>

\* A child reads its own configuration, whole, however late it starts and
\* whatever is spawned and sent meanwhile.  Only two seedings with one second,
\* of one module or of two, or two modules that never seeded, can give it that
\* of another (ModuleSkeleton.cpp:232-239, HTTPClient.cpp:30,
\* PeerManager.cpp:64).
OwnConfig ==
  \A c \in Children : At(c, "configured") => spawned[c].read = c \/ NameTaken(c)
=============================================================================
