-------------------------- MODULE MCModuleSkeleton --------------------------
(* Command lines and configuration files for ModuleSkeleton; or, in other    *)
(* behaviours, two modules that spawn children and are long started.         *)
EXTENDS ModuleSkeleton, Spawn

CONSTANTS P1, P2, P3, A, B, c1, c2

mcPorts == {P1, P2, P3}

\* Another process listens on P3.
mcBusyPorts == {P3}

mcFiles == {"both.json", "tcp.json", "busy.json", "web.json", "missing.json"}

mcConfigOf ==
  [f \in mcFiles |->
     CASE f = "both.json" -> [tcp |-> P1, http |-> P2, files |-> TRUE, params |-> {"spawnId"}]
       [] f = "tcp.json"  -> [tcp |-> P2, http |-> NULL, files |-> FALSE, params |-> {}]
       [] f = "busy.json" -> [tcp |-> P3, http |-> NULL, files |-> FALSE, params |-> {}]
       [] f = "web.json"  -> [tcp |-> P1, http |-> P3, files |-> TRUE, params |-> {}]
       [] OTHER           -> NULL]

\* One configuration, alone or with other arguments; a file that does not
\* exist, before or after it; a port that is taken; two configurations; a flag
\* that lacks its value.
mcArgvs == {<< >>, <<"-c", "both.json">>, <<"-c", "tcp.json", "--spawnId", "word">>,
            <<"word", "-c", "both.json", "-c", "missing.json">>,
            <<"-c", "missing.json", "-c", "both.json">>,
            <<"-c", "busy.json">>, <<"-c", "web.json">>,
            <<"-c", "tcp.json", "-c", "both.json">>,
            <<"-c", "tcp.json", "--initialModuleUri">>, <<"-c">>}

-----------------------------------------------------------------------------
VARIABLE part  \* what is checked

mcModules  == {A, B}
mcChildren == {c1, c2}

PartInit == /\ part \in {"start", "spawn"}
            /\ Init /\ SpawnInit
            /\ part = "spawn" => argv = << >> /\ signals

PartNext == /\ UNCHANGED part
            /\ \/ part = "start" /\ Next /\ UNCHANGED spawnVars
               \/ part = "spawn" /\ SpawnNext /\ UNCHANGED vars

PartSpec == PartInit /\ [][PartNext]_<<vars, spawnVars, part>>
=============================================================================
