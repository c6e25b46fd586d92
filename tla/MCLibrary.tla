------------------------------ MODULE MCLibrary ------------------------------
(* The passive classes of the library, which neither start threads nor call  *)
(* each other: MessageQueue, ModuleUri, StringModifier and, for a module that *)
(* has a collection to itself, MongoDatabase.  A behaviour is one of them;    *)
(* the others' variables stay as they are.                                    *)
EXTENDS MessageQueue, ModuleUri, StringModifier

CONSTANTS me, k1, k2, v1, v2, NULL  \* the only client, keys, values

VARIABLES
  part,  \* the class that is used
  collection, inserted, pc, call, bulk, nUpserted, result, blind, blindIds  \* of MongoDatabase

mongoVars == <<collection, inserted, pc, call, bulk, nUpserted, result, blind, blindIds>>

\* Four inserts; others may remove the documents of one key.
Mongo == INSTANCE MongoDatabase
           WITH Clients <- {me}, Failing <- {}, Keys <- {k1, k2}, Removable <- {k1},
                Values <- {v1, v2}, MaxDocs <- 4

mcHosts   == {<<"h">>, <<"h", "k">>}
mcExes    == {<<"e">>, <<"e", "f", "g">>}
mcNumbers == {"80", "8000"}

\* Nothing, a host, an address without a program, one without a process id.
mcJunk == {<< >>, <<"h">>, <<"h", ":", "80", ":", "80">>,
           <<"h", ":", "80", ":", "80", "|", "e">>}

\* Bytes at the borders of the tables and of the bit fields, in inputs that
\* leave nothing, one or two bytes over; texts of at most five characters.
mcBytes == {0, 3, 15, 32, 37, 43, 63, 64, 65, 122, 128, 250, 255}

mcInputs == UNION {[1..n -> mcBytes] : n \in 0..3}
              \cup {<<a, 255, b, 0, c>> : a, b, c \in {0, 64, 255}}

mcTemplates == UNION {[1..n -> {"k", "x", " "}] : n \in 0..5}
mcKeys      == {<<"k">>, <<"k", "k">>, <<"k", "x">>, <<" ">>, <<" ", "k">>, <<"k", " ">>}
mcValues    == {<< >>, <<"x">>, <<"k", "k">>, <<"x", "k", "x">>}

Idle == op = "convert" /\ bytes = << >>

LibraryInit == /\ part \in {"MessageQueue", "ModuleUri", "StringModifier", "MongoDatabase"}
               /\ Init /\ UriInit /\ StringInit /\ Mongo!Init
               /\ part # "StringModifier" => Idle
               /\ part # "MessageQueue" => lock = "works"

LibraryNext ==
  /\ UNCHANGED part
  /\ \/ part = "MessageQueue" /\ Next /\ UNCHANGED <<uriVars, stringVars, mongoVars>>
     \/ part = "ModuleUri" /\ UriNext /\ UNCHANGED <<vars, stringVars, mongoVars>>
     \/ part = "StringModifier" /\ StringNext /\ UNCHANGED <<vars, uriVars, mongoVars>>
     \/ part = "MongoDatabase" /\ Mongo!Next /\ UNCHANGED <<vars, uriVars, stringVars>>

\* A loop goes on.
LibrarySpec == /\ LibraryInit
               /\ [][LibraryNext]_<<vars, uriVars, stringVars, mongoVars, part>>
               /\ WF_stringVars(StringNext)

\* ImplementsMap of MongoDatabase, for a module that is alone: the collection is
\* a map from keys to documents, each call is as one step and returns what it
\* found, also when others remove documents (MongoDatabase.cpp:68-115, 139-158).
ImplementsMap == Mongo!ImplementsMap
=============================================================================
