------------------------------- MODULE KeyMap -------------------------------
(* What MongoDatabase promises to a module that has a collection to itself, *)
(* but for documents that others remove, and whose requests succeed: a map  *)
(* from keys to documents, without requests, cursors or _ids.  Each call    *)
(* looks at a key and changes it at once, and its answer tells what it found. *)
EXTENDS Naturals

CONSTANTS Keys, Doc,
          Removable,  \* keys whose documents others may remove
          NULL

VARIABLES
  map,     \* [key]: its document, NULL if there is none
  added,   \* documents the running upsertMany has added
  answer   \* what the last call returned

kvars == <<map, added, answer>>

Answer(op, ok, count) == answer' = [op |-> op, ok |-> ok, count |-> count]

KInit == map = [k \in Keys |-> NULL] /\ added = 0 /\ answer = NULL

\* A document takes the place of its key.
Stores(doc) == map' = [map EXCEPT ![doc.key] = doc]

insertIfNotExist(doc) ==
  /\ \/ map[doc.key] = NULL /\ Stores(doc) /\ Answer("insertIfNotExist", TRUE, 0)
     \/ map[doc.key] # NULL /\ UNCHANGED map /\ Answer("insertIfNotExist", FALSE, 0)
  /\ UNCHANGED added

updateOrInsert(doc) ==
  /\ Stores(doc)
  /\ Answer("updateOrInsert", map[doc.key] # NULL, 0)
  /\ UNCHANGED added

\* The document was found, and removed before the update came to it.
Overtaken(k) ==
  /\ k \in Removable /\ map[k] = NULL
  /\ Answer("updateOrInsert", TRUE, 0)
  /\ UNCHANGED <<map, added>>

Upsert(doc) ==
  /\ Stores(doc)
  /\ added' = IF map[doc.key] = NULL THEN added + 1 ELSE added
  /\ UNCHANGED answer

\* upsertMany returns how many documents it has added; nothing is done if there
\* are not as many queries as values.
Counted == Answer("upsertMany", TRUE, added) /\ added' = 0 /\ UNCHANGED map

NotCounted ==
  /\ added = 0
  /\ Answer("upsertMany", FALSE, 0) /\ added' = 0 /\ UNCHANGED map

Remove(k) ==
  /\ k \in Removable
  /\ map' = [map EXCEPT ![k] = NULL]
  /\ UNCHANGED <<added, answer>>

KNext ==
  \/ \E doc \in Doc : insertIfNotExist(doc) \/ updateOrInsert(doc) \/ Upsert(doc)
  \/ \E k \in Keys : Overtaken(k) \/ Remove(k)
  \/ Counted
  \/ NotCounted

KSpec == KInit /\ [][KNext]_kvars
=============================================================================
