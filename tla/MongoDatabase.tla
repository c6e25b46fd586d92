--------------------------- MODULE MongoDatabase ---------------------------
(* The operations of MongoDatabase on one collection that several modules   *)
(* use at once.  The server, which is external, executes a request of the   *)
(* driver in one step; insertIfNotExist and updateOrInsert are a query and  *)
(* then a write, upsertMany is a bulk of upserts executed one by one.  The  *)
(* query looks at no error: one that fails has found nothing.               *)
(*                                                                          *)
(* The definitions named ..._Bug are mistakes that the properties detect;   *)
(* they are not part of the model.                                          *)
EXTENDS Naturals, Sequences, FiniteSets

CONSTANTS Clients,  \* modules, each with its own connection
          Keys,     \* what a query selects by
          Values,
          MaxDocs,  \* bound on the documents inserted
          Removable, \* keys whose documents anybody may remove
          Failing,  \* clients whose requests may fail or bring back what does not parse
          NULL

ASSUME MaxDocsAssumption == MaxDocs \in Nat
ASSUME FaultsAssumption  == Removable \subseteq Keys /\ Failing \subseteq Clients
ASSUME ClientsAssumption == IsFiniteSet(Clients)

Ids == 1..MaxDocs
Doc == [key : Keys, val : Values]

ASSUME NullAssumption == NULL \notin Doc

VARIABLES
  collection,  \* [id]: a document, NULL if there is none; ids grow with time
  inserted,    \* how many documents have been inserted
  pc,          \* [c]: where c is in a call
  call,        \* [c]: the operation and the document it is about
  bulk,        \* [c]: upserts still to execute
  nUpserted,   \* [c]: documents the last upsertMany has inserted
  result,      \* [c]: what its last call returned
  blind,       \* history: clients about to insert what their query passed over
  blindIds     \* history: documents inserted so

history == <<blind, blindIds>>
vars == <<collection, inserted, pc, call, bulk, nUpserted, result, history>>

Init ==
  /\ collection = [d \in Ids |-> NULL]
  /\ inserted = 0
  /\ pc = [c \in Clients |-> "idle"]
  /\ call = [c \in Clients |-> NULL]
  /\ bulk = [c \in Clients |-> << >>]
  /\ nUpserted = [c \in Clients |-> 0]
  /\ result = [c \in Clients |-> NULL]
  /\ blind = {} /\ blindIds = {}

-----------------------------------------------------------------------------
Matching(k) == {d \in Ids : collection[d] # NULL /\ collection[d].key = k}

First(S) == CHOOSE d \in S : \A other \in S : d <= other

\* A document gets an _id of its own.
Put(doc) ==
  /\ inserted < MaxDocs
  /\ inserted' = inserted + 1
  /\ collection' = [collection EXCEPT ![inserted + 1] = doc]

\* MONGOC_UPDATE_NONE: the first match only.
Replace(doc) ==
  /\ collection' = IF Matching(doc.key) = {} THEN collection
                   ELSE [collection EXCEPT ![First(Matching(doc.key))] = doc]
  /\ UNCHANGED inserted

NoWrite == UNCHANGED <<collection, inserted>>

\* The call of operation op is over; count is what upsertMany returns.
Return(c, op, ok, count) ==
  /\ pc' = [pc EXCEPT ![c] = "idle"]
  /\ result' = [result EXCEPT ![c] = [op |-> op, ok |-> ok, count |-> count]]

-----------------------------------------------------------------------------
(* insertIfNotExist and updateOrInsert.                                     *)

Absent_Bug(k) == Cardinality(Matching(k)) <= 1

Absent(k) == Matching(k) = {}

\* What a query tells: the error of the cursor ends the loop as if there were
\* no more documents, and one that does not parse is passed over.
Finds(c, k) == IF c \in Failing THEN {~Absent(k), FALSE} ELSE {~Absent(k)}

Query(c, op, doc) ==
  /\ pc[c] = "idle"
  /\ call' = [call EXCEPT ![c] = [op |-> op, doc |-> doc]]
  /\ \E found \in Finds(c, doc.key) :
       /\ \/ ~found /\ pc' = [pc EXCEPT ![c] = "insert"] /\ UNCHANGED result
          \/ /\ found /\ op = "updateOrInsert"
             /\ pc' = [pc EXCEPT ![c] = "update"] /\ UNCHANGED result
          \/ found /\ op = "insertIfNotExist" /\ Return(c, op, FALSE, 0)
       /\ blind' = IF found \/ Absent(doc.key) THEN blind ELSE blind \cup {c}
  /\ UNCHANGED <<collection, inserted, bulk, nUpserted, blindIds>>

FinishInsert_Bug(c) ==
  /\ pc[c] = "insert"
  /\ NoWrite /\ Return(c, call[c].op, TRUE, 0)
  /\ UNCHANGED <<call, bulk, nUpserted, history>>

\* An error of the server is logged, and the call ends as if there were none.
FinishInsert(c) ==
  /\ pc[c] = "insert"
  /\ blind' = blind \ {c}
  /\ UNCHANGED <<call, bulk, nUpserted>>
  /\ LET op == call[c].op
         ok == op = "insertIfNotExist"
     IN  \/ /\ Put(call[c].doc) /\ Return(c, op, ok, 0)
            /\ blindIds' = IF c \in blind THEN blindIds \cup {inserted + 1} ELSE blindIds
         \/ c \in Failing /\ NoWrite /\ Return(c, op, ok, 0) /\ UNCHANGED blindIds

FinishUpdate(c) ==
  /\ pc[c] = "update"
  /\ UNCHANGED <<call, bulk, nUpserted, history>>
  /\ \/ Replace(call[c].doc) /\ Return(c, "updateOrInsert", TRUE, 0)
     \/ c \in Failing /\ NoWrite /\ Return(c, "updateOrInsert", TRUE, 0)

-----------------------------------------------------------------------------
(* upsertMany: an ordered bulk.                                             *)

upsertMany_Bug(c, docs) ==
  /\ pc[c] = "idle"
  /\ pc' = [pc EXCEPT ![c] = "bulk"]
  /\ call' = [call EXCEPT ![c] = [op |-> "upsertMany", doc |-> NULL]]
  /\ bulk' = [bulk EXCEPT ![c] = docs]
  /\ UNCHANGED <<collection, inserted, nUpserted, result, history>>

upsertMany(c, docs) ==
  /\ pc[c] = "idle"
  /\ pc' = [pc EXCEPT ![c] = "bulk"]
  /\ call' = [call EXCEPT ![c] = [op |-> "upsertMany", doc |-> NULL]]
  /\ bulk' = [bulk EXCEPT ![c] = docs]
  /\ nUpserted' = [nUpserted EXCEPT ![c] = 0]
  /\ UNCHANGED <<collection, inserted, result, history>>

\* "Size of queries and values should be the same!"
SizesDiffer(c) ==
  /\ pc[c] = "idle"
  /\ UNCHANGED <<collection, inserted, call, bulk, nUpserted, history>>
  /\ Return(c, "upsertMany", FALSE, 0)

\* Change the first match or insert: one step of the server.
UpsertNext(c) ==
  /\ pc[c] = "bulk" /\ bulk[c] # << >>
  /\ LET doc == Head(bulk[c])
     IN  IF Matching(doc.key) = {}
         THEN Put(doc) /\ nUpserted' = [nUpserted EXCEPT ![c] = @ + 1]
         ELSE Replace(doc) /\ UNCHANGED nUpserted
  /\ bulk' = [bulk EXCEPT ![c] = Tail(@)]
  /\ UNCHANGED <<pc, call, result, history>>

\* An ordered bulk stops at an error; 0 is returned whatever was inserted.
BulkFails(c) ==
  /\ c \in Failing
  /\ pc[c] = "bulk" /\ bulk[c] # << >>
  /\ bulk' = [bulk EXCEPT ![c] = << >>]
  /\ UNCHANGED <<collection, inserted, call, nUpserted, history>>
  /\ Return(c, "upsertMany", FALSE, 0)

BulkReturns(c) ==
  /\ pc[c] = "bulk" /\ bulk[c] = << >>
  /\ UNCHANGED <<collection, inserted, call, bulk, nUpserted, history>>
  /\ Return(c, "upsertMany", TRUE, nUpserted[c])

-----------------------------------------------------------------------------
\* MONGOC_REMOVE_SINGLE_REMOVE, by any module at any time.
remove(k) ==
  /\ k \in Removable
  /\ Matching(k) # {}
  /\ collection' = [collection EXCEPT ![First(Matching(k))] = NULL]
  /\ UNCHANGED <<inserted, pc, call, bulk, nUpserted, result, history>>

Next ==
  \/ \E c \in Clients :
       \/ \E op \in {"insertIfNotExist", "updateOrInsert"}, doc \in Doc : Query(c, op, doc)
       \/ FinishInsert(c) \/ FinishUpdate(c)
       \/ \E docs \in [1..2 -> Doc] : upsertMany(c, docs)
       \/ SizesDiffer(c) \/ UpsertNext(c) \/ BulkFails(c) \/ BulkReturns(c)
  \/ \E k \in Keys : remove(k)

Spec == Init /\ [][Next]_vars

-----------------------------------------------------------------------------
Ops == {"insertIfNotExist", "updateOrInsert", "upsertMany"}

\* The type of every variable (MongoDatabase.h:17-36).
TypeOK ==
  /\ collection \in [Ids -> Doc \cup {NULL}] /\ inserted \in 0..MaxDocs
  /\ pc \in [Clients -> {"idle", "insert", "update", "bulk"}]
  /\ call \in [Clients -> [op : Ops, doc : Doc \cup {NULL}] \cup {NULL}]
  /\ bulk \in [Clients -> Seq(Doc)]
  /\ nUpserted \in [Clients -> 0..2]
  /\ result \in [Clients -> [op : Ops, ok : BOOLEAN, count : 0..2] \cup {NULL}]
  /\ blind \subseteq Clients /\ blindIds \subseteq Ids

\* Documents, and inserts under way, of calls that saw no document of the key.
Sighted(k) == Matching(k) \ blindIds
Pending(k) == {c \in Clients \ blind : pc[c] = "insert" /\ call[c].doc.key = k}

\* The query and the write of insertIfNotExist and updateOrInsert are two
\* requests (MongoDatabase.cpp:139-158): calls that saw no document of a key can
\* make as many of it as there are clients, and not one more, however long they
\* run.  A call whose query failed or passed over a document adds one each time.
DuplicatesBounded ==
  \A k \in Keys : Cardinality(Sighted(k)) + Cardinality(Pending(k)) <= Cardinality(Clients)

\* No document has an _id that has not been given.
FreshInv == \A d \in Ids : d > inserted => collection[d] = NULL

\* A call in its second request knows its document, what it is about to update
\* is still there unless it was removed, and a bulk has two upserts.
CallInv ==
  \A c \in Clients :
     /\ pc[c] \in {"insert", "update"} => call[c] \in [op : Ops, doc : Doc]
     /\ pc[c] = "update" /\ call[c].doc.key \notin Removable =>
           Matching(call[c].doc.key) # {}
     /\ Len(bulk[c]) + nUpserted[c] <= 2

\* Inductive: types, the bound on documents of one key, and what a call under
\* way relies on.
KeyInv == TypeOK /\ DuplicatesBounded /\ FreshInv /\ CallInv

\* When insertIfNotExist or updateOrInsert return to a client whose requests
\* succeed, the document is there, whatever the other clients insert, change
\* or fail to do between the query and the write (MongoDatabase.cpp:139-158),
\* as long as nobody removes documents of its key.
StoredOnReturn ==
  [][\A c \in Clients \ Failing :
        (/\ pc[c] \in {"insert", "update"} /\ pc'[c] = "idle"
         /\ call[c].doc.key \notin Removable)
        => Matching(call[c].doc.key)' # {}]_vars

-----------------------------------------------------------------------------
(* The promise to a client that is alone, KeyMap, and how its state is that *)
(* of the collection.                                                       *)

Stored == [k \in Keys |-> IF Matching(k) = {} THEN NULL ELSE collection[First(Matching(k))]]

\* The client, if there is but one.
Sole == CHOOSE c \in Clients : TRUE

Added == IF pc[Sole] = "bulk" THEN nUpserted[Sole] ELSE 0

Map == INSTANCE KeyMap WITH map <- Stored, added <- Added, answer <- result[Sole]

\* To one client whose requests succeed the collection is a map: the query and
\* the write of a call are as one step, what it returns is what it found, and
\* upsertMany counts the keys that were not there, also when others remove
\* documents between its requests (MongoDatabase.cpp:68-115, 139-158).
ImplementsMap == Map!KSpec
=============================================================================
