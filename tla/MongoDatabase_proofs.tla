----------------------- MODULE MongoDatabase_proofs -----------------------
(* Proofs about MongoDatabase, for any clients, keys, values and faults.     *)
EXTENDS MongoDatabase, FiniteSetTheorems, WellFoundedInduction, SequenceTheorems, TLAPS

\* The first of some documents is one of them.
LEMMA FirstIsOne ==
  ASSUME NEW S \in SUBSET Ids, S # {}
  PROVE  First(S) \in S
<1> DEFINE Less == OpToRel(<, Nat)
<1>1. \A x, y \in Nat : y < x => <<y, x>> \in Less
  BY DEF OpToRel
<1>2. IsWellFoundedOn(Less, Nat)
  BY NatLessThanWellFounded
<1>3. S \subseteq Nat
  BY MaxDocsAssumption DEF Ids
<1> HIDE DEF Less
<1>4. PICK d \in S : \A other \in S : <<other, d>> \notin Less
  BY <1>2, <1>3, WFMin
<1>5. ASSUME NEW other \in S
      PROVE  d <= other
  <2>1. d \in Nat /\ other \in Nat
    BY <1>3
  <2>2. ~ (other < d)
    BY <1>1, <1>4, <2>1
  <2> QED
    BY <2>1, <2>2
<1> QED
  BY <1>5 DEF First

-----------------------------------------------------------------------------
(* The documents.                                                            *)

DocsOK == /\ collection \in [Ids -> Doc \cup {NULL}] /\ inserted \in 0..MaxDocs
          /\ FreshInv

LEMMA MatchingFinite ==
  ASSUME NEW k
  PROVE  IsFiniteSet(Matching(k)) /\ Matching(k) \in SUBSET Ids
<1>1. Matching(k) \in SUBSET Ids
  BY DEF Matching
<1>2. IsFiniteSet(Ids)
  BY MaxDocsAssumption, FS_Interval DEF Ids
<1> QED
  BY <1>1, <1>2, FS_Subset

\* An insert adds one document, of its key.
LEMMA PutAdds ==
  ASSUME DocsOK, NEW doc \in Doc, Put(doc)
  PROVE  /\ DocsOK'
         /\ Matching(doc.key)' = Matching(doc.key) \cup {inserted + 1}
         /\ \A k : k # doc.key => Matching(k)' = Matching(k)
<1>1. inserted + 1 \in Ids /\ inserted' = inserted + 1 /\ inserted' \in 0..MaxDocs
  BY MaxDocsAssumption DEF DocsOK, Put, Ids
<1>2. /\ collection' \in [Ids -> Doc \cup {NULL}]
      /\ collection'[inserted + 1] = doc
      /\ \A d \in Ids : d # inserted + 1 => collection'[d] = collection[d]
  BY <1>1 DEF DocsOK, Put
<1>3. doc # NULL /\ collection[inserted + 1] = NULL
  <2>1. inserted \in Nat /\ inserted + 1 > inserted
    BY MaxDocsAssumption DEF DocsOK
  <2> QED
    BY <1>1, <2>1, NullAssumption DEF DocsOK, FreshInv
<1>4. FreshInv'
  <2> SUFFICES ASSUME NEW d \in Ids, d > inserted'
               PROVE  collection'[d] = NULL
    BY DEF FreshInv, Ids
  <2>1. d > inserted /\ d # inserted + 1
    BY <1>1, MaxDocsAssumption DEF DocsOK, Ids
  <2> QED
    BY <1>2, <2>1 DEF DocsOK, FreshInv
<1>5. DocsOK'
  BY <1>1, <1>2, <1>4 DEF DocsOK, Ids
<1>6. Matching(doc.key)' = Matching(doc.key) \cup {inserted + 1}
  BY <1>1, <1>2, <1>3 DEF Matching, Ids
<1>7. \A k : k # doc.key => Matching(k)' = Matching(k)
  BY <1>1, <1>2, <1>3 DEF Matching, Ids
<1> QED
  BY <1>5, <1>6, <1>7

\* An update leaves as many documents of each key.
LEMMA ReplaceKeeps ==
  ASSUME DocsOK, NEW doc \in Doc, Replace(doc)
  PROVE  DocsOK' /\ \A k : Matching(k)' = Matching(k)
<1>1. CASE Matching(doc.key) = {}
  BY <1>1 DEF Replace, DocsOK, FreshInv, Matching, Ids
<1>2. CASE Matching(doc.key) # {}
  <2> DEFINE f == First(Matching(doc.key))
  <2>1. f \in Matching(doc.key)
    BY <1>2, MatchingFinite, FirstIsOne
  <2>2. f \in Ids /\ collection[f] # NULL /\ collection[f].key = doc.key
    BY <2>1 DEF Matching
  <2>3. collection' = [collection EXCEPT ![f] = doc] /\ inserted' = inserted
    BY <1>2 DEF Replace
  <2> HIDE DEF f
  <2>4. /\ collection' \in [Ids -> Doc \cup {NULL}]
        /\ collection'[f] = doc
        /\ \A d \in Ids : d # f => collection'[d] = collection[d]
    BY <2>2, <2>3 DEF DocsOK
  <2>5. ~ (f > inserted)
    BY <2>2 DEF DocsOK, FreshInv
  <2>6. FreshInv'
    BY <2>3, <2>4, <2>5 DEF DocsOK, FreshInv, Ids
  <2>7. \A k : Matching(k)' = Matching(k)
    BY <2>2, <2>4, NullAssumption DEF Matching, Ids
  <2> QED
    BY <2>3, <2>4, <2>6, <2>7 DEF DocsOK, Ids
<1> QED
  BY <1>1, <1>2

\* A removal takes only documents of the key.
LEMMA RemoveTakes ==
  ASSUME DocsOK, NEW k, remove(k)
  PROVE  /\ DocsOK'
         /\ \A other : Matching(other)' \subseteq Matching(other)
         /\ \A other : other # k => Matching(other)' = Matching(other)
<1> DEFINE f == First(Matching(k))
<1>1. f \in Matching(k)
  BY MatchingFinite, FirstIsOne DEF remove
<1>2. f \in Ids /\ collection[f] # NULL /\ collection[f].key = k
  BY <1>1 DEF Matching
<1>3. collection' = [collection EXCEPT ![f] = NULL] /\ inserted' = inserted
  BY DEF remove
<1> HIDE DEF f
<1>4. /\ collection' \in [Ids -> Doc \cup {NULL}]
      /\ collection'[f] = NULL
      /\ \A d \in Ids : d # f => collection'[d] = collection[d]
  BY <1>2, <1>3 DEF DocsOK
<1>5. FreshInv'
  BY <1>3, <1>4 DEF DocsOK, FreshInv, Ids
<1>6. \A other : Matching(other)' \subseteq Matching(other)
  BY <1>4 DEF Matching, Ids
<1>7. \A other : other # k => Matching(other)' = Matching(other)
  BY <1>2, <1>4 DEF Matching, Ids
<1> QED
  BY <1>3, <1>4, <1>5, <1>6, <1>7 DEF DocsOK, Ids

LEMMA NoWriteKeeps ==
  ASSUME DocsOK, NoWrite
  PROVE  DocsOK' /\ \A k : Matching(k)' = Matching(k)
BY DEF NoWrite, DocsOK, FreshInv, Matching, Ids

-----------------------------------------------------------------------------
(* The calls.                                                                *)

ClientsOK ==
  /\ pc \in [Clients -> {"idle", "insert", "update", "bulk"}]
  /\ call \in [Clients -> [op : Ops, doc : Doc \cup {NULL}] \cup {NULL}]
  /\ bulk \in [Clients -> Seq(Doc)]
  /\ nUpserted \in [Clients -> 0..2]
  /\ result \in [Clients -> [op : Ops, ok : BOOLEAN, count : 0..2] \cup {NULL}]
  /\ \A c \in Clients : pc[c] \in {"insert", "update"} => call[c] \in [op : Ops, doc : Doc]
  /\ \A c \in Clients : Len(bulk[c]) + nUpserted[c] <= 2

UpdatesOK ==
  \A c \in Clients : pc[c] = "update" /\ call[c].doc.key \notin Removable =>
                        Matching(call[c].doc.key) # {}

HistoryOK == blind \subseteq Clients /\ blindIds \subseteq Ids

LEMMA Parts ==
  ASSUME KeyInv
  PROVE  DocsOK /\ ClientsOK /\ DuplicatesBounded /\ UpdatesOK /\ HistoryOK
BY DEF KeyInv, TypeOK, FreshInv, CallInv, DocsOK, ClientsOK, UpdatesOK, HistoryOK

LEMMA Whole ==
  ASSUME DocsOK', ClientsOK', DuplicatesBounded', UpdatesOK', HistoryOK'
  PROVE  KeyInv'
<1>1. TypeOK' /\ FreshInv'
  BY DEF TypeOK, DocsOK, ClientsOK, HistoryOK
<1>2. CallInv'
  BY DEF CallInv, ClientsOK, UpdatesOK
<1> QED
  BY <1>1, <1>2 DEF KeyInv

\* The ways in which documents and inserts under way can change.
LEMMA Counted ==
  ASSUME NEW M, NEW P \in SUBSET Clients, NEW MM, NEW PP \in SUBSET Clients,
         IsFiniteSet(M), Cardinality(M) + Cardinality(P) <= Cardinality(Clients),
         \/ MM \subseteq M /\ PP \subseteq P
         \/ MM = {}
         \/ \E d : MM = M \cup {d} /\ \E c \in P : PP = P \ {c}
         \/ \E d : MM = {d} /\ \E c \in Clients : c \notin PP
  PROVE  Cardinality(MM) + Cardinality(PP) <= Cardinality(Clients)
<1>1. /\ IsFiniteSet(P) /\ IsFiniteSet(PP)
      /\ Cardinality(P) \in Nat /\ Cardinality(PP) \in Nat /\ Cardinality(M) \in Nat
      /\ Cardinality(Clients) \in Nat /\ Cardinality(PP) <= Cardinality(Clients)
  BY ClientsAssumption, FS_Subset, FS_CardinalityType
<1>2. CASE MM \subseteq M /\ PP \subseteq P
  <2>1. IsFiniteSet(MM) /\ Cardinality(MM) <= Cardinality(M)
    BY <1>2, FS_Subset
  <2>2. Cardinality(MM) \in Nat
    BY <2>1, FS_CardinalityType
  <2>3. Cardinality(PP) <= Cardinality(P)
    BY <1>1, <1>2, FS_Subset
  <2> QED
    BY <1>1, <2>1, <2>2, <2>3
<1>3. CASE MM = {}
  BY <1>1, <1>3, FS_EmptySet
<1>4. ASSUME NEW d, MM = M \cup {d}, NEW c \in P, PP = P \ {c}
      PROVE  Cardinality(MM) + Cardinality(PP) <= Cardinality(Clients)
  <2>1. Cardinality(MM) = IF d \in M THEN Cardinality(M) ELSE Cardinality(M) + 1
    BY <1>4, FS_AddElement
  <2>2. Cardinality(PP) = Cardinality(P) - 1
    BY <1>1, <1>4, FS_RemoveElement
  <2> QED
    BY <1>1, <2>1, <2>2
<1>5. ASSUME NEW d, MM = {d}, NEW c \in Clients, c \notin PP
      PROVE  Cardinality(MM) + Cardinality(PP) <= Cardinality(Clients)
  <2>1. Cardinality(MM) = 1
    BY <1>5, FS_Singleton
  <2>2. /\ IsFiniteSet(Clients \ {c})
        /\ Cardinality(Clients \ {c}) = Cardinality(Clients) - 1
    BY <1>5, ClientsAssumption, FS_RemoveElement
  <2>3. Cardinality(PP) <= Cardinality(Clients \ {c})
    BY <1>5, <2>2, FS_Subset
  <2> QED
    BY <1>1, <2>1, <2>2, <2>3
<1> QED
  BY <1>2, <1>3, <1>4, <1>5

LEMMA BoundKeeps ==
  ASSUME DuplicatesBounded,
         ASSUME NEW k \in Keys
         PROVE  \/ Sighted(k)' \subseteq Sighted(k) /\ Pending(k)' \subseteq Pending(k)
                \/ Sighted(k)' = {}
                \/ \E d : Sighted(k)' = Sighted(k) \cup {d} /\
                          \E c \in Pending(k) : Pending(k)' = Pending(k) \ {c}
                \/ \E d : Sighted(k)' = {d} /\ \E c \in Clients : c \notin Pending(k)'
  PROVE  DuplicatesBounded'
<1> SUFFICES ASSUME NEW k \in Keys
             PROVE  Cardinality(Sighted(k)') + Cardinality(Pending(k)') <= Cardinality(Clients)
  BY DEF DuplicatesBounded
<1>1. Cardinality(Sighted(k)) + Cardinality(Pending(k)) <= Cardinality(Clients)
  BY DEF DuplicatesBounded
<1>2. IsFiniteSet(Sighted(k))
  BY MatchingFinite, FS_Subset DEF Sighted
<1>3. Pending(k) \in SUBSET Clients /\ Pending(k)' \in SUBSET Clients
  BY DEF Pending
<1> QED
  BY <1>1, <1>2, <1>3, Counted

\* A step that adds neither documents nor inserts keeps the bound.
LEMMA BoundStays ==
  ASSUME DuplicatesBounded, blindIds' = blindIds,
         \A k \in Keys : Matching(k)' \subseteq Matching(k) /\ Pending(k)' \subseteq Pending(k)
  PROVE  DuplicatesBounded'
<1>1. \A k \in Keys : Sighted(k)' \subseteq Sighted(k)
  BY DEF Sighted
<1> QED
  BY <1>1, BoundKeeps

LEMMA UpdatesFrom ==
  ASSUME ASSUME NEW d \in Clients, NEW k, k = call'[d].doc.key, pc'[d] = "update",
                k \notin Removable
         PROVE  Matching(k)' # {}
  PROVE  UpdatesOK'
<1> SUFFICES ASSUME NEW d \in Clients, NEW k, k = call'[d].doc.key, pc'[d] = "update",
                    k \notin Removable
             PROVE  Matching(k)' # {}
  BY DEF UpdatesOK, Matching
<1> QED
  OBVIOUS

\* Calls that go on to update did so before.
LEMMA UpdatesKeep ==
  ASSUME UpdatesOK, call' = call,
         \A k : k \notin Removable /\ Matching(k) # {} => Matching(k)' # {},
         \A d \in Clients : pc'[d] = "update" => pc[d] = "update"
  PROVE  UpdatesOK'
<1>1. ASSUME NEW d \in Clients, NEW k, k = call'[d].doc.key, pc'[d] = "update",
             k \notin Removable
      PROVE  Matching(k)' # {}
  BY <1>1 DEF UpdatesOK
<1> QED
  BY <1>1, UpdatesFrom

LEMMA InitInv == Init => KeyInv
<1> SUFFICES ASSUME Init PROVE KeyInv
  OBVIOUS
<1>1. TypeOK
  <2>1. << >> \in Seq(Doc)
    OBVIOUS
  <2> QED
    BY <2>1, MaxDocsAssumption DEF Init, TypeOK
<1>2. FreshInv /\ CallInv
  BY DEF Init, FreshInv, CallInv
<1>3. DuplicatesBounded
  <2> SUFFICES ASSUME NEW k \in Keys
               PROVE  Cardinality(Sighted(k)) + Cardinality(Pending(k)) <= Cardinality(Clients)
    BY DEF DuplicatesBounded
  <2>1. Sighted(k) = {} /\ Pending(k) = {}
    BY DEF Init, Matching, Sighted, Pending
  <2> QED
    BY <2>1, FS_EmptySet, FS_CardinalityType, ClientsAssumption
<1> QED
  BY <1>1, <1>2, <1>3 DEF KeyInv

-----------------------------------------------------------------------------
LEMMA Returned ==
  ASSUME ClientsOK, NEW c \in Clients, NEW op \in Ops, NEW ok \in BOOLEAN, NEW count \in 0..2,
         Return(c, op, ok, count)
  PROVE  /\ pc' \in [Clients -> {"idle", "insert", "update", "bulk"}]
         /\ pc'[c] = "idle" /\ \A d \in Clients : d # c => pc'[d] = pc[d]
         /\ result' \in [Clients -> [op : Ops, ok : BOOLEAN, count : 0..2] \cup {NULL}]
BY DEF ClientsOK, Return

\* A call that ends and leaves its document as it was.
LEMMA EndKeeps ==
  ASSUME ClientsOK, NEW c \in Clients, NEW op \in Ops, NEW ok \in BOOLEAN, NEW count \in 0..2,
         Return(c, op, ok, count), UNCHANGED <<call, bulk, nUpserted>>,
         blind' = blind \/ blind' = blind \ {c}
  PROVE  /\ ClientsOK'
         /\ \A k : Pending(k)' = Pending(k) \ {c}
         /\ \A d \in Clients : pc'[d] = "update" => d # c /\ pc[d] = "update"
<1>1. /\ pc' \in [Clients -> {"idle", "insert", "update", "bulk"}]
      /\ pc'[c] = "idle" /\ \A d \in Clients : d # c => pc'[d] = pc[d]
      /\ result' \in [Clients -> [op : Ops, ok : BOOLEAN, count : 0..2] \cup {NULL}]
  BY Returned
<1>2. ClientsOK'
  BY <1>1 DEF ClientsOK
<1>3. \A k : Pending(k)' = Pending(k) \ {c}
  BY <1>1 DEF Pending
<1>4. \A d \in Clients : pc'[d] = "update" => d # c /\ pc[d] = "update"
  BY <1>1
<1> QED
  BY <1>2, <1>3, <1>4

\* The query sees no document of its key before an insert, one before an update.
LEMMA QueryKeeps ==
  ASSUME KeyInv, NEW c \in Clients, NEW op \in {"insertIfNotExist", "updateOrInsert"},
         NEW doc \in Doc, Query(c, op, doc)
  PROVE  KeyInv'
<1>1. DocsOK /\ ClientsOK /\ DuplicatesBounded /\ UpdatesOK /\ HistoryOK
  BY Parts
<1>2. DocsOK' /\ \A k : Matching(k)' = Matching(k)
  BY <1>1, NoWriteKeeps DEF Query, NoWrite
<1> DEFINE this == [op |-> op, doc |-> doc]
<1>3. /\ pc[c] = "idle" /\ call' = [call EXCEPT ![c] = this]
      /\ bulk' = bulk /\ nUpserted' = nUpserted
  BY DEF Query
<1>4. this \in [op : Ops, doc : Doc] /\ this.doc = doc
  BY DEF Ops
<1> HIDE DEF this
<1>5. /\ call' \in [Clients -> [op : Ops, doc : Doc \cup {NULL}] \cup {NULL}]
      /\ call'[c] = this /\ \A d \in Clients : d # c => call'[d] = call[d]
  <2>1. [op : Ops, doc : Doc] \subseteq [op : Ops, doc : Doc \cup {NULL}]
    OBVIOUS
  <2> QED
    BY <1>1, <1>3, <1>4, <2>1 DEF ClientsOK
<1>6. PICK found \in Finds(c, doc.key) :
        /\ \/ ~found /\ pc' = [pc EXCEPT ![c] = "insert"] /\ UNCHANGED result
           \/ /\ found /\ op = "updateOrInsert"
              /\ pc' = [pc EXCEPT ![c] = "update"] /\ UNCHANGED result
           \/ found /\ op = "insertIfNotExist" /\ Return(c, op, FALSE, 0)
        /\ blind' = IF found \/ Absent(doc.key) THEN blind ELSE blind \cup {c}
  BY DEF Query
<1>7. found => ~Absent(doc.key)
  BY DEF Finds
<1>8. /\ pc' \in [Clients -> {"idle", "insert", "update", "bulk"}]
      /\ \A d \in Clients : d # c => pc'[d] = pc[d]
      /\ pc'[c] = "insert" => Absent(doc.key) \/ c \in blind'
      /\ pc'[c] = "update" => ~ Absent(doc.key)
      /\ result' \in [Clients -> [op : Ops, ok : BOOLEAN, count : 0..2] \cup {NULL}]
  <2>1. CASE ~found /\ pc' = [pc EXCEPT ![c] = "insert"] /\ UNCHANGED result
    BY <1>1, <1>6, <2>1 DEF ClientsOK
  <2>2. CASE found /\ pc' = [pc EXCEPT ![c] = "update"] /\ UNCHANGED result
    BY <1>1, <1>7, <2>2 DEF ClientsOK
  <2>3. CASE Return(c, op, FALSE, 0)
    <3>1. op \in Ops /\ FALSE \in BOOLEAN /\ 0 \in 0..2
      BY DEF Ops
    <3>2. /\ pc' \in [Clients -> {"idle", "insert", "update", "bulk"}]
          /\ pc'[c] = "idle" /\ \A d \in Clients : d # c => pc'[d] = pc[d]
          /\ result' \in [Clients -> [op : Ops, ok : BOOLEAN, count : 0..2] \cup {NULL}]
      BY <1>1, <2>3, <3>1, Returned
    <3> QED
      BY <3>2
  <2> QED
    BY <1>6, <2>1, <2>2, <2>3
<1>9. blindIds' = blindIds /\ blind \subseteq blind' /\ blind' \subseteq blind \cup {c}
  BY <1>6 DEF Query
<1>10. HistoryOK'
  BY <1>1, <1>9 DEF HistoryOK, Ids
<1>11. ClientsOK'
  BY <1>1, <1>3, <1>4, <1>5, <1>8 DEF ClientsOK
<1>12. DuplicatesBounded'
  <2> SUFFICES ASSUME NEW k \in Keys
               PROVE  \/ Sighted(k)' \subseteq Sighted(k) /\ Pending(k)' \subseteq Pending(k)
                      \/ Sighted(k)' = {}
    BY <1>1, BoundKeeps
  <2>1. CASE k = doc.key /\ Absent(doc.key)
    BY <1>2, <2>1 DEF Absent, Sighted
  <2>2. CASE ~ (k = doc.key /\ Absent(doc.key))
    <3>1. Pending(k)' \subseteq Pending(k)
      <4>1. c \notin Pending(k)'
        BY <1>4, <1>5, <1>8, <2>2 DEF Pending
      <4>2. ASSUME NEW d \in Pending(k)', d # c
            PROVE  d \in Pending(k)
        BY <1>5, <1>9, <1>8, <4>2 DEF Pending
      <4> QED
        BY <4>1, <4>2
    <3> QED
      BY <1>2, <1>9, <3>1 DEF Sighted
  <2> QED
    BY <2>1, <2>2
<1>13. UpdatesOK'
  <2>1. ASSUME NEW d \in Clients, NEW k, k = call'[d].doc.key, pc'[d] = "update",
               k \notin Removable
        PROVE  Matching(k)' # {}
    <3>1. CASE d = c
      BY <1>2, <1>4, <1>5, <1>8, <2>1, <3>1 DEF Absent
    <3>2. CASE d # c
      BY <1>1, <1>2, <1>5, <1>8, <2>1, <3>2 DEF UpdatesOK
    <3> QED
      BY <3>1, <3>2
  <2> QED
    BY <2>1, UpdatesFrom
<1> QED
  BY <1>2, <1>11, <1>12, <1>13, <1>10, Whole

\* The insert takes the place of the pending one.
LEMMA InsertKeeps ==
  ASSUME KeyInv, NEW c \in Clients, FinishInsert(c)
  PROVE  KeyInv'
<1>1. DocsOK /\ ClientsOK /\ DuplicatesBounded /\ UpdatesOK /\ HistoryOK
  BY Parts
<1>2. pc[c] = "insert" /\ call[c] \in [op : Ops, doc : Doc]
  BY <1>1 DEF FinishInsert, ClientsOK
<1> PICK doc \in Doc : doc = call[c].doc
  BY <1>2
<1>3. /\ ClientsOK'
      /\ \A k : Pending(k)' = Pending(k) \ {c}
      /\ \A d \in Clients : pc'[d] = "update" => d # c /\ pc[d] = "update"
  <2>1. Return(c, call[c].op, call[c].op = "insertIfNotExist", 0)
    BY DEF FinishInsert
  <2>2. call[c].op \in Ops /\ (call[c].op = "insertIfNotExist") \in BOOLEAN /\ 0 \in 0..2
    BY <1>2
  <2> QED
    BY <1>1, <2>1, <2>2, EndKeeps DEF FinishInsert
<1>4. doc.key \in Keys /\ call' = call
  BY DEF FinishInsert, Doc
<1>5. c \in blind \/ c \in Pending(doc.key)
  BY <1>2 DEF Pending
<1>6. \/ Put(doc) /\ blindIds' = IF c \in blind THEN blindIds \cup {inserted + 1} ELSE blindIds
      \/ NoWrite /\ blindIds' = blindIds
  BY DEF FinishInsert
<1>7. CASE Put(doc) /\ blindIds' = IF c \in blind THEN blindIds \cup {inserted + 1} ELSE blindIds
  <2>1. /\ DocsOK'
        /\ Matching(doc.key)' = Matching(doc.key) \cup {inserted + 1}
        /\ \A k : k # doc.key => Matching(k)' = Matching(k)
    BY <1>1, <1>7, PutAdds
  <2>2. DuplicatesBounded'
    <3>1. ASSUME NEW k \in Keys
          PROVE  \/ Sighted(k)' \subseteq Sighted(k) /\ Pending(k)' \subseteq Pending(k)
                 \/ \E d : Sighted(k)' = Sighted(k) \cup {d} /\
                           \E e \in Pending(k) : Pending(k)' = Pending(k) \ {e}
      <4>1. CASE c \in blind \/ k # doc.key \/ inserted + 1 \in blindIds
        <5>1. Sighted(k)' \subseteq Sighted(k)
          BY <1>7, <2>1, <4>1 DEF Sighted
        <5> QED
          BY <1>3, <5>1
      <4>2. CASE ~(c \in blind \/ k # doc.key \/ inserted + 1 \in blindIds)
        <5>1. Sighted(k)' = Sighted(k) \cup {inserted + 1}
          BY <1>7, <2>1, <4>2 DEF Sighted
        <5> QED
          BY <1>3, <1>5, <4>2, <5>1
      <4> QED
        BY <4>1, <4>2
    <3> QED
      BY <1>1, <3>1, BoundKeeps
  <2>3. UpdatesOK'
    BY <1>1, <1>3, <1>4, <2>1, UpdatesKeep
  <2>4. HistoryOK'
    <3>1. inserted + 1 \in Ids
      BY <1>1, <1>7, MaxDocsAssumption DEF DocsOK, Put, Ids
    <3>2. blind' = blind \ {c}
      BY DEF FinishInsert
    <3> QED
      BY <1>1, <1>7, <3>1, <3>2 DEF HistoryOK, Ids
  <2> QED
    BY <1>3, <2>1, <2>2, <2>3, <2>4, Whole
<1>8. CASE NoWrite /\ blindIds' = blindIds
  <2>1. DocsOK' /\ \A k : Matching(k)' = Matching(k)
    BY <1>1, <1>8, NoWriteKeeps
  <2>2. DuplicatesBounded'
    BY <1>1, <1>3, <1>8, <2>1, BoundStays
  <2>3. UpdatesOK'
    BY <1>1, <1>3, <1>4, <2>1, UpdatesKeep
  <2>4. HistoryOK'
    <3>1. blind' = blind \ {c}
      BY DEF FinishInsert
    <3> QED
      BY <1>1, <1>8, <3>1 DEF HistoryOK, Ids
  <2> QED
    BY <1>3, <2>1, <2>2, <2>3, <2>4, Whole
<1> QED
  BY <1>6, <1>7, <1>8

LEMMA UpdateKeeps ==
  ASSUME KeyInv, NEW c \in Clients, FinishUpdate(c)
  PROVE  KeyInv'
<1>0. blind' = blind /\ blindIds' = blindIds
  BY DEF FinishUpdate, history
<1>1. DocsOK /\ ClientsOK /\ DuplicatesBounded /\ UpdatesOK /\ HistoryOK
  BY Parts
<1>2. call[c] \in [op : Ops, doc : Doc] /\ call' = call
  BY <1>1 DEF FinishUpdate, ClientsOK
<1> PICK doc \in Doc : doc = call[c].doc
  BY <1>2
<1>3. /\ ClientsOK'
      /\ \A k : Pending(k)' = Pending(k) \ {c}
      /\ \A d \in Clients : pc'[d] = "update" => d # c /\ pc[d] = "update"
  <2>1. Return(c, "updateOrInsert", TRUE, 0)
    BY DEF FinishUpdate
  <2>2. "updateOrInsert" \in Ops /\ TRUE \in BOOLEAN /\ 0 \in 0..2
    BY DEF Ops
  <2> QED
    BY <1>0, <1>1, <2>1, <2>2, EndKeeps DEF FinishUpdate
<1>4. Replace(doc) \/ NoWrite
  BY DEF FinishUpdate
<1>5. DocsOK' /\ \A k : Matching(k)' = Matching(k)
  BY <1>1, <1>4, ReplaceKeeps, NoWriteKeeps
<1>6. DuplicatesBounded'
  BY <1>0, <1>1, <1>3, <1>5, BoundStays
<1>7. UpdatesOK'
  BY <1>1, <1>2, <1>3, <1>5, UpdatesKeep
<1>10. HistoryOK'
  BY <1>0, <1>1 DEF HistoryOK, Ids
<1> QED
  BY <1>10, <1>3, <1>5, <1>6, <1>7, Whole

LEMMA BulkBegins ==
  ASSUME KeyInv, NEW c \in Clients, NEW docs \in [1..2 -> Doc], upsertMany(c, docs)
  PROVE  KeyInv'
<1>0. blind' = blind /\ blindIds' = blindIds
  BY DEF upsertMany, history
<1>1. DocsOK /\ ClientsOK /\ DuplicatesBounded /\ UpdatesOK /\ HistoryOK
  BY Parts
<1>2. DocsOK' /\ \A k : Matching(k)' = Matching(k)
  BY <1>1, NoWriteKeeps DEF upsertMany, NoWrite
<1>3. docs \in Seq(Doc) /\ Len(docs) = 2
  <2>1. docs \in Seq(Doc)
    BY SeqDef
  <2>2. Len(docs) \in Nat /\ DOMAIN docs = 1..Len(docs)
    BY <2>1, LenProperties
  <2>3. 1..Len(docs) = 1..2
    BY <2>2
  <2> QED
    BY <2>1, <2>2, <2>3
<1> DEFINE this == [op |-> "upsertMany", doc |-> NULL]
<1>4. /\ pc[c] = "idle" /\ pc' = [pc EXCEPT ![c] = "bulk"]
      /\ call' = [call EXCEPT ![c] = this] /\ bulk' = [bulk EXCEPT ![c] = docs]
      /\ nUpserted' = [nUpserted EXCEPT ![c] = 0] /\ result' = result
  BY DEF upsertMany
<1>5. this \in [op : Ops, doc : Doc \cup {NULL}]
  BY DEF Ops
<1> HIDE DEF this
<1>6. /\ pc' \in [Clients -> {"idle", "insert", "update", "bulk"}]
      /\ call' \in [Clients -> [op : Ops, doc : Doc \cup {NULL}] \cup {NULL}]
      /\ bulk' \in [Clients -> Seq(Doc)] /\ nUpserted' \in [Clients -> 0..2]
      /\ pc'[c] = "bulk" /\ bulk'[c] = docs /\ nUpserted'[c] = 0
      /\ \A d \in Clients : d # c => pc'[d] = pc[d] /\ call'[d] = call[d]
                                       /\ bulk'[d] = bulk[d] /\ nUpserted'[d] = nUpserted[d]
  BY <1>1, <1>3, <1>4, <1>5 DEF ClientsOK
<1>7. ClientsOK'
  <2>1. ASSUME NEW d \in Clients, pc'[d] \in {"insert", "update"}
        PROVE  call'[d] \in [op : Ops, doc : Doc]
    BY <1>1, <1>6, <2>1 DEF ClientsOK
  <2>2. ASSUME NEW d \in Clients
        PROVE  Len(bulk'[d]) + nUpserted'[d] <= 2
    <3>1. CASE d = c
      <4>1. bulk'[d] = docs /\ nUpserted'[d] = 0 /\ Len(docs) = 2
        BY <1>3, <1>6, <3>1
      <4>2. 2 + 0 <= 2
        OBVIOUS
      <4> QED
        BY <4>1, <4>2
    <3>2. CASE d # c
      BY <1>1, <1>6, <3>2 DEF ClientsOK
    <3> QED
      BY <3>1, <3>2
  <2>3. result' \in [Clients -> [op : Ops, ok : BOOLEAN, count : 0..2] \cup {NULL}]
    BY <1>1, <1>4 DEF ClientsOK
  <2> QED
    BY <1>6, <2>1, <2>2, <2>3 DEF ClientsOK
<1>8. DuplicatesBounded'
  <2>1. \A k : Pending(k)' \subseteq Pending(k)
    BY <1>0, <1>6 DEF Pending
  <2> QED
    BY <1>0, <1>1, <1>2, <2>1, BoundStays
<1>9. UpdatesOK'
  <2>1. ASSUME NEW d \in Clients, NEW k, k = call'[d].doc.key, pc'[d] = "update",
               k \notin Removable
        PROVE  Matching(k)' # {}
    BY <1>1, <1>2, <1>6, <2>1 DEF UpdatesOK
  <2> QED
    BY <2>1, UpdatesFrom
<1>10. HistoryOK'
  BY <1>0, <1>1 DEF HistoryOK, Ids
<1> QED
  BY <1>10, <1>2, <1>7, <1>8, <1>9, Whole

LEMMA DifferKeeps ==
  ASSUME KeyInv, NEW c \in Clients, SizesDiffer(c)
  PROVE  KeyInv'
<1>0. blind' = blind /\ blindIds' = blindIds
  BY DEF SizesDiffer, history
<1>1. DocsOK /\ ClientsOK /\ DuplicatesBounded /\ UpdatesOK /\ HistoryOK
  BY Parts
<1>2. DocsOK' /\ \A k : Matching(k)' = Matching(k)
  BY <1>1, NoWriteKeeps DEF SizesDiffer, NoWrite
<1>3. /\ ClientsOK'
      /\ \A k : Pending(k)' = Pending(k) \ {c}
      /\ \A d \in Clients : pc'[d] = "update" => d # c /\ pc[d] = "update"
  <2>1. "upsertMany" \in Ops /\ FALSE \in BOOLEAN /\ 0 \in 0..2
    BY DEF Ops
  <2> QED
    BY <1>0, <1>1, <2>1, EndKeeps DEF SizesDiffer
<1>4. DuplicatesBounded'
  BY <1>0, <1>1, <1>2, <1>3, BoundStays
<1>5. UpdatesOK'
  BY <1>1, <1>2, <1>3, UpdatesKeep DEF SizesDiffer
<1>10. HistoryOK'
  BY <1>0, <1>1 DEF HistoryOK, Ids
<1> QED
  BY <1>10, <1>2, <1>3, <1>4, <1>5, Whole

\* An upsert inserts only where there was no document of the key.
LEMMA UpsertKeeps ==
  ASSUME KeyInv, NEW c \in Clients, UpsertNext(c)
  PROVE  KeyInv'
<1>0. blind' = blind /\ blindIds' = blindIds
  BY DEF UpsertNext, history
<1>1. DocsOK /\ ClientsOK /\ DuplicatesBounded /\ UpdatesOK /\ HistoryOK
  BY Parts
<1>2. /\ pc[c] = "bulk" /\ bulk[c] # << >> /\ bulk' = [bulk EXCEPT ![c] = Tail(bulk[c])]
      /\ pc' = pc /\ call' = call /\ result' = result
  BY DEF UpsertNext
<1>3. bulk[c] \in Seq(Doc) /\ Head(bulk[c]) \in Doc
  BY <1>1, <1>2, HeadTailProperties DEF ClientsOK
<1>4. Tail(bulk[c]) \in Seq(Doc) /\ Len(Tail(bulk[c])) = Len(bulk[c]) - 1 /\ Len(bulk[c]) \in Nat
  BY <1>2, <1>3, HeadTailProperties, LenProperties
<1> PICK doc \in Doc : doc = Head(bulk[c])
  BY <1>3
<1>5. \/ /\ Matching(doc.key) = {} /\ Put(doc)
         /\ nUpserted' = [nUpserted EXCEPT ![c] = nUpserted[c] + 1]
      \/ Replace(doc) /\ nUpserted' = nUpserted
  BY DEF UpsertNext
<1>6. /\ nUpserted[c] \in Nat /\ Len(bulk[c]) + nUpserted[c] <= 2 /\ 1 <= Len(bulk[c])
  <2>1. nUpserted[c] \in 0..2 /\ Len(bulk[c]) + nUpserted[c] <= 2
    BY <1>1 DEF ClientsOK
  <2>2. Len(bulk[c]) \in Nat \ {0}
    BY <1>2, <1>3, EmptySeq
  <2> QED
    BY <2>1, <2>2
<1>7. /\ nUpserted' \in [Clients -> 0..2]
      /\ nUpserted'[c] \in {nUpserted[c], nUpserted[c] + 1}
      /\ \A d \in Clients : d # c => nUpserted'[d] = nUpserted[d]
  <2>1. nUpserted[c] + 1 \in 0..2
    BY <1>4, <1>6
  <2> QED
    BY <1>1, <1>5, <2>1 DEF ClientsOK
<1>8. /\ bulk' \in [Clients -> Seq(Doc)] /\ bulk'[c] = Tail(bulk[c])
      /\ \A d \in Clients : d # c => bulk'[d] = bulk[d]
  BY <1>1, <1>2, <1>4 DEF ClientsOK
<1>9. ClientsOK'
  <2>1. ASSUME NEW d \in Clients
        PROVE  Len(bulk'[d]) + nUpserted'[d] <= 2
    <3>1. CASE d = c
      BY <1>4, <1>6, <1>7, <1>8, <3>1
    <3>2. CASE d # c
      BY <1>1, <1>7, <1>8, <3>2 DEF ClientsOK
    <3> QED
      BY <3>1, <3>2
  <2> QED
    BY <1>1, <1>2, <1>7, <1>8, <2>1 DEF ClientsOK
<1>10. \A k : Pending(k)' = Pending(k) /\ c \notin Pending(k)
  BY <1>0, <1>2 DEF Pending
<1>13. HistoryOK'
  BY <1>0, <1>1 DEF HistoryOK, Ids
<1>11. CASE Matching(doc.key) = {} /\ Put(doc)
  <2>1. /\ DocsOK'
        /\ Matching(doc.key)' = {inserted + 1}
        /\ \A k : k # doc.key => Matching(k)' = Matching(k)
    BY <1>1, <1>11, PutAdds
  <2>2. DuplicatesBounded'
    <3>1. ASSUME NEW k \in Keys
          PROVE  \/ Sighted(k)' \subseteq Sighted(k) /\ Pending(k)' \subseteq Pending(k)
                 \/ Sighted(k)' = {}
                 \/ \E d : Sighted(k)' = {d} /\ \E e \in Clients : e \notin Pending(k)'
      BY <1>0, <1>10, <2>1 DEF Sighted
    <3> QED
      BY <1>1, <3>1, BoundKeeps
  <2>3. \A k : Matching(k) # {} => Matching(k)' # {}
    BY <2>1
  <2>4. UpdatesOK'
    BY <1>1, <1>2, <2>3, UpdatesKeep
  <2> QED
    BY <1>13, <1>9, <2>1, <2>2, <2>4, Whole
<1>12. CASE Replace(doc)
  <2>1. DocsOK' /\ \A k : Matching(k)' = Matching(k)
    BY <1>1, <1>12, ReplaceKeeps
  <2>2. DuplicatesBounded'
    BY <1>0, <1>1, <1>10, <2>1, BoundStays
  <2>3. UpdatesOK'
    BY <1>1, <1>2, <2>1, UpdatesKeep
  <2> QED
    BY <1>13, <1>9, <2>1, <2>2, <2>3, Whole
<1> QED
  BY <1>5, <1>11, <1>12

LEMMA BulkEnds ==
  ASSUME KeyInv, NEW c \in Clients, BulkFails(c) \/ BulkReturns(c)
  PROVE  KeyInv'
<1>0. blind' = blind /\ blindIds' = blindIds
  BY DEF BulkFails, BulkReturns, history
<1>1. DocsOK /\ ClientsOK /\ DuplicatesBounded /\ UpdatesOK /\ HistoryOK
  BY Parts
<1>2. DocsOK' /\ \A k : Matching(k)' = Matching(k)
  BY <1>1, NoWriteKeeps DEF BulkFails, BulkReturns, NoWrite
<1>3. PICK ok \in BOOLEAN, count \in 0..2 : Return(c, "upsertMany", ok, count)
  <2>1. FALSE \in BOOLEAN /\ TRUE \in BOOLEAN /\ 0 \in 0..2 /\ nUpserted[c] \in 0..2
    BY <1>1 DEF ClientsOK
  <2>2. CASE BulkFails(c)
    BY <2>1, <2>2 DEF BulkFails
  <2>3. CASE BulkReturns(c)
    BY <2>1, <2>3 DEF BulkReturns
  <2> QED
    BY <2>2, <2>3
<1>4. /\ pc' \in [Clients -> {"idle", "insert", "update", "bulk"}]
      /\ pc'[c] = "idle" /\ \A d \in Clients : d # c => pc'[d] = pc[d]
      /\ result' \in [Clients -> [op : Ops, ok : BOOLEAN, count : 0..2] \cup {NULL}]
  <2>1. "upsertMany" \in Ops
    BY DEF Ops
  <2> QED
    BY <1>1, <1>3, <2>1, Returned
<1>5. call' = call /\ nUpserted' = nUpserted /\ bulk' = [bulk EXCEPT ![c] = << >>]
  <2>1. BulkReturns(c) => bulk = [bulk EXCEPT ![c] = << >>]
    BY <1>1 DEF BulkReturns, ClientsOK
  <2> QED
    BY <2>1 DEF BulkFails, BulkReturns
<1>6. ClientsOK'
  <2>1. << >> \in Seq(Doc) /\ Len(<< >>) = 0
    BY EmptySeq
  <2>2. /\ bulk' \in [Clients -> Seq(Doc)] /\ bulk'[c] = << >>
        /\ \A d \in Clients : d # c => bulk'[d] = bulk[d]
    BY <1>1, <1>5, <2>1 DEF ClientsOK
  <2>3. ASSUME NEW d \in Clients
        PROVE  Len(bulk'[d]) + nUpserted'[d] <= 2
    <3>1. CASE d = c
      <4>1. Len(bulk'[d]) = 0 /\ nUpserted'[d] \in 0..2
        BY <1>1, <1>5, <2>1, <2>2, <3>1 DEF ClientsOK
      <4>2. \A n \in 0..2 : 0 + n <= 2
        OBVIOUS
      <4> QED
        BY <4>1, <4>2
    <3>2. CASE d # c
      BY <1>1, <1>5, <2>2, <3>2 DEF ClientsOK
    <3> QED
      BY <3>1, <3>2
  <2> QED
    BY <1>1, <1>4, <1>5, <2>2, <2>3 DEF ClientsOK
<1>7. DuplicatesBounded'
  <2>1. \A k : Pending(k)' \subseteq Pending(k)
    BY <1>0, <1>4, <1>5 DEF Pending
  <2> QED
    BY <1>0, <1>1, <1>2, <2>1, BoundStays
<1>8. UpdatesOK'
  BY <1>1, <1>2, <1>4, <1>5, UpdatesKeep
<1>10. HistoryOK'
  BY <1>0, <1>1 DEF HistoryOK, Ids
<1> QED
  BY <1>10, <1>2, <1>6, <1>7, <1>8, Whole

LEMMA RemoveKeeps ==
  ASSUME KeyInv, NEW k \in Keys, remove(k)
  PROVE  KeyInv'
<1>0. blind' = blind /\ blindIds' = blindIds
  BY DEF remove, history
<1>1. DocsOK /\ ClientsOK /\ DuplicatesBounded /\ UpdatesOK /\ HistoryOK
  BY Parts
<1>2. /\ DocsOK'
      /\ \A other : Matching(other)' \subseteq Matching(other)
      /\ \A other : other # k => Matching(other)' = Matching(other)
  BY <1>1, RemoveTakes
<1>3. k \in Removable /\ UNCHANGED <<pc, call, bulk, nUpserted, result>>
  BY DEF remove
<1>4. ClientsOK' /\ \A other : Pending(other)' = Pending(other)
  BY <1>0, <1>1, <1>3 DEF ClientsOK, Pending
<1>5. DuplicatesBounded'
  BY <1>0, <1>1, <1>2, <1>4, BoundStays
<1>6. UpdatesOK'
  BY <1>1, <1>2, <1>3, UpdatesKeep
<1>10. HistoryOK'
  BY <1>0, <1>1 DEF HistoryOK, Ids
<1> QED
  BY <1>10, <1>2, <1>4, <1>5, <1>6, Whole

-----------------------------------------------------------------------------
LEMMA NextInv ==
  ASSUME KeyInv, [Next]_vars
  PROVE  KeyInv'
<1>1. CASE UNCHANGED vars
  BY <1>1 DEF vars, history, KeyInv, TypeOK, DuplicatesBounded, FreshInv, CallInv, Matching, Sighted, Pending
<1> QED
  BY <1>1, QueryKeeps, InsertKeeps, UpdateKeeps, BulkBegins, DifferKeeps, UpsertKeeps,
     BulkEnds, RemoveKeeps DEF Next

\* However many modules write at once and whatever fails, calls whose query saw
\* no document of a key, and was not wrong, never leave more documents of it
\* than there are modules (MongoDatabase.cpp:139-158).
THEOREM KeysCorrect == Spec => []KeyInv
BY InitInv, NextInv, PTL DEF Spec

LEMMA IdleAfter ==
  ASSUME KeyInv, NEW c \in Clients, NEW d \in Clients, NEW op, NEW ok, NEW count,
         Return(d, op, ok, count), d # c
  PROVE  pc'[c] = pc[c]
BY Parts DEF Return, ClientsOK

\* When insertIfNotExist or updateOrInsert return without an error of the
\* server, the document of the key is there, unless it is one that may be
\* removed (MongoDatabase.cpp:139-158).
THEOREM StoredCorrect == Spec => StoredOnReturn
<1>1. ASSUME KeyInv, [Next]_vars, NEW c \in Clients \ Failing, NEW k,
             pc[c] \in {"insert", "update"}, pc'[c] = "idle",
             k = call[c].doc.key, k \notin Removable
      PROVE  Matching(k)' # {} /\ call' = call
  <2>1. DocsOK /\ ClientsOK /\ UpdatesOK
    BY <1>1, Parts
  <2>2. \/ FinishInsert(c)
        \/ FinishUpdate(c)
    <3>1. Next
      BY <1>1 DEF vars
    <3>2. ASSUME NEW k2 \in Keys, remove(k2)
          PROVE  FALSE
      BY <1>1, <3>2 DEF remove
    <3>3. ASSUME NEW d \in Clients, NEW op, NEW doc, Query(d, op, doc)
          PROVE  FALSE
      BY <1>1, <2>1, <3>3 DEF Query, Return, ClientsOK
    <3>4. ASSUME NEW d \in Clients, NEW docs, upsertMany(d, docs)
          PROVE  FALSE
      BY <1>1, <2>1, <3>4 DEF upsertMany, ClientsOK
    <3>5. ASSUME NEW d \in Clients, SizesDiffer(d) \/ BulkFails(d) \/ BulkReturns(d)
          PROVE  FALSE
      BY <1>1, <2>1, <3>5 DEF SizesDiffer, BulkFails, BulkReturns, Return, ClientsOK
    <3>6. ASSUME NEW d \in Clients, UpsertNext(d)
          PROVE  FALSE
      BY <1>1, <3>6 DEF UpsertNext
    <3>7. ASSUME NEW d \in Clients, d # c, FinishInsert(d) \/ FinishUpdate(d)
          PROVE  FALSE
      <4>1. \E op, ok, count : Return(d, op, ok, count)
        BY <3>7 DEF FinishInsert, FinishUpdate
      <4> QED
        BY <1>1, <3>7, <4>1, IdleAfter
    <3> QED
      BY <3>1, <3>2, <3>3, <3>4, <3>5, <3>6, <3>7 DEF Next
  <2>3. call[c] \in [op : Ops, doc : Doc]
    BY <1>1, <2>1 DEF ClientsOK
  <2> PICK doc \in Doc : doc = call[c].doc
    BY <2>3
  <2>4. CASE FinishInsert(c)
    <3>1. Put(doc) /\ call' = call
      BY <2>4 DEF FinishInsert
    <3> QED
      BY <1>1, <2>1, <3>1, PutAdds
  <2>5. CASE FinishUpdate(c)
    <3>1. Replace(doc) /\ pc[c] = "update" /\ call' = call
      BY <2>5 DEF FinishUpdate
    <3>2. Matching(k)' = Matching(k)
      BY <2>1, <3>1, ReplaceKeeps
    <3> QED
      BY <1>1, <2>1, <3>1, <3>2 DEF UpdatesOK
  <2> QED
    BY <2>2, <2>4, <2>5
<1>2. KeyInv /\ [Next]_vars =>
        [\A c \in Clients \ Failing :
           (/\ pc[c] \in {"insert", "update"} /\ pc'[c] = "idle"
            /\ call[c].doc.key \notin Removable)
           => Matching(call[c].doc.key)' # {}]_vars
  <2> SUFFICES ASSUME KeyInv, [Next]_vars, NEW c \in Clients \ Failing,
                      pc[c] \in {"insert", "update"}, pc'[c] = "idle",
                      call[c].doc.key \notin Removable
               PROVE  Matching(call[c].doc.key)' # {}
    OBVIOUS
  <2> PICK k : k = call[c].doc.key
    OBVIOUS
  <2>1. Matching(k)' # {} /\ call' = call
    BY <1>1
  <2> QED
    BY <2>1 DEF Matching
<1> QED
  BY <1>2, KeysCorrect, PTL DEF Spec, StoredOnReturn
-----------------------------------------------------------------------------
(* One client: the collection is a map.                                      *)

\* A call that is about to insert is not a bulk.
OpInv == \A c \in Clients : pc[c] = "insert" => call[c].op \in {"insertIfNotExist", "updateOrInsert"}

LEMMA OpInvariant == Spec => []OpInv
<1>1. Init => OpInv
  BY DEF Init, OpInv
<1>2. KeyInv /\ OpInv /\ [Next]_vars => OpInv'
  <2> SUFFICES ASSUME KeyInv, OpInv, [Next]_vars
               PROVE  OpInv'
    OBVIOUS
  <2>0. ClientsOK
    BY Parts
  <2>1. ASSUME pc' = pc, call' = call
        PROVE  OpInv'
    BY <2>1 DEF OpInv
  <2>2. ASSUME NEW c \in Clients, NEW op, NEW ok, NEW count, Return(c, op, ok, count), call' = call
        PROVE  OpInv'
    BY <2>0, <2>2 DEF OpInv, Return, ClientsOK
  <2>3. ASSUME NEW c \in Clients, NEW op \in {"insertIfNotExist", "updateOrInsert"}, NEW doc \in Doc,
               Query(c, op, doc)
        PROVE  OpInv'
    <3>1. \A d \in Clients : call'[d] = IF d = c THEN [op |-> op, doc |-> doc] ELSE call[d]
      BY <2>0, <2>3 DEF Query, ClientsOK
    <3>2. \A d \in Clients : d # c => pc'[d] = pc[d]
      BY <2>0, <2>3 DEF Query, Return, ClientsOK
    <3>3. call'[c].op = op
      BY <3>1
    <3> QED
      BY <3>1, <3>2, <3>3 DEF OpInv
  <2>4. ASSUME NEW c \in Clients, FinishInsert(c) \/ FinishUpdate(c) \/ SizesDiffer(c) \/ BulkFails(c)
                                  \/ BulkReturns(c)
        PROVE  OpInv'
    <3>1. call' = call /\ \E op, ok, count : Return(c, op, ok, count)
      BY <2>4 DEF FinishInsert, FinishUpdate, SizesDiffer, BulkFails, BulkReturns
    <3> QED
      BY <2>2, <3>1
  <2>5. ASSUME NEW c \in Clients, NEW docs, upsertMany(c, docs)
        PROVE  OpInv'
    BY <2>0, <2>5 DEF OpInv, upsertMany, ClientsOK
  <2>6. ASSUME NEW c \in Clients, UpsertNext(c)
        PROVE  OpInv'
    BY <2>1, <2>6 DEF UpsertNext
  <2>7. ASSUME NEW k \in Keys, remove(k)
        PROVE  OpInv'
    BY <2>1, <2>7 DEF remove
  <2>8. CASE UNCHANGED vars
    BY <2>1, <2>8 DEF vars
  <2> QED
    BY <2>3, <2>4, <2>5, <2>6, <2>7, <2>8 DEF Next
<1> QED
  BY <1>1, <1>2, KeysCorrect, PTL DEF Spec

\* A query that succeeds passes nothing over.
SeesInv == blind = {} /\ blindIds = {}

LEMMA SeesInvariant ==
  ASSUME Failing = {}
  PROVE  Spec => []SeesInv
<1>1. Init => SeesInv
  BY DEF Init, SeesInv
<1>2. SeesInv /\ [Next]_vars => SeesInv'
  <2> SUFFICES ASSUME SeesInv, [Next]_vars
               PROVE  SeesInv'
    OBVIOUS
  <2>1. CASE UNCHANGED history
    BY <2>1 DEF SeesInv, history
  <2>2. ASSUME NEW c, NEW op, NEW doc, Query(c, op, doc)
        PROVE  SeesInv'
    BY <2>2 DEF Query, Finds, SeesInv
  <2>3. ASSUME NEW c, FinishInsert(c)
        PROVE  SeesInv'
    BY <2>3 DEF FinishInsert, SeesInv
  <2> QED
    BY <2>1, <2>2, <2>3 DEF Next, vars, FinishUpdate, upsertMany, SizesDiffer, UpsertNext,
       BulkFails, BulkReturns, remove
<1> QED
  BY <1>1, <1>2, PTL DEF Spec

\* One client leaves at most one document of a key, and none while it is about
\* to insert.
LEMMA AloneFacts ==
  ASSUME KeyInv, SeesInv, NEW me, Clients = {me}
  PROVE  /\ Sole \in Clients /\ \A c \in Clients : c = Sole
         /\ \A k \in Keys : \A d, e \in Matching(k) : d = e
         /\ pc[Sole] = "insert" => Matching(call[Sole].doc.key) = {}
<1>1. Sole = me
  BY DEF Sole
<1>2. Cardinality(Clients) = 1
  BY FS_Singleton
<1>3. ASSUME NEW k \in Keys
      PROVE  /\ IsFiniteSet(Matching(k)) /\ IsFiniteSet(Pending(k))
             /\ Cardinality(Matching(k)) \in Nat /\ Cardinality(Pending(k)) \in Nat
             /\ Cardinality(Matching(k)) + Cardinality(Pending(k)) <= 1
  <2>1. IsFiniteSet(Matching(k)) /\ IsFiniteSet(Pending(k))
    BY MatchingFinite, ClientsAssumption, FS_Subset DEF Pending
  <2>2. Sighted(k) = Matching(k)
    BY DEF SeesInv, Sighted
  <2> QED
    BY <1>2, <2>1, <2>2, Parts, FS_CardinalityType DEF DuplicatesBounded
<1>4. ASSUME NEW k \in Keys, NEW d \in Matching(k), NEW e \in Matching(k), d # e
      PROVE  FALSE
  <2>1. {d, e} \subseteq Matching(k)
    OBVIOUS
  <2>2. Cardinality({d, e}) = 2
    <3>1. IsFiniteSet({d}) /\ Cardinality({d}) = 1 /\ e \notin {d}
      BY <1>4, FS_Singleton
    <3>2. Cardinality({d} \cup {e}) = 1 + 1
      BY <3>1, FS_AddElement
    <3>3. {d} \cup {e} = {d, e}
      OBVIOUS
    <3> QED
      BY <3>2, <3>3
  <2>3. Cardinality({d, e}) <= Cardinality(Matching(k))
    BY <1>3, <2>1, FS_Subset
  <2> QED
    BY <1>3, <2>2, <2>3
<1>5. ASSUME pc[Sole] = "insert"
      PROVE  Matching(call[Sole].doc.key) = {}
  <2>1. PICK k \in Keys : k = call[Sole].doc.key
    BY <1>1, <1>5, Parts DEF ClientsOK, Doc
  <2>2. Sole \in Pending(k)
    BY <1>1, <1>5, <2>1 DEF Pending, SeesInv
  <2>3. Cardinality(Pending(k)) # 0
    BY <1>3, <2>2, FS_EmptySet
  <2>4. Cardinality(Matching(k)) = 0
    BY <1>3, <2>3
  <2>5. Matching(k) = {}
    BY <1>3, <2>4, FS_EmptySet
  <2> QED
    BY <2>1, <2>5
<1> QED
  BY <1>1, <1>4, <1>5

\* The document that stands for a key.
DocOf(coll, M) == IF M = {} THEN NULL ELSE coll[First(M)]

LEMMA StoredAt ==
  /\ Stored = [k \in Keys |-> DocOf(collection, Matching(k))]
  /\ Stored' = [k \in Keys |-> DocOf(collection', Matching(k)')]
BY Zenon DEF Stored, DocOf

LEMMA OneFirst ==
  ASSUME NEW d \in Ids
  PROVE  First({d}) = d
BY FirstIsOne

\* No document stands for a key exactly if there is none.
LEMMA StoredNone ==
  ASSUME DocsOK, NEW k \in Keys
  PROVE  Stored[k] = NULL <=> Matching(k) = {}
<1>1. Stored[k] = DocOf(collection, Matching(k))
  BY StoredAt
<1>2. CASE Matching(k) # {}
  <2>1. First(Matching(k)) \in Matching(k)
    BY <1>2, MatchingFinite, FirstIsOne
  <2>2. collection[First(Matching(k))] # NULL
    BY <2>1 DEF Matching
  <2> QED
    BY <1>1, <1>2, <2>2 DEF DocOf
<1> QED
  BY <1>1, <1>2 DEF DocOf

LEMMA StoredSame ==
  ASSUME collection' = collection
  PROVE  Stored' = Stored
BY DEF Stored, Matching

\* The documents of one key change.
LEMMA StoredChange ==
  ASSUME NEW k \in Keys, NEW v, DocOf(collection', Matching(k)') = v,
         \A j \in Keys : j # k => /\ Matching(j)' = Matching(j)
                                  /\ \A d \in Matching(j) : collection'[d] = collection[d]
  PROVE  Stored' = [Stored EXCEPT ![k] = v]
<1>1. ASSUME NEW j \in Keys, j # k
      PROVE  DocOf(collection', Matching(j)') = DocOf(collection, Matching(j))
  <2>1. CASE Matching(j) = {}
    BY <1>1, <2>1 DEF DocOf
  <2>2. CASE Matching(j) # {}
    <3>1. First(Matching(j)) \in Matching(j)
      BY <2>2, MatchingFinite, FirstIsOne
    <3> QED
      BY <1>1, <2>2, <3>1 DEF DocOf
  <2> QED
    BY <2>1, <2>2
<1> QED
  BY <1>1, StoredAt

LEMMA PutStores ==
  ASSUME DocsOK, NEW doc \in Doc, Put(doc), Matching(doc.key) = {}
  PROVE  Stored' = [Stored EXCEPT ![doc.key] = doc]
<1>1. PICK n \in Ids : n = inserted + 1
  BY MaxDocsAssumption DEF DocsOK, Put, Ids
<1>2. PICK k \in Keys : k = doc.key
  BY DEF Doc
<1>3. /\ collection'[n] = doc
      /\ \A d \in Ids : d # n => collection'[d] = collection[d]
  BY <1>1 DEF Put, DocsOK
<1>4. Matching(k)' = {n} /\ \A j : j # k => Matching(j)' = Matching(j)
  BY <1>1, <1>2, PutAdds
<1>5. DocOf(collection', {n}) = doc
  BY <1>3, OneFirst DEF DocOf
<1>6. ASSUME NEW j \in Keys, j # k
      PROVE  /\ Matching(j)' = Matching(j)
             /\ \A d \in Matching(j) : collection'[d] = collection[d]
  <2>1. n \notin Matching(j)
    <3>1. n > inserted
      BY <1>1, MaxDocsAssumption DEF DocsOK
    <3> QED
      BY <3>1 DEF DocsOK, FreshInv, Matching
  <2>2. \A d \in Matching(j) : d \in Ids /\ d # n
    BY <2>1 DEF Matching
  <2> QED
    BY <1>3, <1>4, <1>6, <2>2
<1>7. DocOf(collection', Matching(k)') = doc
  BY <1>4, <1>5
<1> QED
  BY <1>2, <1>6, <1>7, StoredChange

LEMMA ReplaceStores ==
  ASSUME DocsOK, NEW doc \in Doc, Replace(doc), Matching(doc.key) # {},
         \A d, e \in Matching(doc.key) : d = e
  PROVE  Stored' = [Stored EXCEPT ![doc.key] = doc]
<1>1. PICK k \in Keys : k = doc.key
  BY DEF Doc
<1>2. PICK f \in Ids : f = First(Matching(k)) /\ f \in Matching(k)
  BY <1>1, MatchingFinite, FirstIsOne
<1>3. /\ collection'[f] = doc
      /\ \A d \in Ids : d # f => collection'[d] = collection[d]
  BY <1>1, <1>2 DEF Replace, DocsOK
<1>4. \A j : Matching(j)' = Matching(j)
  BY ReplaceKeeps
<1>5. Matching(k)' = {f}
  BY <1>1, <1>2, <1>4
<1>6. DocOf(collection', {f}) = doc
  BY <1>3, OneFirst DEF DocOf
<1>7. ASSUME NEW j \in Keys, j # k
      PROVE  /\ Matching(j)' = Matching(j)
             /\ \A d \in Matching(j) : collection'[d] = collection[d]
  <2>1. f \notin Matching(j)
    BY <1>2, <1>7 DEF Matching
  <2>2. \A d \in Matching(j) : d \in Ids /\ d # f
    BY <2>1 DEF Matching
  <2> QED
    BY <1>3, <1>4, <2>2
<1>8. DocOf(collection', Matching(k)') = doc
  BY <1>5, <1>6
<1> QED
  BY <1>1, <1>7, <1>8, StoredChange

LEMMA RemoveStores ==
  ASSUME DocsOK, NEW k \in Keys, remove(k), \A d, e \in Matching(k) : d = e
  PROVE  Stored' = [Stored EXCEPT ![k] = NULL]
<1>1. PICK f \in Ids : f = First(Matching(k)) /\ f \in Matching(k)
  BY MatchingFinite, FirstIsOne DEF remove
<1>2. /\ collection'[f] = NULL
      /\ \A d \in Ids : d # f => collection'[d] = collection[d]
  BY <1>1 DEF remove, DocsOK
<1>3. \A j : Matching(j)' \subseteq Matching(j) /\ (j # k => Matching(j)' = Matching(j))
  BY RemoveTakes
<1>4. f \notin Matching(k)'
  BY <1>2 DEF Matching
<1>5. Matching(k)' = {}
  BY <1>1, <1>3, <1>4
<1>6. DocOf(collection', Matching(k)') = NULL
  BY <1>5 DEF DocOf
<1>7. ASSUME NEW j \in Keys, j # k
      PROVE  /\ Matching(j)' = Matching(j)
             /\ \A d \in Matching(j) : collection'[d] = collection[d]
  <2>1. \A d \in Matching(j) : d \in Ids /\ d # f
    BY <1>1, <1>7 DEF Matching
  <2> QED
    BY <1>2, <1>3, <1>7, <2>1
<1> QED
  BY <1>6, <1>7, StoredChange

-----------------------------------------------------------------------------
\* What a call of the one client returns.
LEMMA Answered ==
  ASSUME ClientsOK, Sole \in Clients, NEW op, NEW ok, NEW count, Return(Sole, op, ok, count)
  PROVE  Map!Answer(op, ok, count) /\ Added' = 0
<1>1. result'[Sole] = [op |-> op, ok |-> ok, count |-> count] /\ pc'[Sole] = "idle"
  BY DEF Return, ClientsOK
<1> QED
  BY <1>1 DEF Map!Answer, Added

LEMMA QueryMaps ==
  ASSUME KeyInv, Failing = {}, Sole \in Clients,
         NEW op \in {"insertIfNotExist", "updateOrInsert"}, NEW doc \in Doc,
         Query(Sole, op, doc)
  PROVE  [Map!KNext]_(Map!kvars)
<1>0. DocsOK /\ ClientsOK /\ doc.key \in Keys
  BY Parts DEF Doc
<1>1. Stored' = Stored /\ Added = 0 /\ pc[Sole] = "idle"
  BY StoredSame DEF Query, Added
<1>2. CASE Absent(doc.key) \/ op = "updateOrInsert"
  <2>1. /\ result' = result
        /\ pc' = [pc EXCEPT ![Sole] = "insert"] \/ pc' = [pc EXCEPT ![Sole] = "update"]
    BY <1>2 DEF Query, Finds
  <2>2. Added' = 0
    BY <1>0, <2>1 DEF Added, ClientsOK
  <2> QED
    BY <1>1, <2>1, <2>2 DEF Map!kvars
<1>3. CASE ~(Absent(doc.key) \/ op = "updateOrInsert")
  <2>1. op = "insertIfNotExist" /\ Return(Sole, "insertIfNotExist", FALSE, 0)
    BY <1>3 DEF Query, Finds
  <2>2. Stored[doc.key] # NULL
    BY <1>0, <1>3, StoredNone DEF Absent
  <2>3. Map!Answer("insertIfNotExist", FALSE, 0) /\ Added' = 0
    BY <1>0, <2>1, Answered
  <2>4. Map!insertIfNotExist(doc)
    BY <1>1, <2>2, <2>3 DEF Map!insertIfNotExist
  <2> QED
    BY <2>4 DEF Map!KNext
<1> QED
  BY <1>2, <1>3

LEMMA InsertMaps ==
  ASSUME KeyInv, OpInv, Failing = {}, Sole \in Clients, Matching(call[Sole].doc.key) = {}, FinishInsert(Sole)
  PROVE  [Map!KNext]_(Map!kvars)
<1>1. DocsOK /\ ClientsOK /\ pc[Sole] = "insert"
  BY Parts DEF FinishInsert
<1>2. PICK doc \in Doc : doc = call[Sole].doc
  BY <1>1 DEF ClientsOK
<1>3. PICK op \in {"insertIfNotExist", "updateOrInsert"} : op = call[Sole].op
  BY <1>1 DEF OpInv
<1>4. PICK ok : ok = (op = "insertIfNotExist")
  OBVIOUS
<1>5. /\ Return(Sole, op, ok, 0)
      /\ Put(doc)
  BY <1>2, <1>3, <1>4 DEF FinishInsert
<1>6. Map!Answer(op, ok, 0) /\ Added' = 0 /\ Added = 0
  BY <1>1, <1>5, Answered DEF Added
<1>7. Stored[doc.key] = NULL
  BY <1>1, <1>2, StoredNone DEF Doc
<1>8. Map!Stores(doc)
  BY <1>1, <1>2, <1>5, PutStores DEF Map!Stores
<1>9. CASE op = "insertIfNotExist"
  <2>1. Map!insertIfNotExist(doc)
    BY <1>4, <1>6, <1>7, <1>8, <1>9 DEF Map!insertIfNotExist, Map!Answer
  <2> QED
    BY <2>1 DEF Map!KNext
<1>10. CASE op = "updateOrInsert"
  <2>1. ok = (Stored[doc.key] # NULL)
    BY <1>4, <1>7, <1>10
  <2>2. Map!updateOrInsert(doc)
    BY <1>6, <1>8, <1>10, <2>1 DEF Map!updateOrInsert, Map!Answer
  <2> QED
    BY <2>2 DEF Map!KNext
<1> QED
  BY <1>3, <1>9, <1>10

LEMMA UpdateMaps ==
  ASSUME KeyInv, Failing = {}, Sole \in Clients,
         \A k \in Keys : \A d, e \in Matching(k) : d = e, FinishUpdate(Sole)
  PROVE  [Map!KNext]_(Map!kvars)
<1>1. DocsOK /\ ClientsOK /\ UpdatesOK /\ pc[Sole] = "update"
  BY Parts DEF FinishUpdate
<1>2. PICK doc \in Doc : doc = call[Sole].doc
  BY <1>1 DEF ClientsOK
<1>3. PICK k \in Keys : k = doc.key
  BY DEF Doc
<1>4. /\ Return(Sole, "updateOrInsert", TRUE, 0)
      /\ Replace(doc)
  BY <1>2 DEF FinishUpdate
<1>5. Map!Answer("updateOrInsert", TRUE, 0) /\ Added' = 0 /\ Added = 0
  BY <1>1, <1>4, Answered DEF Added
<1>6. CASE Matching(k) = {}
  <2>1. k \in Removable
    BY <1>1, <1>2, <1>3, <1>6 DEF UpdatesOK
  <2>2. Stored[k] = NULL
    BY <1>1, <1>6, StoredNone
  <2>3. Stored' = Stored
    BY <1>3, <1>4, <1>6, StoredSame DEF Replace
  <2>4. Map!Overtaken(k)
    BY <1>5, <2>1, <2>2, <2>3 DEF Map!Overtaken
  <2> QED
    BY <2>4 DEF Map!KNext
<1>7. CASE Matching(k) # {}
  <2>1. Stored[k] # NULL
    BY <1>1, <1>7, StoredNone
  <2>2. Map!Stores(doc)
    BY <1>1, <1>3, <1>4, <1>7, ReplaceStores DEF Map!Stores
  <2>3. TRUE = (Stored[doc.key] # NULL)
    BY <1>3, <2>1
  <2>4. Map!updateOrInsert(doc)
    BY <1>5, <2>2, <2>3 DEF Map!updateOrInsert, Map!Answer
  <2> QED
    BY <2>4 DEF Map!KNext
<1> QED
  BY <1>6, <1>7

LEMMA UpsertMaps ==
  ASSUME KeyInv, Sole \in Clients, \A k \in Keys : \A d, e \in Matching(k) : d = e, UpsertNext(Sole)
  PROVE  [Map!KNext]_(Map!kvars)
<1>1. DocsOK /\ ClientsOK /\ pc[Sole] = "bulk" /\ bulk[Sole] # << >>
  BY Parts DEF UpsertNext
<1>2. PICK doc \in Doc : doc = Head(bulk[Sole])
  <2>1. bulk[Sole] \in Seq(Doc)
    BY <1>1 DEF ClientsOK
  <2> QED
    BY <1>1, <2>1
<1>3. PICK k \in Keys : k = doc.key
  BY DEF Doc
<1>4. pc' = pc /\ result' = result /\ Added = nUpserted[Sole] /\ Added' = nUpserted'[Sole]
  BY <1>1 DEF UpsertNext, Added
<1>5. CASE Matching(k) = {}
  <2>1. Put(doc) /\ nUpserted' = [nUpserted EXCEPT ![Sole] = @ + 1]
    BY <1>2, <1>3, <1>5 DEF UpsertNext
  <2>2. Stored' = [Stored EXCEPT ![doc.key] = doc] /\ Stored[doc.key] = NULL
    BY <1>1, <1>3, <1>5, <2>1, PutStores, StoredNone
  <2>3. Added' = Added + 1
    BY <1>1, <1>4, <2>1 DEF ClientsOK
  <2>4. Map!Upsert(doc)
    BY <1>4, <2>2, <2>3 DEF Map!Upsert, Map!Stores
  <2> QED
    BY <2>4 DEF Map!KNext
<1>6. CASE Matching(k) # {}
  <2>1. Replace(doc) /\ nUpserted' = nUpserted
    BY <1>2, <1>3, <1>6 DEF UpsertNext
  <2>2. Stored' = [Stored EXCEPT ![doc.key] = doc] /\ Stored[doc.key] # NULL
    BY <1>1, <1>3, <1>6, <2>1, ReplaceStores, StoredNone
  <2>3. Added' = Added
    BY <1>4, <2>1
  <2>4. Map!Upsert(doc)
    BY <1>4, <2>2, <2>3 DEF Map!Upsert, Map!Stores
  <2> QED
    BY <2>4 DEF Map!KNext
<1> QED
  BY <1>5, <1>6

\* The other steps of a bulk.
LEMMA BulkMaps ==
  ASSUME KeyInv, Failing = {}, Sole \in Clients
  PROVE  /\ \A docs : upsertMany(Sole, docs) => [Map!KNext]_(Map!kvars)
         /\ SizesDiffer(Sole) => [Map!KNext]_(Map!kvars)
         /\ ~BulkFails(Sole)
         /\ BulkReturns(Sole) => [Map!KNext]_(Map!kvars)
<1>0. ClientsOK
  BY Parts
<1>1. ASSUME NEW docs, upsertMany(Sole, docs)
      PROVE  UNCHANGED Map!kvars
  <2>1. Stored' = Stored /\ result' = result /\ Added = 0
    BY <1>1, StoredSame DEF upsertMany, Added
  <2>2. pc'[Sole] = "bulk" /\ nUpserted'[Sole] = 0
    BY <1>0, <1>1 DEF upsertMany, ClientsOK
  <2> QED
    BY <2>1, <2>2 DEF Map!kvars, Added
<1>2. ASSUME SizesDiffer(Sole)
      PROVE  Map!NotCounted
  <2>1. Stored' = Stored /\ Added = 0 /\ Return(Sole, "upsertMany", FALSE, 0)
    BY <1>2, StoredSame DEF SizesDiffer, Added
  <2> QED
    BY <1>0, <2>1, Answered DEF Map!NotCounted
<1>3. ~BulkFails(Sole)
  BY DEF BulkFails
<1>4. ASSUME BulkReturns(Sole)
      PROVE  Map!Counted
  <2>1. Stored' = Stored /\ Return(Sole, "upsertMany", TRUE, Added)
    BY <1>4, StoredSame DEF BulkReturns, Added
  <2> QED
    BY <1>0, <2>1, Answered DEF Map!Counted
<1> QED
  BY <1>1, <1>2, <1>3, <1>4 DEF Map!KNext

LEMMA RemoveMaps ==
  ASSUME KeyInv, \A k \in Keys : \A d, e \in Matching(k) : d = e, NEW k \in Keys, remove(k)
  PROVE  [Map!KNext]_(Map!kvars)
<1>1. Stored' = [Stored EXCEPT ![k] = NULL]
  BY Parts, RemoveStores
<1>2. k \in Removable /\ Added' = Added /\ result' = result
  BY DEF remove, Added
<1>3. Map!Remove(k)
  BY <1>1, <1>2 DEF Map!Remove
<1> QED
  BY <1>3 DEF Map!KNext

LEMMA MapStep ==
  ASSUME KeyInv, OpInv, SeesInv, Failing = {}, NEW me, Clients = {me}, [Next]_vars
  PROVE  [Map!KNext]_(Map!kvars)
<1>1. /\ Sole \in Clients /\ \A c \in Clients : c = Sole
      /\ \A k \in Keys : \A d, e \in Matching(k) : d = e
      /\ pc[Sole] = "insert" => Matching(call[Sole].doc.key) = {}
  BY AloneFacts
<1>2. CASE UNCHANGED vars
  <2>1. Stored' = Stored /\ Added' = Added /\ result' = result
    BY <1>2, StoredSame DEF vars, Added
  <2> QED
    BY <2>1 DEF Map!kvars
<1>3. ASSUME NEW op \in {"insertIfNotExist", "updateOrInsert"}, NEW doc \in Doc, Query(Sole, op, doc)
      PROVE  [Map!KNext]_(Map!kvars)
  BY <1>1, <1>3, QueryMaps
<1>4. CASE FinishInsert(Sole)
  BY <1>1, <1>4, InsertMaps DEF FinishInsert
<1>5. CASE FinishUpdate(Sole)
  BY <1>1, <1>5, UpdateMaps
<1>6. CASE UpsertNext(Sole)
  BY <1>1, <1>6, UpsertMaps
<1>7. CASE SizesDiffer(Sole) \/ BulkFails(Sole) \/ BulkReturns(Sole)
  BY <1>1, <1>7, BulkMaps
<1>8. ASSUME NEW docs, upsertMany(Sole, docs)
      PROVE  [Map!KNext]_(Map!kvars)
  BY <1>1, <1>8, BulkMaps
<1>9. ASSUME NEW k \in Keys, remove(k)
      PROVE  [Map!KNext]_(Map!kvars)
  BY <1>1, <1>9, RemoveMaps
<1>10. \/ UNCHANGED vars
       \/ \E op \in {"insertIfNotExist", "updateOrInsert"}, doc \in Doc : Query(Sole, op, doc)
       \/ FinishInsert(Sole) \/ FinishUpdate(Sole)
       \/ \E docs : upsertMany(Sole, docs)
       \/ SizesDiffer(Sole) \/ UpsertNext(Sole) \/ BulkFails(Sole) \/ BulkReturns(Sole)
       \/ \E k \in Keys : remove(k)
  BY <1>1 DEF Next
<1> QED
  BY <1>2, <1>3, <1>4, <1>5, <1>6, <1>7, <1>8, <1>9, <1>10

\* To a module that has a collection to itself, and whose requests succeed, it
\* is a map from keys to documents, whatever others remove: query and write are
\* as one step, and the answers tell what was found (MongoDatabase.cpp:68-115,
\* 139-158).
THEOREM MapCorrect ==
  ASSUME Failing = {}, NEW me, Clients = {me}
  PROVE  Spec => ImplementsMap
<1>1. Init => Map!KInit
  <2> SUFFICES ASSUME Init
               PROVE  Map!KInit
    OBVIOUS
  <2>1. Sole \in Clients
    BY DEF Sole
  <2>2. \A k \in Keys : Matching(k) = {}
    BY DEF Init, Matching
  <2>3. Stored = [k \in Keys |-> NULL]
    BY <2>2 DEF Stored
  <2>4. Added = 0 /\ result[Sole] = NULL
    BY <2>1 DEF Init, Added
  <2> QED
    BY <2>3, <2>4 DEF Map!KInit
<1>2. KeyInv /\ OpInv /\ SeesInv /\ [Next]_vars => [Map!KNext]_(Map!kvars)
  BY MapStep
<1> QED
  BY <1>1, <1>2, KeysCorrect, OpInvariant, SeesInvariant, PTL DEF Spec, ImplementsMap, Map!KSpec
=============================================================================
