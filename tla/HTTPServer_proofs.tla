------------------------- MODULE HTTPServer_proofs -------------------------
(* Proofs about HTTPServer, for any connections, bodies and requests.        *)
EXTENDS HTTPServer, SequenceTheorems, TLAPS

Pages == {NULL, "handleGet", "handlePost", "errorpage"}

\* The invariant at one connection.
Typed(c) ==
  /\ request[c] \in Request \cup {NULL}
  /\ requests[c] \in 0..MaxRequests
  /\ came[c] \in Nat
  /\ con_cls[c] \in ConInfo \cup {NULL}
  /\ page[c] \in Pages
  /\ handled[c] \in Seq(Seq(Texts))
  /\ heap[c] \in [Blocks -> Nat]
  /\ refused[c] \in 0..MaxRequests

Balanced(c) ==
  con_cls[c] = NULL =>
     /\ heap[c]["con_info"] = 0 /\ heap[c]["postprocessor"] = 0 /\ heap[c]["answerstring"] = 0
     /\ heap[c]["params"] = refused[c]

Called(c) ==
  /\ request[c] = NULL => con_cls[c] = NULL
  /\ refused[c] <= requests[c] /\ (request[c] # NULL => refused[c] < requests[c])
  /\ request[c] # NULL /\ con_cls[c] = NULL =>
        came[c] = 0 /\ page[c] = NULL /\ handled[c] = << >>
  /\ con_cls[c] # NULL =>
        /\ con_cls[c].type = request[c].method
        /\ heap[c]["con_info"] = 1 /\ heap[c]["params"] = refused[c] + 1
        /\ heap[c]["postprocessor"] = IF con_cls[c].type = "POST" THEN 1 ELSE 0
        /\ heap[c]["answerstring"] = IF handled[c] # << >> THEN 1 ELSE 0
        /\ con_cls[c].params = Passed(request[c].body, Len(con_cls[c].params))
        /\ Len(con_cls[c].params) <= came[c] /\ came[c] <= Len(request[c].body)
        /\ Len(con_cls[c].params) < came[c] => con_cls[c].failed
        /\ page[c] = NULL => handled[c] = << >>

HandledWhole(c) ==
  request[c] # NULL /\ request[c].method = "POST" /\ handled[c] # << >> =>
     \E k \in 0..Len(request[c].body) :
        /\ handled[c] = <<Passed(request[c].body, k)>>
        /\ Whole(c) /\ (k < Len(request[c].body) => con_cls[c].failed)

Good(c) == Typed(c) /\ Balanced(c) /\ Called(c) /\ HandledWhole(c)

IInv == HeapInv /\ PostWhole

LEMMA GoodFacts ==
  ASSUME IInv
  PROVE  \A c \in Connections : Good(c)
BY DEF IInv, HeapInv, TypeOK, HeapBalanced, CallInv, PostWhole,
       Good, Typed, Balanced, Called, HandledWhole, Whole, Pages

\* A step of one connection.
LEMMA Frame ==
  ASSUME IInv, NEW c \in Connections, Good(c)',
         request' = [request EXCEPT ![c] = request'[c]],
         requests' = [requests EXCEPT ![c] = requests'[c]],
         came' = [came EXCEPT ![c] = came'[c]],
         con_cls' = [con_cls EXCEPT ![c] = con_cls'[c]],
         page' = [page EXCEPT ![c] = page'[c]],
         handled' = [handled EXCEPT ![c] = handled'[c]],
         heap' = [heap EXCEPT ![c] = heap'[c]],
         refused' = [refused EXCEPT ![c] = refused'[c]]
  PROVE  IInv'
<1>1. TypeOK
  BY DEF IInv, HeapInv
<1>2. TypeOK'
  BY <1>1 DEF TypeOK, Good, Typed, Pages
<1>3. \A d \in Connections : Good(d)'
  <2> SUFFICES ASSUME NEW d \in Connections, d # c
               PROVE  Good(d)'
    OBVIOUS
  <2>1. /\ request'[d] = request[d] /\ requests'[d] = requests[d] /\ came'[d] = came[d]
        /\ con_cls'[d] = con_cls[d] /\ page'[d] = page[d] /\ handled'[d] = handled[d]
        /\ heap'[d] = heap[d] /\ refused'[d] = refused[d]
    BY <1>1 DEF TypeOK
  <2>2. Good(d)
    BY GoodFacts
  <2> QED
    BY <2>1, <2>2 DEF Good, Typed, Balanced, Called, HandledWhole, Whole
<1>4. HeapBalanced'
  BY <1>3 DEF HeapBalanced, Good, Balanced
<1>5. CallInv'
  BY <1>3 DEF CallInv, Good, Called
<1>6. PostWhole'
  BY <1>3 DEF PostWhole, Good, HandledWhole, Whole
<1> QED
  BY <1>2, <1>4, <1>5, <1>6 DEF IInv, HeapInv

LEMMA RequestFacts ==
  ASSUME NEW r \in Request
  PROVE  /\ r.method \in {"GET", "PUT", "POST"} /\ r.body \in Seq(Pieces) /\ r # NULL
<1>1. << >> \in Seq(Pieces)
  OBVIOUS
<1> QED
  BY <1>1, BodiesAssumption, NullAssumption DEF Request

LEMMA InitInv == Init => IInv
<1> SUFFICES ASSUME Init PROVE IInv
  OBVIOUS
<1>1. << >> \in Seq(Pieces) /\ << >> \in Seq(Seq(Texts))
  OBVIOUS
<1>2. TypeOK
  BY <1>1, BoundsAssumption DEF Init, TypeOK
<1>3. HeapBalanced /\ CallInv /\ PostWhole
  BY DEF Init, HeapBalanced, CallInv, PostWhole, Blocks
<1> QED
  BY <1>2, <1>3 DEF IInv, HeapInv

-----------------------------------------------------------------------------
LEMMA SendKeeps ==
  ASSUME IInv, NEW c \in Connections, NEW r \in Request, Send(c, r)
  PROVE  IInv'
<1>1. TypeOK /\ Good(c)
  BY GoodFacts DEF IInv, HeapInv
<1>2. /\ request'[c] = r /\ requests'[c] = requests[c] + 1 /\ came'[c] = 0
      /\ page'[c] = NULL /\ handled'[c] = << >>
      /\ request[c] = NULL /\ requests[c] < MaxRequests
      /\ UNCHANGED <<con_cls, heap, refused>>
  BY <1>1 DEF Send, TypeOK
<1>3. Good(c)'
  <2>1. << >> \in Seq(Seq(Texts))
    OBVIOUS
  <2>2. Typed(c)'
    BY <1>1, <1>2, <2>1, RequestFacts, BoundsAssumption DEF Good, Typed, Pages
  <2>3. Balanced(c)'
    BY <1>1, <1>2 DEF Good, Balanced
  <2>4. Called(c)'
    <3>1. con_cls[c] = NULL /\ refused[c] <= requests[c]
      BY <1>1, <1>2 DEF Good, Called
    <3>2. refused[c] < requests[c] + 1
      BY <1>1, <3>1 DEF Good, Typed
    <3>3. con_cls'[c] = NULL /\ refused'[c] < requests'[c] /\ refused'[c] <= requests'[c]
      BY <1>1, <1>2, <3>1, <3>2 DEF Good, Typed
    <3> QED
      BY <1>2, <3>3 DEF Called
  <2>5. HandledWhole(c)'
    BY <1>2 DEF HandledWhole
  <2> QED
    BY <2>2, <2>3, <2>4, <2>5 DEF Good
<1> QED
  BY <1>1, <1>2, <1>3, Frame DEF Send, TypeOK

LEMMA FirstKeeps ==
  ASSUME IInv, NEW c \in Connections, FirstCall(c)
  PROVE  IInv'
<1> DEFINE info == [params |-> << >>, type |-> request[c].method, failed |-> FALSE]
           blocks == {"con_info", "params"}
                       \cup IF request[c].method = "POST" THEN {"postprocessor"} ELSE {}
           h == [b \in Blocks |-> IF b \in blocks THEN heap[c][b] + 1 ELSE heap[c][b]]
<1>1. TypeOK /\ Good(c)
  BY GoodFacts DEF IInv, HeapInv
<1>2. /\ request[c] # NULL /\ con_cls[c] = NULL
      /\ con_cls' = [con_cls EXCEPT ![c] = info] /\ heap' = [heap EXCEPT ![c] = h]
      /\ UNCHANGED <<request, requests, came, page, handled, refused>>
  BY DEF FirstCall, Allocate
<1>3. con_cls'[c] = info /\ heap'[c] = h
  BY <1>1, <1>2 DEF TypeOK
<1>4. request[c] \in Request /\ request[c].body \in Seq(Pieces)
      /\ request[c].method \in {"GET", "PUT", "POST"}
  BY <1>1, <1>2, RequestFacts DEF Good, Typed
<1>5. info \in ConInfo
  BY <1>4 DEF ConInfo
<1>6. info # NULL
  BY <1>5, NullAssumption
<1>7. /\ h["con_info"] = 1 /\ h["params"] = refused[c] + 1 /\ h["answerstring"] = 0
      /\ h["postprocessor"] = IF info.type = "POST" THEN 1 ELSE 0
  BY <1>1, <1>2 DEF Good, Typed, Balanced, Blocks
<1>8. h \in [Blocks -> Nat]
  BY <1>1 DEF Good, Typed
<1>9. info.params = << >> /\ info.type = request[c].method /\ Len(info.params) = 0
  OBVIOUS
<1> HIDE DEF info, h
<1>10. Good(c)'
  <2>1. Typed(c)'
    BY <1>1, <1>2, <1>3, <1>5, <1>8 DEF Good, Typed
  <2>2. Balanced(c)'
    BY <1>3, <1>6 DEF Balanced
  <2>3. /\ info.params = Passed(request[c].body, Len(info.params))
        /\ came[c] = 0 /\ 0 <= Len(request[c].body)
    <3>1. Passed(request[c].body, 0) = << >>
      BY DEF Passed
    <3>2. Len(request[c].body) \in Nat
      BY <1>4, LenProperties
    <3> QED
      BY <1>1, <1>2, <1>9, <3>1, <3>2 DEF Good, Called
  <2>4. Called(c)'
    <3>1. handled[c] = << >> /\ refused[c] <= requests[c] /\ refused[c] < requests[c]
      BY <1>1, <1>2 DEF Good, Called
    <3>2. /\ request'[c] = request[c] /\ requests'[c] = requests[c] /\ came'[c] = came[c]
          /\ handled'[c] = handled[c] /\ refused'[c] = refused[c]
      BY <1>2
    <3>3. /\ con_cls'[c] # NULL /\ con_cls'[c].type = request'[c].method
          /\ con_cls'[c].params = Passed(request'[c].body, Len(con_cls'[c].params))
          /\ Len(con_cls'[c].params) = 0 /\ came'[c] = 0 /\ 0 <= Len(request'[c].body)
      BY <1>3, <1>6, <1>9, <2>3, <3>2
    <3>4. /\ heap'[c]["con_info"] = 1 /\ heap'[c]["params"] = refused'[c] + 1
          /\ heap'[c]["answerstring"] = IF handled'[c] # << >> THEN 1 ELSE 0
          /\ heap'[c]["postprocessor"] = IF con_cls'[c].type = "POST" THEN 1 ELSE 0
      BY <1>3, <1>7, <3>1, <3>2
    <3>5. /\ refused'[c] <= requests'[c] /\ refused'[c] < requests'[c]
          /\ request'[c] # NULL /\ handled'[c] = << >>
      BY <1>2, <3>1, <3>2
    <3> QED
      BY <3>3, <3>4, <3>5 DEF Called
  <2>5. HandledWhole(c)'
    BY <1>1, <1>2 DEF Good, Called, HandledWhole
  <2> QED
    BY <2>1, <2>2, <2>4, <2>5 DEF Good
<1> QED
  BY <1>1, <1>2, <1>3, <1>10, Frame DEF TypeOK

LEMMA RefuseKeeps ==
  ASSUME IInv, NEW c \in Connections, NoPostProcessor(c)
  PROVE  IInv'
<1> DEFINE h == [b \in Blocks |-> IF b \in {"params"} THEN heap[c][b] + 1 ELSE heap[c][b]]
<1>1. TypeOK /\ Good(c)
  BY GoodFacts DEF IInv, HeapInv
<1>2. /\ request[c] # NULL /\ con_cls[c] = NULL
      /\ request' = [request EXCEPT ![c] = NULL] /\ refused' = [refused EXCEPT ![c] = refused[c] + 1]
      /\ heap' = [heap EXCEPT ![c] = h]
      /\ UNCHANGED <<requests, came, con_cls, page, handled>>
  BY DEF NoPostProcessor, Allocate
<1>3. request'[c] = NULL /\ refused'[c] = refused[c] + 1 /\ heap'[c] = h
  BY <1>1, <1>2 DEF TypeOK
<1>4. /\ h["con_info"] = 0 /\ h["params"] = refused[c] + 1 /\ h["answerstring"] = 0
      /\ h["postprocessor"] = 0
  BY <1>1, <1>2 DEF Good, Typed, Balanced, Blocks
<1>5. h \in [Blocks -> Nat]
  BY <1>1 DEF Good, Typed
<1>6. refused[c] + 1 <= requests[c]
  BY <1>1, <1>2 DEF Good, Typed, Called
<1> HIDE DEF h
<1>7. Good(c)'
  <2>1. requests[c] <= MaxRequests /\ refused[c] + 1 \in 0..MaxRequests
    BY <1>1, <1>6, BoundsAssumption DEF Good, Typed
  <2>2. Typed(c)'
    BY <1>1, <1>2, <1>3, <1>5, <2>1 DEF Good, Typed
  <2>3. Balanced(c)'
    BY <1>3, <1>4 DEF Balanced
  <2>4. Called(c)'
    BY <1>2, <1>3, <1>6 DEF Called
  <2>5. HandledWhole(c)'
    BY <1>3 DEF HandledWhole
  <2> QED
    BY <2>2, <2>3, <2>4, <2>5 DEF Good
<1> QED
  BY <1>1, <1>2, <1>3, <1>7, Frame DEF TypeOK

LEMMA AnswerKeeps ==
  ASSUME IInv, NEW c \in Connections, AnswerNow(c)
  PROVE  IInv'
<1>1. TypeOK /\ Good(c)
  BY GoodFacts DEF IInv, HeapInv
<1>2. PICK p \in {"handleGet", "errorpage"} : page' = [page EXCEPT ![c] = p]
  BY DEF AnswerNow
<1>3. /\ request[c] # NULL /\ con_cls[c] # NULL
      /\ UNCHANGED <<request, requests, came, con_cls, handled, heap, refused>>
  BY DEF AnswerNow, Calling
<1>4. page'[c] = p /\ p # NULL
  BY <1>1, <1>2, NullAssumption DEF TypeOK
<1>5. Good(c)'
  BY <1>1, <1>3, <1>4 DEF Good, Typed, Balanced, Called, HandledWhole, Whole, Pages
<1> QED
  BY <1>1, <1>2, <1>3, <1>4, <1>5, Frame DEF TypeOK

\* What has been passed on grows by the next pieces.
LEMMA PassedGrows ==
  ASSUME NEW body \in Seq(Pieces), NEW m \in Nat, NEW k \in Nat, m + k <= Len(body)
  PROVE  /\ Passed(body, m) \o [i \in 1..k |-> CString(body[m + i])] = Passed(body, m + k)
         /\ Passed(body, m + k) \in Seq(Texts) /\ Len(Passed(body, m + k)) = m + k
<1> DEFINE now == [i \in 1..k |-> CString(body[m + i])]
<1>1. \A i \in 1..(m + k) : i \in 1..Len(body) /\ CString(body[i]) \in Texts
  <2>1. Len(body) \in Nat /\ \A i \in 1..Len(body) : body[i] \in Pieces
    BY LenProperties
  <2>2. \A i \in 1..(m + k) : i \in 1..Len(body)
    BY <2>1
  <2> QED
    BY <2>1, <2>2 DEF Texts
<1>2. Passed(body, m) \in Seq(Texts) /\ Len(Passed(body, m)) = m
  <2>1. Passed(body, m) \in [1..m -> Texts]
    BY <1>1 DEF Passed
  <2> QED
    BY <2>1, LenProperties
<1>3. now \in Seq(Texts) /\ Len(now) = k
  <2>1. \A i \in 1..k : m + i \in 1..(m + k)
    OBVIOUS
  <2>2. now \in [1..k -> Texts]
    BY <1>1, <2>1
  <2> QED
    BY <2>2, LenProperties
<1>4. Passed(body, m + k) \in Seq(Texts) /\ Len(Passed(body, m + k)) = m + k
  <2>1. Passed(body, m + k) \in [1..(m + k) -> Texts] /\ m + k \in Nat
    BY <1>1 DEF Passed
  <2> QED
    BY <2>1, LenProperties
<1> DEFINE all == Passed(body, m) \o now
<1>5. /\ all \in Seq(Texts) /\ Len(all) = m + k
      /\ \A i \in 1..(m + k) : all[i] = IF i <= m THEN Passed(body, m)[i] ELSE now[i - m]
  <2> DEFINE before == Passed(body, m)
  <2>1. before \in Seq(Texts) /\ Len(before) = m
    BY <1>2
  <2> HIDE DEF before, now
  <2>2. /\ before \o now \in Seq(Texts) /\ Len(before \o now) = m + k
        /\ \A i \in 1..(m + k) : (before \o now)[i] = IF i <= m THEN before[i] ELSE now[i - m]
    BY <1>3, <2>1, ConcatProperties
  <2> QED
    BY <2>2 DEF before
<1>6. \A i \in 1..(m + k) : all[i] = Passed(body, m + k)[i]
  <2> SUFFICES ASSUME NEW i \in 1..(m + k)
               PROVE  all[i] = CString(body[i])
    BY DEF Passed
  <2>1. CASE i <= m
    <3>1. i \in 1..m
      BY <2>1
    <3>2. Passed(body, m)[i] = CString(body[i])
      BY <3>1 DEF Passed
    <3> HIDE DEF all, now
    <3>3. all[i] = Passed(body, m)[i]
      BY <1>5, <2>1
    <3> QED
      BY <3>2, <3>3
  <2>2. CASE i > m
    <3>1. i - m \in 1..k /\ m + (i - m) = i /\ ~(i <= m)
      BY <2>2
    <3>2. now[i - m] = CString(body[m + (i - m)])
      BY <3>1
    <3> HIDE DEF all, now
    <3> QED
      BY <1>5, <3>1, <3>2
  <2>3. i <= m \/ i > m
    OBVIOUS
  <2> HIDE DEF all, now
  <2> QED
    BY <2>1, <2>2, <2>3
<1> HIDE DEF now, all
<1>7. all = Passed(body, m + k)
  BY <1>4, <1>5, <1>6, SeqEqual
<1> QED
  BY <1>4, <1>7 DEF all, now

\* A chunk adds to the parameters, unless the post processor refuses it.
LEMMA DataKeeps ==
  ASSUME IInv, NEW c \in Connections, request[c] # NULL,
         NEW n \in 1..Len(request[c].body) - came[c], PostData(c, n)
  PROVE  IInv'
<1> DEFINE h == [b \in Blocks |-> IF b \in {"urlStr"} THEN heap[c][b] + 1 ELSE heap[c][b]]
           body == request[c].body
           params == con_cls[c].params
<1>1. TypeOK /\ Good(c)
  BY GoodFacts DEF IInv, HeapInv
<1>2. PICK k \in 0..n, failed \in BOOLEAN :
        /\ IF con_cls[c].failed THEN failed /\ k = 0 ELSE failed \/ k = n
        /\ con_cls' = [con_cls EXCEPT
             ![c].failed = failed,
             ![c].params = @ \o [i \in 1..k |-> CString(request[c].body[came[c] + i])]]
  BY DEF PostData
<1> DEFINE now  == [i \in 1..k |-> CString(body[came[c] + i])]
           info == [con_cls[c] EXCEPT !.failed = failed, !.params = params \o now]
<1>3. /\ request[c].method = "POST" /\ con_cls[c] # NULL /\ page[c] = NULL
      /\ con_cls' = [con_cls EXCEPT ![c] = info] /\ came' = [came EXCEPT ![c] = came[c] + n]
      /\ heap' = [heap EXCEPT ![c] = h]
      /\ UNCHANGED <<request, requests, page, handled, refused>>
  BY <1>2 DEF PostData, Calling, Allocate
<1>4. con_cls'[c] = info /\ came'[c] = came[c] + n /\ heap'[c] = h
  BY <1>1, <1>3 DEF TypeOK
<1>5. /\ request[c] \in Request /\ body \in Seq(Pieces) /\ Len(body) \in Nat
      /\ con_cls[c] \in ConInfo /\ params \in Seq(Texts) /\ Len(params) \in Nat /\ came[c] \in Nat
  <2>1. request[c] \in Request /\ con_cls[c] \in ConInfo /\ came[c] \in Nat
    BY <1>1, <1>3 DEF Good, Typed
  <2>2. body \in Seq(Pieces) /\ params \in Seq(Texts)
    BY <2>1, RequestFacts DEF ConInfo
  <2> QED
    BY <2>1, <2>2, LenProperties
<1>6. /\ params = Passed(body, Len(params)) /\ Len(params) <= came[c]
      /\ Len(params) < came[c] => con_cls[c].failed
      /\ con_cls[c].type = request[c].method /\ handled[c] = << >>
  BY <1>1, <1>3 DEF Good, Called
<1>7. came[c] + n <= Len(body) /\ n \in Nat /\ k \in Nat /\ k <= n
  BY <1>5
<1>8. /\ params \o now = Passed(body, Len(params) + k)
      /\ params \o now \in Seq(Texts) /\ Len(params \o now) = Len(params) + k
  <2>1. Len(params) + k <= Len(body)
    BY <1>5, <1>6, <1>7
  <2>2. CASE k = 0
    <3>1. now = << >> /\ params \o << >> = params
      BY <1>5, <2>2, ConcatEmptySeq
    <3> HIDE DEF now, params, body
    <3> QED
      BY <1>5, <1>6, <2>2, <3>1
  <2>3. CASE k # 0
    <3>1. Len(params) = came[c]
      BY <1>2, <1>5, <1>6, <2>3
    <3> HIDE DEF params, body
    <3>2. /\ Passed(body, came[c]) \o now = Passed(body, came[c] + k)
          /\ Passed(body, came[c] + k) \in Seq(Texts) /\ Len(Passed(body, came[c] + k)) = came[c] + k
      BY <1>5, <1>7, <2>1, <3>1, PassedGrows
    <3> HIDE DEF now
    <3> QED
      BY <1>6, <3>1, <3>2
  <2> QED
    BY <2>2, <2>3
<1>9. Len(params) + k <= came[c] + n /\ (Len(params) + k < came[c] + n => failed)
  <2>1. Len(params) = came[c] \/ con_cls[c].failed
    BY <1>5, <1>6
  <2> QED
    BY <1>2, <1>5, <1>6, <1>7, <2>1
<1>10. /\ info \in ConInfo /\ info.type = con_cls[c].type
       /\ info.params = params \o now /\ info.failed = failed
  <2> HIDE DEF now
  <2> QED
    BY <1>5, <1>8 DEF ConInfo
<1>11. info # NULL
  BY <1>10, NullAssumption
<1>12. /\ h \in [Blocks -> Nat]
       /\ \A b \in Blocks : b # "urlStr" => h[b] = heap[c][b]
  BY <1>1 DEF Good, Typed
<1>13. /\ info.params = Passed(request[c].body, Len(info.params))
       /\ Len(info.params) <= came[c] + n /\ came[c] + n <= Len(request[c].body)
       /\ Len(info.params) < came[c] + n => info.failed
  <2> HIDE DEF now, info, params
  <2> QED
    BY <1>7, <1>8, <1>9, <1>10
<1> HIDE DEF now, info, h, params
<1>14. Good(c)'
  <2>1. Typed(c)'
    BY <1>1, <1>3, <1>4, <1>5, <1>7, <1>10, <1>12 DEF Good, Typed
  <2>2. Balanced(c)' /\ HandledWhole(c)'
    BY <1>1, <1>3, <1>4, <1>6, <1>11 DEF Good, Balanced, HandledWhole
  <2>3. Called(c)'
    BY <1>1, <1>3, <1>4, <1>6, <1>10, <1>11, <1>12, <1>13 DEF Good, Called, Blocks
  <2> QED
    BY <2>1, <2>2, <2>3 DEF Good
<1> QED
  BY <1>1, <1>3, <1>4, <1>14, Frame DEF TypeOK

LEMMA EndKeeps ==
  ASSUME IInv, NEW c \in Connections, PostEnd(c)
  PROVE  IInv'
<1> DEFINE body == con_cls[c].params
           h == [b \in Blocks |-> IF b \in {"urlStr", "answerstring"} THEN heap[c][b] + 1
                                  ELSE heap[c][b]]
<1>1. TypeOK /\ Good(c)
  BY GoodFacts DEF IInv, HeapInv
<1>2. /\ request[c] # NULL /\ request[c].method = "POST" /\ con_cls[c] # NULL /\ page[c] = NULL
      /\ Whole(c)
      /\ page' = [page EXCEPT ![c] = "handlePost"]
      /\ handled' = [handled EXCEPT ![c] = Append(handled[c], body)]
      /\ heap' = [heap EXCEPT ![c] = h]
      /\ UNCHANGED <<request, requests, came, con_cls, refused>>
  BY DEF PostEnd, Calling, Allocate
<1>3. con_cls[c] \in ConInfo /\ body \in Seq(Texts)
  BY <1>1, <1>2 DEF Good, Typed, ConInfo
<1>4. /\ handled[c] = << >> /\ Len(body) \in 0..Len(request[c].body)
      /\ body = Passed(request[c].body, Len(body))
      /\ Len(body) < Len(request[c].body) => con_cls[c].failed
  <2>1. /\ handled[c] = << >> /\ body = Passed(request[c].body, Len(body))
        /\ Len(body) <= came[c] /\ (Len(body) < came[c] => con_cls[c].failed)
    BY <1>1, <1>2 DEF Good, Called
  <2>2. Len(body) \in Nat /\ Len(request[c].body) \in Nat
    BY <1>1, <1>2, <1>3, RequestFacts, LenProperties DEF Good, Typed
  <2>3. came[c] = Len(request[c].body)
    BY <1>2 DEF Whole
  <2> QED
    BY <2>1, <2>2, <2>3
<1>5. page'[c] = "handlePost" /\ handled'[c] = <<body>> /\ heap'[c] = h
  BY <1>1, <1>2, <1>4 DEF TypeOK
<1>6. <<body>> \in Seq(Seq(Texts)) /\ <<body>> # << >>
  BY <1>3
<1>7. /\ h \in [Blocks -> Nat]
      /\ h["answerstring"] = 1
      /\ h["con_info"] = heap[c]["con_info"] /\ h["params"] = heap[c]["params"]
      /\ h["postprocessor"] = heap[c]["postprocessor"]
  BY <1>1, <1>2, <1>4 DEF Good, Typed, Called, Blocks
<1> HIDE DEF body, h
<1>8. Good(c)'
  <2>1. Typed(c)'
    BY <1>1, <1>2, <1>5, <1>6, <1>7 DEF Good, Typed, Pages
  <2>2. Balanced(c)'
    BY <1>1, <1>2, <1>5 DEF Good, Balanced
  <2>4. HandledWhole(c)'
    <3>1. /\ handled'[c] = <<Passed(request'[c].body, Len(body))>>
          /\ Len(body) \in 0..Len(request'[c].body)
          /\ Len(body) < Len(request'[c].body) => con_cls'[c].failed
      BY <1>2, <1>4, <1>5
    <3>2. Whole(c)'
      BY <1>2 DEF Whole
    <3> QED
      BY <3>1, <3>2 DEF HandledWhole
  <2>3. Called(c)'
    BY <1>1, <1>2, <1>5, <1>6, <1>7, NullAssumption DEF Good, Called, body
  <2> QED
    BY <2>1, <2>2, <2>3, <2>4 DEF Good
<1> QED
  BY <1>1, <1>2, <1>5, <1>8, Frame DEF TypeOK

\* A request that ends at any moment gives back what it holds.
LEMMA CompletedKeeps ==
  ASSUME IInv, NEW c \in Connections, request_completed(c)
  PROVE  IInv'
<1> DEFINE blocks == {"con_info", "params"}
                       \cup (IF con_cls[c].type = "POST" THEN {"postprocessor"} ELSE {})
                       \cup (IF handled[c] # << >> THEN {"answerstring"} ELSE {})
           h == [b \in Blocks |-> IF b \in blocks THEN heap[c][b] - 1 ELSE heap[c][b]]
<1>1. TypeOK /\ Good(c)
  BY GoodFacts DEF IInv, HeapInv
<1>2. /\ request[c] # NULL
      /\ request' = [request EXCEPT ![c] = NULL] /\ con_cls' = [con_cls EXCEPT ![c] = NULL]
      /\ heap' = IF con_cls[c] = NULL THEN heap ELSE [heap EXCEPT ![c] = h]
      /\ UNCHANGED <<requests, came, page, handled, refused>>
  BY DEF request_completed, Free
<1>3. request'[c] = NULL /\ con_cls'[c] = NULL
  BY <1>1, <1>2 DEF TypeOK
<1>4. /\ heap'[c] \in [Blocks -> Nat]
      /\ heap'[c]["con_info"] = 0 /\ heap'[c]["postprocessor"] = 0 /\ heap'[c]["answerstring"] = 0
      /\ heap'[c]["params"] = refused[c]
      /\ heap' = [heap EXCEPT ![c] = heap'[c]]
  <2>1. CASE con_cls[c] = NULL
    BY <1>1, <1>2, <2>1 DEF TypeOK, Good, Typed, Balanced
  <2>2. CASE con_cls[c] # NULL
    <3>1. heap'[c] = h /\ heap' = [heap EXCEPT ![c] = heap'[c]]
      BY <1>1, <1>2, <2>2 DEF TypeOK
    <3>2. /\ h["con_info"] = 0 /\ h["params"] = refused[c]
          /\ h["postprocessor"] = 0 /\ h["answerstring"] = 0
          /\ h["urlStr"] = heap[c]["urlStr"]
      <4>1. /\ heap[c]["con_info"] = 1 /\ heap[c]["params"] = refused[c] + 1
            /\ heap[c]["postprocessor"] = IF con_cls[c].type = "POST" THEN 1 ELSE 0
            /\ heap[c]["answerstring"] = IF handled[c] # << >> THEN 1 ELSE 0
        BY <1>1, <2>2 DEF Good, Called
      <4>2. h["con_info"] = 0 /\ h["params"] = refused[c]
        BY <1>1, <4>1 DEF Good, Typed, Blocks
      <4>3. h["postprocessor"] = 0
        BY <4>1 DEF Blocks
      <4>4. h["answerstring"] = 0
        BY <4>1 DEF Blocks
      <4>5. h["urlStr"] = heap[c]["urlStr"]
        BY DEF Blocks
      <4> QED
        BY <4>2, <4>3, <4>4, <4>5
    <3>3. h \in [Blocks -> Nat]
      BY <1>1, <3>2 DEF Good, Typed, Blocks
    <3> QED
      BY <3>1, <3>2, <3>3
  <2> QED
    BY <2>1, <2>2
<1>5. Good(c)'
  <2>1. Typed(c)'
    BY <1>1, <1>2, <1>3, <1>4 DEF Good, Typed
  <2>2. Balanced(c)' /\ HandledWhole(c)'
    BY <1>2, <1>3, <1>4 DEF Balanced, HandledWhole
  <2>3. Called(c)'
    <3>1. refused[c] <= requests[c]
      BY <1>1 DEF Good, Called
    <3>2. refused'[c] = refused[c] /\ requests'[c] = requests[c]
      BY <1>2
    <3> QED
      BY <1>3, <3>1, <3>2 DEF Called
  <2> QED
    BY <2>1, <2>2, <2>3 DEF Good
<1>6. /\ request' = [request EXCEPT ![c] = request'[c]]
      /\ con_cls' = [con_cls EXCEPT ![c] = con_cls'[c]]
  BY <1>1, <1>2, <1>3 DEF TypeOK
<1>7. /\ requests' = [requests EXCEPT ![c] = requests'[c]] /\ came' = [came EXCEPT ![c] = came'[c]]
      /\ page' = [page EXCEPT ![c] = page'[c]] /\ handled' = [handled EXCEPT ![c] = handled'[c]]
      /\ refused' = [refused EXCEPT ![c] = refused'[c]]
  BY <1>1, <1>2 DEF TypeOK
<1>8. heap' = [heap EXCEPT ![c] = heap'[c]]
  BY <1>4
<1> HIDE DEF blocks, h
<1> QED
  BY <1>5, <1>6, <1>7, <1>8, Frame

-----------------------------------------------------------------------------
LEMMA NextInv ==
  ASSUME IInv, [Next]_vars
  PROVE  IInv'
<1>1. CASE UNCHANGED vars
  BY <1>1 DEF vars, IInv, HeapInv, TypeOK, HeapBalanced, CallInv, PostWhole, Whole
<1> QED
  BY <1>1, SendKeeps, FirstKeeps, RefuseKeeps, AnswerKeeps, DataKeeps, EndKeeps, CompletedKeeps
  DEF Next, CallBack, Data

\* However many connections there are, and wherever a request is cut short: no
\* block is freed twice, and none is held after the request but urlStr and the
\* params of refused POSTs (HTTPServer.cpp:139-160).
THEOREM HeapCorrect == Spec => []HeapInv
<1>1. IInv => HeapInv
  BY DEF IInv
<1> QED
  BY <1>1, InitInv, NextInv, PTL DEF Spec

\* The program gets every POST at most once and whole, each piece up to its
\* first NUL, for bodies and chunks of any length; a part of it only if the post
\* processor refused the rest (HTTPServer.cpp:99-117, 213-238).
THEOREM PostCorrect == Spec => []PostWhole
<1>1. IInv => PostWhole
  BY DEF IInv
<1> QED
  BY <1>1, InitInv, NextInv, PTL DEF Spec
=============================================================================
