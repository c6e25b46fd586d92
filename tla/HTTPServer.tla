----------------------------- MODULE HTTPServer -----------------------------
(* One request after another on the connections of the HTTP server:         *)
(* answer_to_connection, which libmicrohttpd calls several times for one    *)
(* request, iterate_post, and request_completed.  The library is external:  *)
(* one thread makes all the calls, a body comes in chunks of any size, or   *)
(* stops coming, and a request may be cut short at any moment.              *)
(*                                                                          *)
(* The definitions named ..._Bug are mistakes that the properties detect;   *)
(* they are not part of the model.                                          *)
EXTENDS Integers, Sequences

CONSTANTS Connections,
          Bodies,        \* what a POST may send: sequences of pieces of fields,
                         \* which are sequences of characters
          NUL,           \* the character that ends a C string
          MaxRequests,   \* bound on the requests of one connection
          NULL

Pieces  == UNION {{b[k] : k \in DOMAIN b} : b \in Bodies}

\* iterate_post assigns the start of a piece as a C string, whatever its size is.
CString(piece) ==
  LET nuls == {k \in DOMAIN piece : piece[k] = NUL}
  IN  IF nuls = {} THEN piece
      ELSE SubSeq(piece, 1, (CHOOSE k \in nuls : \A other \in nuls : k <= other) - 1)

Texts   == {CString(piece) : piece \in Pieces}
ConInfo == [params : Seq(Texts), type : {"GET", "PUT", "POST"}, failed : BOOLEAN]

\* form: the encoding is one that a post processor understands.
Request == [method : {"GET", "PUT"}, form : {FALSE}, body : {<< >>}]
             \cup [method : {"POST"}, form : BOOLEAN, body : Bodies]

ASSUME BoundsAssumption == MaxRequests \in Nat
ASSUME BodiesAssumption == Bodies \subseteq Seq(Pieces)
ASSUME NullAssumption   == /\ NULL \notin Request /\ NULL \notin ConInfo
                           /\ NULL \notin {"handleGet", "handlePost", "errorpage"}

\* What is allocated for a connection: numbers of blocks.
Blocks == {"con_info", "params", "postprocessor", "answerstring", "urlStr"}

VARIABLES
  request,   \* [c]: the request under way, NULL if none
  requests,  \* [c]: how many there have been
  came,      \* [c]: how many pieces of its body have come
  con_cls,   \* [c]: the server's connection_info_struct, NULL if none; failed
             \* if its post processor has refused a chunk
  page,      \* [c]: the response queued
  handled,   \* [c]: the calls of handlePost for this request, with params
  heap,      \* [c]: live blocks
  refused    \* [c]: POSTs for which there was no post processor

vars == <<request, requests, came, con_cls, page, handled, heap, refused>>

Init ==
  /\ request = [c \in Connections |-> NULL]
  /\ requests = [c \in Connections |-> 0]
  /\ came = [c \in Connections |-> 0]
  /\ con_cls = [c \in Connections |-> NULL]
  /\ page = [c \in Connections |-> NULL]
  /\ handled = [c \in Connections |-> << >>]
  /\ heap = [c \in Connections |-> [b \in Blocks |-> 0]]
  /\ refused = [c \in Connections |-> 0]

-----------------------------------------------------------------------------
Allocate(c, blocks) == heap' = [heap EXCEPT ![c] = [b \in Blocks |->
                                  IF b \in blocks THEN @[b] + 1 ELSE @[b]]]

Free(c, blocks) == heap' = [heap EXCEPT ![c] = [b \in Blocks |->
                              IF b \in blocks THEN @[b] - 1 ELSE @[b]]]

\* A client sends the head of a request.
Send(c, r) ==
  /\ request[c] = NULL
  /\ requests[c] < MaxRequests
  /\ request' = [request EXCEPT ![c] = r]
  /\ requests' = [requests EXCEPT ![c] = @ + 1]
  /\ came' = [came EXCEPT ![c] = 0]
  /\ page' = [page EXCEPT ![c] = NULL]
  /\ handled' = [handled EXCEPT ![c] = << >>]
  /\ UNCHANGED <<con_cls, heap, refused>>

\* The first call for a request only makes its connection_info_struct.
FirstCall(c) ==
  /\ request[c] # NULL /\ con_cls[c] = NULL
  /\ request[c].method = "POST" => request[c].form
  /\ con_cls' = [con_cls EXCEPT ![c] = [params |-> << >>, type |-> request[c].method,
                                         failed |-> FALSE]]
  /\ Allocate(c, {"con_info", "params"}
                   \cup IF request[c].method = "POST" THEN {"postprocessor"} ELSE {})
  /\ UNCHANGED <<request, requests, came, page, handled, refused>>

\* con_info is freed and MHD_NO closes the connection; params stays.
NoPostProcessor(c) ==
  /\ request[c] # NULL /\ con_cls[c] = NULL
  /\ request[c].method = "POST" /\ ~request[c].form
  /\ Allocate(c, {"params"})
  /\ refused' = [refused EXCEPT ![c] = @ + 1]
  /\ request' = [request EXCEPT ![c] = NULL]
  /\ UNCHANGED <<requests, came, con_cls, page, handled>>

Calling(c, method) == request[c] # NULL /\ request[c].method = method
                        /\ con_cls[c] # NULL /\ page[c] = NULL

AnswerNow_Bug(c) ==
  /\ Calling(c, "GET")
  /\ page' = [page EXCEPT ![c] = "handleGet"]
  /\ UNCHANGED <<request, requests, came, con_cls, handled, heap, refused>>

\* A GET is answered by handleGet, another method with an error page.
AnswerNow(c) ==
  /\ \/ Calling(c, "GET") /\ page' = [page EXCEPT ![c] = "handleGet"]
     \/ Calling(c, "PUT") /\ page' = [page EXCEPT ![c] = "errorpage"]
  /\ UNCHANGED <<request, requests, came, con_cls, handled, heap, refused>>

\* The next n pieces come in one chunk, of which the post processor passes on
\* the first k: all, unless it refuses the chunk.  answer_to_connection does not
\* look at its result; the rest of the body is taken and nothing added.  urlStr
\* is allocated anew in every call and never freed.
PostData(c, n) ==
  /\ Calling(c, "POST")
  /\ \E k \in 0..n, failed \in BOOLEAN :
       /\ IF con_cls[c].failed THEN failed /\ k = 0 ELSE failed \/ k = n
       /\ con_cls' = [con_cls EXCEPT
            ![c].failed = failed,
            ![c].params = @ \o [i \in 1..k |-> CString(request[c].body[came[c] + i])]]
  /\ came' = [came EXCEPT ![c] = @ + n]
  /\ Allocate(c, {"urlStr"})
  /\ UNCHANGED <<request, requests, page, handled, refused>>

Whole(c) == came[c] = Len(request[c].body)

PostEnd_Bug(c) ==
  /\ Calling(c, "POST")
  /\ page' = [page EXCEPT ![c] = "handlePost"]
  /\ handled' = [handled EXCEPT ![c] = Append(@, con_cls[c].params)]
  /\ Allocate(c, {"urlStr", "answerstring"})
  /\ UNCHANGED <<request, requests, came, con_cls, refused>>

\* The call without data: handlePost makes the page.
PostEnd(c) ==
  /\ Calling(c, "POST") /\ Whole(c)
  /\ page' = [page EXCEPT ![c] = "handlePost"]
  /\ handled' = [handled EXCEPT ![c] = Append(@, con_cls[c].params)]
  /\ Allocate(c, {"urlStr", "answerstring"})
  /\ UNCHANGED <<request, requests, came, con_cls, refused>>

request_completed_Bug(c) ==
  /\ request[c] # NULL
  /\ request' = [request EXCEPT ![c] = NULL]
  /\ con_cls' = [con_cls EXCEPT ![c] = NULL]
  /\ IF con_cls[c] = NULL THEN UNCHANGED heap
     ELSE Free(c, {"con_info"}
                    \cup (IF con_cls[c].type = "POST" THEN {"postprocessor"} ELSE {})
                    \cup (IF handled[c] # << >> THEN {"answerstring"} ELSE {}))
  /\ UNCHANGED <<requests, came, page, handled, refused>>

\* The response has been sent, or the client has gone at any moment before.
request_completed(c) ==
  /\ request[c] # NULL
  /\ request' = [request EXCEPT ![c] = NULL]
  /\ con_cls' = [con_cls EXCEPT ![c] = NULL]
  /\ IF con_cls[c] = NULL THEN UNCHANGED heap
     ELSE Free(c, {"con_info", "params"}
                    \cup (IF con_cls[c].type = "POST" THEN {"postprocessor"} ELSE {})
                    \cup (IF handled[c] # << >> THEN {"answerstring"} ELSE {}))
  /\ UNCHANGED <<requests, came, page, handled, refused>>

-----------------------------------------------------------------------------
CallBack(c) == FirstCall(c) \/ NoPostProcessor(c) \/ AnswerNow(c) \/ PostEnd(c)

Data(c) == request[c] # NULL /\ \E n \in 1..Len(request[c].body) - came[c] : PostData(c, n)

Next == \E c \in Connections : \/ \E r \in Request : Send(c, r)
                               \/ CallBack(c) \/ Data(c)
                               \/ request_completed(c)

Spec == Init /\ [][Next]_vars

\* The thread of the library serves every connection.  Nothing makes a client
\* send the rest of a body: no timeout is set for connections.
FairSpec == Spec /\ \A c \in Connections : WF_vars(CallBack(c))

-----------------------------------------------------------------------------
\* The type of every variable (HTTPServer.h:72-79); a block is not freed twice.
TypeOK ==
  /\ request \in [Connections -> Request \cup {NULL}]
  /\ requests \in [Connections -> 0..MaxRequests]
  /\ came \in [Connections -> Nat]
  /\ con_cls \in [Connections -> ConInfo \cup {NULL}]
  /\ page \in [Connections -> {NULL, "handleGet", "handlePost", "errorpage"}]
  /\ handled \in [Connections -> Seq(Seq(Texts))]
  /\ heap \in [Connections -> [Blocks -> Nat]]
  /\ refused \in [Connections -> 0..MaxRequests]

\* The first k pieces of a body, as they are passed on.
Passed(body, k) == [i \in 1..k |-> CString(body[i])]

\* The program gets a POST at most once, when all of its body has come, with
\* every piece up to its first NUL, once and in order, however the chunks of
\* several connections follow each other; only of a body that the post processor
\* refused it gets a part, which is the beginning (HTTPServer.cpp:99-117,
\* 213-238).
PostWhole ==
  \A c \in Connections : request[c] # NULL /\ request[c].method = "POST" /\ handled[c] # << >> =>
     \E k \in 0..Len(request[c].body) :
        /\ handled[c] = <<Passed(request[c].body, k)>>
        /\ Whole(c) /\ (k < Len(request[c].body) => con_cls[c].failed)

\* Between two requests nothing of the first remains, but for urlStr and the
\* params of refused POSTs, wherever the first was cut short
\* (HTTPServer.cpp:139-160).
HeapBalanced ==
  \A c \in Connections : con_cls[c] = NULL =>
     /\ \A b \in {"con_info", "postprocessor", "answerstring"} : heap[c][b] = 0
     /\ heap[c]["params"] = refused[c]

\* During a request one block of each kind is held, what has been passed on is
\* the beginning of what has come, all of it unless the post processor refused
\* a chunk, and only a request that the program has not seen is without a page.
CallInv ==
  \A c \in Connections :
     /\ request[c] = NULL => con_cls[c] = NULL
     /\ refused[c] <= requests[c] /\ (request[c] # NULL => refused[c] < requests[c])
     /\ request[c] # NULL /\ con_cls[c] = NULL =>
           came[c] = 0 /\ page[c] = NULL /\ handled[c] = << >>
     /\ con_cls[c] # NULL =>
           /\ con_cls[c].type = request[c].method
           /\ heap[c]["con_info"] = 1 /\ heap[c]["params"] = refused[c] + 1
           /\ heap[c]["postprocessor"] = IF con_cls[c].type = "POST" THEN 1 ELSE 0
           /\ heap[c]["answerstring"] = IF handled[c] # << >> THEN 1 ELSE 0
           /\ con_cls[c].params = Passed(request[c].body, Len(con_cls[c].params))
           /\ Len(con_cls[c].params) <= came[c] /\ came[c] <= Len(request[c].body)
           /\ Len(con_cls[c].params) < came[c] => con_cls[c].failed
           /\ page[c] = NULL => handled[c] = << >>

\* Inductive, with PostWhole: types, no block lost or freed twice, and what
\* the calls of one request have come to.
HeapInv == TypeOK /\ HeapBalanced /\ CallInv

\* A request that has come is answered, refused or cut short; one whose body
\* stops coming is not answered (HTTPServer.cpp:162-241).
Answered ==
  \A c \in Connections :
     request[c] # NULL /\ Whole(c) ~> (request[c] = NULL \/ page[c] # NULL)
=============================================================================
