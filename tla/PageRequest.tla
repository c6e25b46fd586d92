---------------------------- MODULE PageRequest ----------------------------
(* Pagedownloader asks a download server for pages: requestPythonDownloader *)
(* sends a request and then calls waitFor for the next message of the       *)
(* server whose message_type is that of a reply.  The message side is       *)
(* Mailbox, which the threads of MessageDispatch implement.  The server is  *)
(* external: it answers the requests in order, with the page or without.    *)
(*                                                                          *)
(* The definitions named ..._Bug are mistakes that the properties detect;   *)
(* they are not part of the model.                                          *)
EXTENDS Naturals, Sequences, SequencesExt, FiniteSets

CONSTANTS Threads,      \* threads that share the downloader
          Urls,
          Server,       \* pythonDownloaderUri
          MaxRequests,  \* bound on the requests
          NULL

ASSUME MaxRequestsAssumption == MaxRequests \in Nat

ReplyType == "ReplyPythonDownloader"

Ids     == 1..MaxRequests
Request == [id : Ids, url : Urls]
Reply   == [from : {Server}, kind : {ReplyType}, id : Ids, url : Urls, page : BOOLEAN]

VARIABLES
  inbox, handed, asking,  \* of Mailbox
  connected,   \* haveConnectionTo(*pythonDownloaderUri)
  requests,    \* requests on their way to the server
  replies,     \* replies on their way back
  sent,        \* how many requests were sent
  pc,          \* [t]: where t is in requestPythonDownloader
  mine,        \* [t]: the request t has sent
  outcomes     \* history: how the calls ended

Box == INSTANCE Mailbox WITH Peers <- {Server}, Kinds <- {ReplyType}, Message <- Reply

ASSUME NullAssumption == NULL \notin Request \cup Reply \cup Box!Request

mailVars == <<inbox, handed, asking>>
vars == <<mailVars, connected, requests, replies, sent, pc, mine, outcomes>>

Init ==
  /\ Box!MInit
  /\ connected = TRUE
  /\ requests = << >> /\ replies = << >>
  /\ sent = 0
  /\ pc = [t \in Threads |-> "idle"]
  /\ mine = [t \in Threads |-> NULL]
  /\ outcomes = {}

-----------------------------------------------------------------------------
\* haveConnectionTo and sendJson; without a connection the call is over.
SendRequest(t, u) ==
  /\ pc[t] = "idle"
  /\ connected
  /\ sent < MaxRequests
  /\ sent' = sent + 1
  /\ requests' = Append(requests, [id |-> sent + 1, url |-> u])
  /\ mine' = [mine EXCEPT ![t] = [id |-> sent + 1, url |-> u]]
  /\ pc' = [pc EXCEPT ![t] = "sent"]
  /\ UNCHANGED <<mailVars, connected, replies, outcomes>>

EndCall(t, ok, reply) ==
  /\ pc' = [pc EXCEPT ![t] = "idle"]
  /\ mine' = [mine EXCEPT ![t] = NULL]
  /\ outcomes' = outcomes \cup {[id |-> mine[t].id, url |-> mine[t].url, ok |-> ok,
                                 reply |-> reply]}
  /\ UNCHANGED <<connected, requests, replies, sent>>

EnterWait(t) ==
  /\ pc[t] = "sent"
  /\ Box!Ask(t, Server, ReplyType)
  /\ pc' = [pc EXCEPT ![t] = "waiting"]
  /\ UNCHANGED <<connected, requests, replies, sent, mine, outcomes>>

\* Another thread is inside waitFor.
WaitRefused(t) ==
  /\ pc[t] = "sent"
  /\ asking # NULL
  /\ EndCall(t, FALSE, NULL)
  /\ UNCHANGED mailVars

\* rxUri == fullUri && pageContent.length() > 1.
rightPage(t, r) == r.url = mine[t].url /\ r.page

WaitReturns(t) ==
  /\ pc[t] = "waiting"
  /\ asking.answer # NULL
  /\ Box!EndAsk
  /\ EndCall(t, rightPage(t, asking.answer), asking.answer)

WaitTimesOut_Bug(t) ==
  /\ pc[t] = "waiting"
  /\ EndCall(t, FALSE, NULL)
  /\ UNCHANGED mailVars

\* waitFor gives up after pythonDownloaderTimeout.
WaitTimesOut(t) ==
  /\ pc[t] = "waiting"
  /\ Box!EndAsk
  /\ EndCall(t, FALSE, NULL)

-----------------------------------------------------------------------------
(* The receive thread and messageHandler, by way of Mailbox.                *)

taken_Bug(s) == s

\* What remains of a stream once its head has been read.
taken(s) == Tail(s)

Receive ==
  /\ replies # << >>
  /\ Box!Arrive(Head(replies))
  /\ replies' = taken(replies)
  /\ UNCHANGED <<connected, requests, sent, pc, mine, outcomes>>

\* The program's JSON handler gets the replies nobody waited for.
Handle ==
  /\ Box!Deliver
  /\ UNCHANGED <<connected, requests, replies, sent, pc, mine, outcomes>>

-----------------------------------------------------------------------------
(* The server and the connection.                                           *)

ServerAnswers ==
  /\ connected
  /\ requests # << >>
  /\ \E page \in BOOLEAN :
        replies' = Append(replies, [from |-> Server, kind |-> ReplyType, page |-> page,
                                    id |-> Head(requests).id, url |-> Head(requests).url])
  /\ requests' = Tail(requests)
  /\ UNCHANGED <<mailVars, connected, sent, pc, mine, outcomes>>

Disconnect ==
  /\ connected
  /\ connected' = FALSE
  /\ requests' = << >>
  /\ replies' \in {replies, << >>}
  /\ UNCHANGED <<mailVars, sent, pc, mine, outcomes>>

makePythonDownloaderReady ==
  /\ ~connected
  /\ connected' = TRUE
  /\ UNCHANGED <<mailVars, requests, replies, sent, pc, mine, outcomes>>

Next ==
  \/ \E t \in Threads : \/ \E u \in Urls : SendRequest(t, u)
                        \/ EnterWait(t)
                        \/ WaitRefused(t)
                        \/ WaitReturns(t)
                        \/ WaitTimesOut(t)
  \/ Receive
  \/ Handle
  \/ ServerAnswers
  \/ Disconnect
  \/ makePythonDownloaderReady

Spec == Init /\ [][Next]_vars

-----------------------------------------------------------------------------
Outcome == [id : Ids, url : Urls, ok : BOOLEAN, reply : Reply \cup {NULL}]

\* The type of every variable (Pagedownloader.h:19-24).
TypeOK ==
  /\ inbox \in Seq(Reply) /\ handed \in Seq(Reply)
  /\ asking \in Box!Request \cup {NULL}
  /\ connected \in BOOLEAN
  /\ requests \in Seq(Request) /\ replies \in Seq(Reply)
  /\ sent \in 0..MaxRequests
  /\ pc \in [Threads -> {"idle", "sent", "waiting"}]
  /\ mine \in [Threads -> Request \cup {NULL}]
  /\ outcomes \subseteq Outcome

\* One reply ends at most one call, and a reply that ended a call is not also
\* given to the JSON handler.
ReplyUsedOnce ==
  /\ \A o, q \in outcomes : o # q /\ o.reply # NULL => o.reply # q.reply
  /\ \A o \in outcomes : o.reply # NULL => ~Contains(inbox \o handed, o.reply)

\* Somebody waits exactly while a call is in waitFor, and it is that call.
WaiterIsCaller ==
  /\ \A t \in Threads : pc[t] = "waiting" => asking # NULL /\ asking.by = t
  /\ asking # NULL => pc[asking.by] = "waiting"

\* The types, and one waiter.
PageInv == TypeOK /\ WaiterIsCaller
=============================================================================
