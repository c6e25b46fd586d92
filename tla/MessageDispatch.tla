-------------------------- MODULE MessageDispatch --------------------------
(* What one module does with the JSON messages of its registered peers:     *)
(* PeerManager::receive files a message under mutex_messages, the thread    *)
(* PeerManager::messageHandler pops the list and calls the JSON handler,    *)
(* and any thread may block in PeerManager::waitFor for one reply.          *)
(*                                                                          *)
(* An action is one critical section of mutex_messages, or one step between *)
(* two of them.  A message is its sender, the value of the field a caller   *)
(* of waitFor looks at ("kind") and its place in the order of arrival, by   *)
(* which the properties tell messages apart.                                *)
EXTENDS Naturals, Sequences

CONSTANTS Peers,          \* URIs of registered peers
          Kinds,          \* values of the field waitFor compares
          AppThreads,     \* threads of the program that call waitFor
          HandlerThread,  \* the thread that runs messageHandler
          MaxMsgs,        \* bound on the messages that arrive
          NULL

ASSUME HandlerAssumption == HandlerThread \notin AppThreads
ASSUME MaxMsgsAssumption == MaxMsgs \in Nat

Threads == AppThreads \cup {HandlerThread}
Message == [from : Peers, kind : Kinds, seq : 1..MaxMsgs]

WaitRequest == [fromUri : Peers, val : Kinds, jsonReply : Message \cup {NULL}]

ASSUME NullAssumption ==
  /\ NULL \notin Message
  /\ NULL \notin WaitRequest
  /\ NULL \notin [by : Threads, from : Peers, kind : Kinds, answer : Message \cup {NULL}]

VARIABLES
  arrived,        \* how many messages have been dispatched
  messages,       \* the list of messages waiting for messageHandler
  amWaitingFor,   \* the shared wait request, NULL when nobody waits
  pc,             \* where each thread is in waitFor
  elapsed,        \* whether the time0 of its call has run out
  mJsonHandler,   \* SetJsonHandler has been called
  jsonHandler,    \* ModuleSkeleton::setJsonHandler has been called
  hstate,         \* where messageHandler is
  inHand          \* the message it has popped, NULL if none

\* History of the run, read by properties only.
VARIABLES
  since,          \* [t]: messages dispatched when t entered waitFor
  until,          \* [t]: messages dispatched when its time ran out
  sleptAt,        \* [t]: messages dispatched when it last fell asleep
  handled,        \* messages given to the JSON handler, in order
  dropped,        \* messages popped while no handler was installed
  returned,       \* replies returned by waitFor, with the request
  lost            \* replies overwritten or deleted in the wait request

program == <<arrived, messages, amWaitingFor, pc, elapsed,
             mJsonHandler, jsonHandler, hstate, inHand>>
history == <<since, until, sleptAt, handled, dropped, returned, lost>>
vars    == <<program, history>>

Init ==
  /\ arrived = 0
  /\ messages = << >>
  /\ amWaitingFor = NULL
  /\ pc = [t \in Threads |-> "idle"]
  /\ elapsed = [t \in Threads |-> FALSE]
  /\ mJsonHandler = FALSE
  /\ jsonHandler = FALSE
  /\ hstate = "polling"
  /\ inHand = NULL
  /\ since = [t \in Threads |-> 0]
  /\ until = [t \in Threads |-> 0]
  /\ sleptAt = [t \in Threads |-> 0]
  /\ handled = << >>
  /\ dropped = {}
  /\ returned = {}
  /\ lost = {}

-----------------------------------------------------------------------------
(* Installing the handlers, after the threads run.                          *)

SetJsonHandler ==
  /\ ~mJsonHandler
  /\ mJsonHandler' = TRUE
  /\ UNCHANGED <<arrived, messages, amWaitingFor, pc, elapsed,
                 jsonHandler, hstate, inHand, history>>

setJsonHandler ==
  /\ ~jsonHandler
  /\ jsonHandler' = TRUE
  /\ UNCHANGED <<arrived, messages, amWaitingFor, pc, elapsed,
                 mJsonHandler, hstate, inHand, history>>

-----------------------------------------------------------------------------
(* PeerManager::receive, the part under mutex_messages.                     *)

isWaitResponse_Bug(m) == amWaitingFor # NULL /\ m.from = amWaitingFor.fromUri

isWaitResponse(m) ==
  /\ amWaitingFor # NULL
  /\ m.from = amWaitingFor.fromUri
  /\ m.kind = amWaitingFor.val

NotifyAll_Bug == pc

\* cv_messages.notify_all().
NotifyAll == [t \in Threads |-> IF pc[t] = "sleeping" THEN "signalled" ELSE pc[t]]

\* The messages in the reply slot of the wait request: none or one.
Slot == IF amWaitingFor = NULL THEN {} ELSE {amWaitingFor.jsonReply} \ {NULL}

ReceiveReply_Bug(m) ==
  /\ isWaitResponse(m)
  /\ amWaitingFor' = [amWaitingFor EXCEPT !.jsonReply = m]
  /\ lost' = lost \cup Slot
  /\ messages' = Append(messages, m)

\* The reply takes the slot whether or not the slot is free.
ReceiveReply(m) ==
  /\ isWaitResponse(m)
  /\ amWaitingFor' = [amWaitingFor EXCEPT !.jsonReply = m]
  /\ lost' = lost \cup Slot
  /\ UNCHANGED messages

ReceiveOther_Bug(m) ==
  /\ ~isWaitResponse(m)
  /\ messages' = <<m>> \o messages
  /\ UNCHANGED <<amWaitingFor, lost>>

ReceiveOther(m) ==
  /\ ~isWaitResponse(m)
  /\ messages' = Append(messages, m)
  /\ UNCHANGED <<amWaitingFor, lost>>

Receive(p, k) ==
  /\ arrived < MaxMsgs
  /\ arrived' = arrived + 1
  /\ LET m == [from |-> p, kind |-> k, seq |-> arrived + 1]
     IN  ReceiveReply(m) \/ ReceiveOther(m)
  /\ pc' = NotifyAll
  /\ UNCHANGED <<elapsed, mJsonHandler, jsonHandler, hstate, inHand,
                 since, until, sleptAt, handled, dropped, returned>>

-----------------------------------------------------------------------------
(* PeerManager::waitFor.  The handler thread calls it from inside the JSON  *)
(* handler, the others whenever they like.                                  *)

mayCall(t) ==
  /\ pc[t] = "idle"
  /\ t = HandlerThread => hstate = "inHandler"

requestFree_Bug == TRUE

requestFree == amWaitingFor = NULL

\* A second caller is refused ("can not perform two simultaneous waitFor
\* operations!"): its call returns false and changes nothing, a stutter here.
WaitForClaim(t, p, k) ==
  /\ mayCall(t)
  /\ requestFree
  /\ amWaitingFor' = [fromUri |-> p, val |-> k, jsonReply |-> NULL]
  /\ pc' = [pc EXCEPT ![t] = "loop"]
  /\ since' = [since EXCEPT ![t] = arrived]
  /\ UNCHANGED <<arrived, messages, elapsed, mJsonHandler, jsonHandler, hstate,
                 inHand, until, sleptAt, handled, dropped, returned, lost>>

\* time0 runs out, at any moment of the loop.
Elapse(t) ==
  /\ pc[t] \in {"loop", "sleeping", "signalled"}
  /\ ~elapsed[t]
  /\ elapsed' = [elapsed EXCEPT ![t] = TRUE]
  /\ until' = [until EXCEPT ![t] = arrived]
  /\ UNCHANGED <<arrived, messages, amWaitingFor, pc, mJsonHandler,
                 jsonHandler, hstate, inHand, since, sleptAt, handled, dropped,
                 returned, lost>>

timeIsUp_Bug(t) == FALSE

\* timeDel <= 0.
timeIsUp(t) == elapsed[t]

\* timeDel is computed and tested outside the lock, and the reply is not
\* looked at before wait_for puts the thread to sleep.
LoopTop(t) ==
  /\ pc[t] = "loop"
  /\ pc' = [pc EXCEPT ![t] = IF timeIsUp(t) THEN "expired" ELSE "sleeping"]
  /\ sleptAt' = [sleptAt EXCEPT ![t] = IF elapsed[t] THEN @ ELSE arrived]
  /\ UNCHANGED <<arrived, messages, amWaitingFor, elapsed, mJsonHandler,
                 jsonHandler, hstate, inHand, since, until, handled, dropped,
                 returned, lost>>

\* The call returns, and its locals are gone.
Return(t) ==
  /\ pc' = [pc EXCEPT ![t] = "idle"]
  /\ elapsed' = [elapsed EXCEPT ![t] = FALSE]
  /\ since' = [since EXCEPT ![t] = 0]
  /\ until' = [until EXCEPT ![t] = 0]
  /\ sleptAt' = [sleptAt EXCEPT ![t] = 0]

\* wait_for returns: notified, timed out, or spuriously.
TakeReply(t) ==
  /\ pc[t] \in {"sleeping", "signalled"}
  /\ Slot # {}
  /\ returned' = returned \cup {[to |-> t, fromUri |-> amWaitingFor.fromUri,
                                 val |-> amWaitingFor.val, since |-> since[t],
                                 reply |-> amWaitingFor.jsonReply]}
  /\ amWaitingFor' = NULL
  /\ Return(t)
  /\ UNCHANGED <<arrived, messages, mJsonHandler, jsonHandler, hstate, inHand,
                 handled, dropped, lost>>

WakeInVain(t) ==
  /\ pc[t] \in {"sleeping", "signalled"}
  /\ Slot = {}
  /\ pc' = [pc EXCEPT ![t] = "loop"]
  /\ UNCHANGED <<arrived, messages, amWaitingFor, elapsed, mJsonHandler,
                 jsonHandler, hstate, inHand, history>>

\* The slot is deleted with whatever is in it.
GiveUp(t) ==
  /\ pc[t] = "expired"
  /\ lost' = lost \cup Slot
  /\ amWaitingFor' = NULL
  /\ Return(t)
  /\ UNCHANGED <<arrived, messages, mJsonHandler, jsonHandler, hstate, inHand,
                 handled, dropped, returned>>

-----------------------------------------------------------------------------
(* PeerManager::messageHandler and ModuleSkeleton::handleTcpJson.           *)

PopMessage_Bug ==
  /\ amWaitingFor = NULL
  /\ hstate = "polling"
  /\ messages # << >>
  /\ inHand' = Head(messages)
  /\ messages' = Tail(messages)
  /\ hstate' = "popped"
  /\ UNCHANGED <<arrived, amWaitingFor, pc, elapsed, mJsonHandler,
                 jsonHandler, history>>

PopMessage ==
  /\ hstate = "polling"
  /\ messages # << >>
  /\ inHand' = Head(messages)
  /\ messages' = Tail(messages)
  /\ hstate' = "popped"
  /\ UNCHANGED <<arrived, amWaitingFor, pc, elapsed, mJsonHandler,
                 jsonHandler, history>>

HandOver ==
  /\ hstate = "popped"
  /\ mJsonHandler /\ jsonHandler
  /\ handled' = Append(handled, inHand)
  /\ inHand' = NULL
  /\ hstate' = "inHandler"
  /\ UNCHANGED <<arrived, messages, amWaitingFor, pc, elapsed,
                 mJsonHandler, jsonHandler, since, until, sleptAt, dropped,
                 returned, lost>>

Drop ==
  /\ hstate = "popped"
  /\ ~(mJsonHandler /\ jsonHandler)
  /\ dropped' = dropped \cup {inHand}
  /\ inHand' = NULL
  /\ hstate' = "polling"
  /\ UNCHANGED <<arrived, messages, amWaitingFor, pc, elapsed,
                 mJsonHandler, jsonHandler, since, until, sleptAt, handled,
                 returned, lost>>

\* The JSON handler returns; it cannot while it is blocked in waitFor.
EndHandler ==
  /\ hstate = "inHandler"
  /\ pc[HandlerThread] = "idle"
  /\ hstate' = "polling"
  /\ UNCHANGED <<arrived, messages, amWaitingFor, pc, elapsed,
                 mJsonHandler, jsonHandler, inHand, history>>

-----------------------------------------------------------------------------
WaitStep(t) ==
  \/ \E p \in Peers, k \in Kinds : WaitForClaim(t, p, k)
  \/ Elapse(t)
  \/ LoopTop(t)
  \/ TakeReply(t)
  \/ WakeInVain(t)
  \/ GiveUp(t)

HandlerStep == PopMessage \/ HandOver \/ Drop \/ EndHandler

Next ==
  \/ SetJsonHandler
  \/ setJsonHandler
  \/ \E p \in Peers, k \in Kinds : Receive(p, k)
  \/ \E t \in Threads : WaitStep(t)
  \/ HandlerStep

Spec == Init /\ [][Next]_vars

\* A notified thread runs, and so does one whose wait_for has timed out.
\* A spurious wake-up is possible but never due.
WakeDue(t) ==
  /\ pc[t] = "signalled" \/ elapsed[t]
  /\ TakeReply(t) \/ WakeInVain(t)

\* The scheduler runs every thread that can run; the clock is not involved.
ThreadFairness ==
  /\ \A t \in Threads : /\ WF_vars(LoopTop(t))
                        /\ WF_vars(WakeDue(t))
                        /\ WF_vars(GiveUp(t))
  /\ WF_vars(PopMessage)
  /\ WF_vars(HandOver \/ Drop)

\* Time passes.
ClockFairness == \A t \in Threads : WF_vars(Elapse(t))

\* A JSON handler calls waitFor finitely often and then returns.
HandlerReturns == SF_vars(EndHandler)

FairSpec == Spec /\ ThreadFairness /\ ClockFairness /\ HandlerReturns

-----------------------------------------------------------------------------
Returned    == [to : Threads, fromUri : Peers, val : Kinds, since : 0..MaxMsgs,
                reply : Message]

\* The type of every variable (PeerManager.h:83-102).
TypeOK ==
  /\ arrived \in 0..MaxMsgs
  /\ messages \in Seq(Message)
  /\ amWaitingFor \in WaitRequest \cup {NULL}
  /\ pc \in [Threads -> {"idle", "loop", "sleeping", "signalled", "expired"}]
  /\ elapsed \in [Threads -> BOOLEAN]
  /\ mJsonHandler \in BOOLEAN
  /\ jsonHandler \in BOOLEAN
  /\ hstate \in {"polling", "popped", "inHandler"}
  /\ inHand \in Message \cup {NULL}
  /\ since \in [Threads -> 0..MaxMsgs]
  /\ until \in [Threads -> 0..MaxMsgs]
  /\ sleptAt \in [Threads -> 0..MaxMsgs]
  /\ handled \in Seq(Message)
  /\ dropped \in SUBSET Message
  /\ returned \in SUBSET Returned
  /\ lost \in SUBSET Message

InWait(t) == pc[t] # "idle"

\* waitFor owns amWaitingFor: the request exists exactly while one thread is
\* inside waitFor, so no thread frees another's request and the unguarded
\* dereferences at PeerManager.cpp:442-445 never meet NULL.
OneWaiter ==
  /\ amWaitingFor = NULL <=> \A t \in Threads : ~InWait(t)
  /\ \A t, u \in Threads : InWait(t) /\ InWait(u) => t = u

InHandSeq == IF inHand = NULL THEN << >> ELSE <<inHand>>

Increasing(s) == \A i, j \in 1..Len(s) : i < j => s[i].seq < s[j].seq

\* Messages reach the JSON handler in the order they arrived, although the
\* list and the popped message are touched by threads of several peers and
\* replies leave the order (messageHandler pops outside the dispatch).
HandlerOrder == Increasing(handled \o InHandSeq \o messages)

\* waitFor returns only a reply of the peer and with the value asked for, and
\* only one dispatched after the call was entered.
ReplyFits ==
  \A r \in returned : /\ r.reply.from = r.fromUri
                      /\ r.reply.kind = r.val
                      /\ r.reply.seq > r.since

\* No reply is stored past a sleeping waiter: what is in the slot was there
\* when it fell asleep, or it has been notified.  The wait request is written
\* and the waiters are woken in one critical section (PeerManager.cpp:210-222).
NotSleptOver ==
  \A t \in Threads : pc[t] = "sleeping" => \A m \in Slot : m.seq <= sleptAt[t]

SeqRange(s) == {s[i] : i \in 1..Len(s)}

InHand == {inHand} \ {NULL}

\* The places a dispatched message can be in.
Places == <<SeqRange(messages), InHand, SeqRange(handled), dropped,
            Slot, {r.reply : r \in returned}, lost>>

\* Every message dispatched is in exactly one place: nothing is handed over
\* twice, returned to a waiter and handled as well, or forgotten unaccounted.
Conservation ==
  \A n \in 1..arrived : \E i \in DOMAIN Places :
     \A j \in DOMAIN Places : (\E m \in Places[j] : m.seq = n) <=> i = j

-----------------------------------------------------------------------------
(* The inductive invariant behind them, in parts.                           *)

HandInv == hstate = "popped" <=> inHand # NULL

\* What is in the slot answers the request it is in.
AnswerInv ==
  /\ \A t \in Threads : since[t] <= arrived
  /\ \A m \in Slot : /\ m.from = amWaitingFor.fromUri
                     /\ m.kind = amWaitingFor.val
                     /\ \A t \in Threads : InWait(t) => since[t] < m.seq
  /\ ReplyFits

\* A sleeping waiter was notified of every reply stored since.
WakeInv == /\ \A m \in Slot : m.seq <= arrived
           /\ NotSleptOver

\* handled, the popped message and the list follow each other in arrival order.
OrderInv ==
  /\ Increasing(handled) /\ Increasing(messages)
  /\ \A m \in SeqRange(messages) :
       m.seq <= arrived /\ \A h \in InHand \cup SeqRange(handled) : h.seq < m.seq
  /\ \A m \in InHand : m.seq <= arrived /\ \A h \in SeqRange(handled) : h.seq < m.seq
  /\ \A m \in SeqRange(handled) : m.seq <= arrived

\* Inductive: it implies TypeOK, OneWaiter, HandlerOrder, ReplyFits and
\* NotSleptOver, and every step of receive, waitFor and messageHandler
\* preserves it.
DispatchInv == TypeOK /\ OneWaiter /\ HandInv /\ AnswerInv /\ WakeInv /\ OrderInv

-----------------------------------------------------------------------------
\* A call of waitFor returns whatever the peers do (PeerManager.cpp:424-439).
WaitReturns == \A t \in Threads : InWait(t) ~> ~InWait(t)

\* Every message of the list is popped, even while other threads wait and
\* the handler itself may wait for replies (PeerManager.cpp:340-355).
QueueDrains ==
  \A m \in Message : m \in SeqRange(messages) ~> m \in SeqRange(handled) \cup dropped

\* A reply that arrived before time0 ran out is not thrown away by a waitFor
\* that reports it "Did not receive response in give time interval".
InTimeReplyReturned ==
  [][\A t \in Threads : GiveUp(t) => \A m \in Slot : m.seq > until[t]]_vars

-----------------------------------------------------------------------------
(* The module implements Mailbox: the popped message is still in the inbox, *)
(* and the thread that asks is the one inside waitFor.                      *)

Waiter == CHOOSE t \in Threads : InWait(t)

Asking == IF amWaitingFor = NULL THEN NULL
          ELSE [by |-> Waiter, from |-> amWaitingFor.fromUri,
                kind |-> amWaitingFor.val, answer |-> amWaitingFor.jsonReply]

Box == INSTANCE Mailbox WITH inbox <- InHandSeq \o messages,
                             handed <- handled,
                             asking <- Asking

\* Every step of the threads is a step of Mailbox or invisible to it, whatever
\* the interleaving of receive threads, messageHandler and callers of waitFor.
ImplementsMailbox == Box!MSpec
=============================================================================
