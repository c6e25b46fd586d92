---------------------------- MODULE MessageQueue ----------------------------
(* The queue of messages that threads share: every call takes p_mutex, but  *)
(* GetSize does not, and popFromBegin keeps it when the queue is empty. A   *)
(* call that has the mutex is one step; waiting for it is a state.  Nothing *)
(* initialises p_mutex, and what pthread_mutex_lock returns is not looked   *)
(* at.  The time that pushToEnd writes into a message is left out.          *)
(*                                                                          *)
(* The definitions named ..._Bug are mistakes that the properties detect;   *)
(* they are not part of the model.                                          *)
EXTENDS Naturals, Sequences

CONSTANTS Threads, Messages, None,
          MaxPushes   \* bound: no more is pushed once that many have come in

ASSUME NoneAssumption == None \notin Threads

VARIABLES
  mq,        \* the list
  lock,      \* what pthread_mutex_lock does with a p_mutex that holds what the
             \* memory held: it "works", it never returns ("stuck"), or it
             \* returns at once and keeps nobody out ("absent")
  p_mutex,   \* thread that keeps the mutex though its call is over, or None
  waiting,   \* [thread]: the call that waits for the mutex, << >> if none
  size,      \* [thread]: what GetSize answered last
  pushed,    \* history: messages in the order they came in
  popped,    \* history: messages in the order they were handed out
  spoilt     \* whether two calls were inside the list at once

vars == <<mq, lock, p_mutex, waiting, size, pushed, popped, spoilt>>

\* The constructor leaves p_mutex as it is.
Init == /\ lock \in {"works", "stuck", "absent"}
        /\ mq = << >> /\ p_mutex = None /\ spoilt = FALSE
        /\ waiting = [t \in Threads |-> << >>]
        /\ size = [t \in Threads |-> 0]
        /\ pushed = << >> /\ popped = << >>

Calls == {<<"push", m>> : m \in Messages} \cup {<<"pop">>, <<"ToString">>}

Call(t, c) ==
  /\ waiting[t] = << >>
  /\ waiting' = [waiting EXCEPT ![t] = c]
  /\ UNCHANGED <<mq, p_mutex, size, pushed, popped>>

\* pthread_mutex_lock returns, and the call c of t goes on to its end.
Locked(t, c) == /\ waiting[t] # << >> /\ waiting[t][1] = c
                /\ lock # "stuck" /\ p_mutex = None
                /\ waiting' = [waiting EXCEPT ![t] = << >>]

pushToEnd_Bug(t) ==
  /\ Locked(t, "push")
  /\ mq' = <<waiting[t][2]>> \o mq
  /\ pushed' = Append(pushed, waiting[t][2])
  /\ UNCHANGED <<p_mutex, size, popped>>

pushToEnd(t) ==
  /\ Locked(t, "push")
  /\ mq' = Append(mq, waiting[t][2])
  /\ pushed' = Append(pushed, waiting[t][2])
  /\ UNCHANGED <<p_mutex, size, popped>>

popFromBegin(t) ==
  /\ Locked(t, "pop")
  /\ mq # << >>
  /\ popped' = Append(popped, Head(mq))
  /\ mq' = Tail(mq)
  /\ UNCHANGED <<p_mutex, size, pushed>>

popFromEmpty_Bug(t) ==
  /\ Locked(t, "pop")
  /\ p_mutex' = IF lock = "works" THEN t ELSE None
  /\ UNCHANGED <<mq, size, pushed, popped>>

\* "return -1", without pthread_mutex_unlock.
popFromEmpty(t) ==
  /\ Locked(t, "pop")
  /\ mq = << >>
  /\ p_mutex' = IF lock = "works" THEN t ELSE None
  /\ UNCHANGED <<mq, size, pushed, popped>>

QueueToString(t) ==
  /\ Locked(t, "ToString")
  /\ UNCHANGED <<mq, p_mutex, size, pushed, popped>>

GetSize(t) ==
  /\ waiting[t] = << >>
  /\ size' = [size EXCEPT ![t] = Len(mq)]
  /\ UNCHANGED <<mq, p_mutex, waiting, pushed, popped>>

Proceed(t) == pushToEnd(t) \/ popFromBegin(t) \/ popFromEmpty(t) \/ QueueToString(t)

\* Two calls are inside at once: a data race.  Nothing is said of the list, or
\* of the program, from then on.
Overlap(t, other) ==
  /\ lock = "absent"
  /\ t # other /\ waiting[t] # << >> /\ waiting[other] # << >>
  /\ spoilt' = TRUE
  /\ UNCHANGED <<mq, lock, p_mutex, waiting, size, pushed, popped>>

CallStep(t) == \/ \E c \in Calls : /\ c[1] = "push" => Len(pushed) < MaxPushes
                                   /\ Call(t, c)
               \/ Proceed(t) \/ GetSize(t)

Next == /\ ~spoilt
        /\ \/ \E t \in Threads : CallStep(t) /\ UNCHANGED <<lock, spoilt>>
           \/ \E t, other \in Threads : Overlap(t, other)

Spec == Init /\ [][Next]_vars

-----------------------------------------------------------------------------
\* The type of every variable (MessageQueue.h:19-20).
TypeOK == /\ mq \in Seq(Messages) /\ pushed \in Seq(Messages) /\ popped \in Seq(Messages)
          /\ p_mutex \in Threads \cup {None} /\ spoilt \in BOOLEAN
          /\ lock \in {"works", "stuck", "absent"}
          /\ waiting \in [Threads -> Calls \cup {<< >>}]
          /\ size \in [Threads -> Nat]

\* Messages are handed out in the order they came in, each once, unless p_mutex
\* keeps nobody out and two calls were inside at once: a mutex that works, or
\* one that blocks for ever, does not let that happen (MessageQueue.cpp:10-11,
\* 17-26, 38-48).
FirstInFirstOut == IF spoilt THEN lock = "absent" ELSE pushed = popped \o mq

\* Where the mutex works, a pop that found the queue empty was the queue's last
\* step: it is never released, and no message comes in or goes out any more, by
\* whatever thread, although GetSize goes on answering 0; only there can it be
\* kept (MessageQueue.cpp:10-11, 40-42).
EmptyPopIsLast ==
  [][p_mutex # None => /\ UNCHANGED <<mq, pushed, popped>>
                       /\ p_mutex' = p_mutex /\ mq = << >> /\ lock = "works"]_vars
=============================================================================
