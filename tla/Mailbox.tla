------------------------------ MODULE Mailbox ------------------------------
(* What the message side of PeerManager promises to the program built on    *)
(* it, without threads, locks, polling or notifications: messages are       *)
(* delivered once each in the order of arrival, at most one call asks for a *)
(* reply at a time, and it is answered with a fitting message or abandoned. *)
EXTENDS Naturals, Sequences

CONSTANTS Peers, Kinds, Threads, Message, NULL

VARIABLES
  inbox,     \* messages not yet given to the program, in order of arrival
  handed,    \* messages given to the JSON handler, in order
  asking     \* the outstanding request, NULL if none

mvars == <<inbox, handed, asking>>

Request == [by : Threads, from : Peers, kind : Kinds, answer : Message \cup {NULL}]

\* m is an answer to the outstanding request.
Fits(m) == asking # NULL /\ m.from = asking.from /\ m.kind = asking.kind

MInit == inbox = << >> /\ handed = << >> /\ asking = NULL

\* A message that fits the request is kept for the asker (in the place of an
\* earlier one), any other joins the inbox.
Arrive(m) ==
  \/ /\ Fits(m)
     /\ asking' = [asking EXCEPT !.answer = m]
     /\ UNCHANGED <<inbox, handed>>
  \/ /\ ~Fits(m)
     /\ inbox' = Append(inbox, m)
     /\ UNCHANGED <<handed, asking>>

\* The oldest message goes to the program, or nowhere while it has no handler.
Deliver ==
  /\ inbox # << >>
  /\ inbox' = Tail(inbox)
  /\ handed' \in {handed, Append(handed, Head(inbox))}
  /\ UNCHANGED asking

Ask(t, p, k) ==
  /\ asking = NULL
  /\ asking' = [by |-> t, from |-> p, kind |-> k, answer |-> NULL]
  /\ UNCHANGED <<inbox, handed>>

\* The call ends, answered or not; only then may another begin.
EndAsk ==
  /\ asking # NULL
  /\ asking' = NULL
  /\ UNCHANGED <<inbox, handed>>

MNext ==
  \/ \E m \in Message : Arrive(m)
  \/ Deliver
  \/ \E t \in Threads, p \in Peers, k \in Kinds : Ask(t, p, k)
  \/ EndAsk

MSpec == MInit /\ [][MNext]_mvars
=============================================================================
