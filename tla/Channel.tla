------------------------------ MODULE Channel ------------------------------
(* What one direction of a connection promises, without bytes, buffers,     *)
(* beacons or threads: messages come out once each, in the order in which   *)
(* they were put, and none is passed over unless it was spoilt, which takes *)
(* two messages that run into each other.                                   *)
EXTENDS Naturals, Sequences

CONSTANT Message

VARIABLES
  put,     \* messages that have been put into the channel
  wire,    \* those under way, each with its place: later ones have higher places
  spoilt,  \* messages that have run into another
  got      \* messages that came out, in order

chvars == <<put, wire, spoilt, got>>

CInit == put = {} /\ wire = {} /\ spoilt = {} /\ got = << >>

\* Messages run into each other, if any do: never one alone, and for good.
Collide ==
  /\ spoilt \subseteq spoilt'
  /\ spoilt' \subseteq Message
  /\ \A m \in spoilt' : spoilt' # {m}

\* A message takes the last place, once.
Put(m) ==
  /\ m \notin put
  /\ put' = put \cup {m}
  /\ \E x \in wire' : /\ x.msg = m
                      /\ wire' = wire \cup {x}
                      /\ \A y \in wire : y.at < x.at
  /\ Collide
  /\ UNCHANGED got

Spoil == UNCHANGED <<put, wire, got>> /\ Collide

\* A message comes out; what is before it is passed over.
Take(x) ==
  /\ \A y \in wire : y.at < x.at => y.msg \in spoilt
  /\ got' = Append(got, x.msg)
  /\ wire' = {y \in wire : y.at > x.at}
  /\ UNCHANGED <<put, spoilt>>

\* Spoilt messages are passed over.
Lose ==
  /\ wire' \subseteq wire
  /\ \A x \in wire \ wire' : x.msg \in spoilt
  /\ UNCHANGED <<put, spoilt, got>>

CNext ==
  \/ \E m \in Message : Put(m)
  \/ Spoil
  \/ \E x \in wire : Take(x)
  \/ Lose

CSpec == CInit /\ [][CNext]_chvars
=============================================================================
