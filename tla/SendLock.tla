------------------------------- MODULE SendLock -------------------------------
(* mutex_peers and the sockets: sendJson keeps the mutex while write() waits *)
(* for room in the buffers of TCP; the receive thread at the other end, which *)
(* makes the room, takes the mutex of its own module in addPeer and DelPeer.  *)
(* haveConnectionTo and getListOfPeers take it too, but for one step, and     *)
(* leave nothing behind.                                                      *)
(*                                                                            *)
(* TCP is external: a buffer of Capacity units for each direction, of which a *)
(* registration takes one and a message some.  The table of peers is a set:   *)
(* which of several entries of one module is first is left open.              *)
(*                                                                            *)
(* The definitions named ..._Bug are mistakes that the properties detect;     *)
(* they are not part of the model.                                            *)
EXTENDS Naturals

CONSTANTS Modules,   \* processes
          Senders,   \* program threads that call sendJson
          Home,      \* the module of a thread
          Links,     \* TCP connections, each used once
          Dials,     \* who may dial whom over which, at any time
          Capacity,  \* units that TCP holds in one direction
          Sizes,     \* of messages, in units
          Faults,    \* modules that may crash and connections that may be lost
          NULL

ASSUME ModulesAssumption == /\ Home \in [Senders -> Modules]
                            /\ Dials \subseteq Links \X Modules \X Modules
ASSUME BoundsAssumption  == Capacity \in Nat \ {0} /\ Sizes \subseteq Nat \ {0}
ASSUME FaultsAssumption  == Faults \subseteq Modules \cup Links
ASSUME NullAssumption    == /\ NULL \notin Senders
                            /\ NULL \notin [client : Modules, server : Modules]
                            /\ NULL \notin [sock : Links \X {"CLIENT", "SERVER"}, left : Nat]

Ends == Links \X {"CLIENT", "SERVER"}

VARIABLES
  link,         \* [l]: who dialled whom, NULL before
  broken,       \* [l]: reads and writes fail
  unread,       \* [e]: units on their way to end e
  rx,           \* [e]: the receive thread of the end
  registered,   \* [e]: its registered
  peers,        \* [m]: the sockets in the table
  mutex_peers,  \* [m]: the thread that has kept the mutex, NULL if none
  writing       \* [t]: the socket t writes to and what is left, NULL if none

netVars  == <<link, broken>>
rxVars   == <<rx, registered, peers>>
sendVars == <<mutex_peers, writing>>
vars     == <<netVars, unread, rxVars, sendVars>>

Init ==
  /\ link = [l \in Links |-> NULL]
  /\ broken = [l \in Links |-> FALSE]
  /\ unread = [e \in Ends |-> 0]
  /\ rx = [e \in Ends |-> "none"]
  /\ registered = [e \in Ends |-> FALSE]
  /\ peers = [m \in Modules |-> {}]
  /\ mutex_peers = [m \in Modules |-> NULL]
  /\ writing = [t \in Senders |-> NULL]

Other(e) == <<e[1], IF e[2] = "CLIENT" THEN "SERVER" ELSE "CLIENT">>

Owner(e) == IF e[2] = "CLIENT" THEN link[e[1]].client ELSE link[e[1]].server

-----------------------------------------------------------------------------
(* A connection comes to be.                                                 *)

\* The socket is connected and the registration written.
createConnectionTo(l, m, n) ==
  /\ link[l] = NULL
  /\ link' = [link EXCEPT ![l] = [client |-> m, server |-> n]]
  /\ unread' = [unread EXCEPT ![<<l, "SERVER">>] = 1]
  /\ rx' = [rx EXCEPT ![<<l, "CLIENT">>] = "reading", ![<<l, "SERVER">>] = "backlog"]
  /\ UNCHANGED <<broken, registered, peers, sendVars>>

\* waitForPeers answers with our registration, unless the peer is gone.
AcceptPeer(l) ==
  /\ rx[<<l, "SERVER">>] = "backlog"
  /\ unread' = IF broken[l] THEN unread ELSE [unread EXCEPT ![<<l, "CLIENT">>] = 1]
  /\ rx' = [rx EXCEPT ![<<l, "SERVER">>] = "reading"]
  /\ UNCHANGED <<netVars, registered, peers, sendVars>>

-----------------------------------------------------------------------------
(* PeerManager::receive.                                                     *)

Free(m) == mutex_peers[m] = NULL

\* recv takes some of what TCP holds.
Recv(e) ==
  /\ rx[e] = "reading"
  /\ \E n \in 1..unread[e] : unread' = [unread EXCEPT ![e] = @ - n]

\* The registration comes first; addPeer has to wait for the mutex.
ReceiveRegister(e) ==
  /\ ~registered[e]
  /\ Recv(e)
  /\ rx' = [rx EXCEPT ![e] = "adding"]
  /\ UNCHANGED <<netVars, registered, peers, sendVars>>

addPeer_Bug(e) ==
  /\ rx[e] = "adding"
  /\ Free(Owner(e))
  /\ peers' = [peers EXCEPT ![Owner(e)] = @ \cup {e}]
  /\ registered' = [registered EXCEPT ![e] = TRUE]
  /\ rx' = [rx EXCEPT ![e] = "done"]
  /\ UNCHANGED <<netVars, unread, sendVars>>

addPeer(e) ==
  /\ rx[e] = "adding"
  /\ Free(Owner(e))
  /\ peers' = [peers EXCEPT ![Owner(e)] = @ \cup {e}]
  /\ registered' = [registered EXCEPT ![e] = TRUE]
  /\ rx' = [rx EXCEPT ![e] = "reading"]
  /\ UNCHANGED <<netVars, unread, sendVars>>

ReceiveOther_Bug(e) ==
  /\ registered[e]
  /\ Recv(e)
  /\ rx' = [rx EXCEPT ![e] = "adding"]
  /\ UNCHANGED <<netVars, registered, peers, sendVars>>

\* Messages and heart beats do not need the table.
ReceiveOther(e) ==
  /\ registered[e]
  /\ Recv(e)
  /\ UNCHANGED <<netVars, rxVars, sendVars>>

\* recv returns 0 or fails; what had come by then may be lost.
RecvClosed(e) ==
  /\ rx[e] = "reading"
  /\ broken[e[1]]
  /\ rx' = [rx EXCEPT ![e] = "deleting"]
  /\ unread' = [unread EXCEPT ![e] = 0]
  /\ UNCHANGED <<netVars, registered, peers, sendVars>>

\* An entry with the address of the peer goes, if it has registered.
DelPeer(e) ==
  /\ rx[e] = "deleting"
  /\ Free(Owner(e))
  /\ LET same == {d \in peers[Owner(e)] : registered[e] /\ Owner(Other(d)) = Owner(Other(e))}
     IN  IF same = {} THEN UNCHANGED peers
         ELSE \E d \in same : peers' = [peers EXCEPT ![Owner(e)] = @ \ {d}]
  /\ rx' = [rx EXCEPT ![e] = "done"]
  /\ UNCHANGED <<netVars, unread, registered, sendVars>>

-----------------------------------------------------------------------------
(* Writers.                                                                  *)

\* Without an entry for n the call takes the mutex, returns, and changes nothing.
sendJson(t, n, size) ==
  /\ writing[t] = NULL
  /\ Free(Home[t])
  /\ \E e \in peers[Home[t]] :
        /\ Owner(Other(e)) = n
        /\ writing' = [writing EXCEPT ![t] = [sock |-> e, left |-> size]]
  /\ mutex_peers' = [mutex_peers EXCEPT ![Home[t]] = t]
  /\ UNCHANGED <<netVars, unread, rxVars>>

Room(e) == Capacity - unread[Other(e)]

\* The kernel takes what fits; write() returns when it has taken everything.
Write(t) ==
  /\ writing[t] # NULL
  /\ LET e == writing[t].sock
     IN  /\ ~broken[e[1]]
         /\ \E n \in 1..Room(e) :
              /\ n = Room(e) \/ n = writing[t].left
              /\ n <= writing[t].left
              /\ unread' = [unread EXCEPT ![Other(e)] = @ + n]
              /\ writing' = [writing EXCEPT ![t].left = @ - n]
  /\ UNCHANGED <<netVars, rxVars, mutex_peers>>

Unlock(t) ==
  /\ mutex_peers' = [mutex_peers EXCEPT ![Home[t]] = NULL]
  /\ writing' = [writing EXCEPT ![t] = NULL]

SendReturns(t) ==
  /\ writing[t] # NULL /\ writing[t].left = 0
  /\ Unlock(t)
  /\ UNCHANGED <<netVars, unread, rxVars>>

SendFails_Bug(t) ==
  /\ writing[t] # NULL /\ broken[writing[t].sock[1]]
  /\ writing' = [writing EXCEPT ![t] = NULL]
  /\ UNCHANGED <<netVars, unread, rxVars, mutex_peers>>

SendFails_Bug2(t) ==
  /\ writing[t] # NULL
  /\ broken[writing[t].sock[1]] \/ Room(writing[t].sock) = 0
  /\ Unlock(t)
  /\ UNCHANGED <<netVars, unread, rxVars>>

\* ERROR_WRITING_TO_SOCKET.
SendFails(t) ==
  /\ writing[t] # NULL /\ broken[writing[t].sock[1]]
  /\ Unlock(t)
  /\ UNCHANGED <<netVars, unread, rxVars>>

\* The heart-beat thread writes without the mutex.
sendHearBeat(e) ==
  /\ registered[e] /\ ~broken[e[1]]
  /\ Room(e) > 0
  /\ unread' = [unread EXCEPT ![Other(e)] = @ + 1]
  /\ UNCHANGED <<netVars, rxVars, sendVars>>

-----------------------------------------------------------------------------
(* Faults.                                                                   *)

LinkFail(l) ==
  /\ l \in Faults
  /\ link[l] # NULL /\ ~broken[l]
  /\ broken' = [broken EXCEPT ![l] = TRUE]
  /\ UNCHANGED <<link, unread, rxVars, sendVars>>

LinksOf(m) == {l \in Links : link[l] # NULL /\ m \in {link[l].client, link[l].server}}

EndsOf(m) == {e \in Ends : link[e[1]] # NULL /\ Owner(e) = m}

\* Process m ends, and may be started anew.
Crash(m) ==
  /\ m \in Faults
  /\ broken' = [l \in Links |-> broken[l] \/ l \in LinksOf(m)]
  /\ unread' = [e \in Ends |-> IF e \in EndsOf(m) THEN 0 ELSE unread[e]]
  /\ rx' = [e \in Ends |-> IF e \in EndsOf(m) THEN "done" ELSE rx[e]]
  /\ registered' = [e \in Ends |-> registered[e] /\ e \notin EndsOf(m)]
  /\ peers' = [peers EXCEPT ![m] = {}]
  /\ mutex_peers' = [mutex_peers EXCEPT ![m] = NULL]
  /\ writing' = [t \in Senders |-> IF Home[t] = m THEN NULL ELSE writing[t]]
  /\ UNCHANGED link

-----------------------------------------------------------------------------
ReceiveStep(e) == \/ ReceiveRegister(e) \/ addPeer(e) \/ ReceiveOther(e)
                  \/ RecvClosed(e) \/ DelPeer(e)

SendStep(t) == Write(t) \/ SendReturns(t) \/ SendFails(t)

Next ==
  \/ \E d \in Dials : createConnectionTo(d[1], d[2], d[3])
  \/ \E l \in Links : AcceptPeer(l) \/ LinkFail(l)
  \/ \E e \in Ends : ReceiveStep(e) \/ sendHearBeat(e)
  \/ \E t \in Senders : \/ \E n \in Modules, size \in Sizes : sendJson(t, n, size)
                        \/ SendStep(t)
  \/ \E m \in Modules : Crash(m)

Spec == Init /\ [][Next]_vars

\* Threads that can run do run.  A thread that waits for the mutex gets it if it
\* is free again and again, and a writer gets room if there is some again and
\* again: the heart beats that compete for it are a minute apart.
Fairness ==
  /\ \A l \in Links : WF_vars(AcceptPeer(l))
  /\ \A e \in Ends : /\ WF_vars(ReceiveRegister(e) \/ ReceiveOther(e) \/ RecvClosed(e))
                     /\ SF_vars(addPeer(e) \/ DelPeer(e))
  /\ \A t \in Senders : SF_vars(SendStep(t))

FairSpec == Spec /\ Fairness

-----------------------------------------------------------------------------
\* The type of every variable (PeerManager.h:44-67).
TypeOK ==
  /\ link \in [Links -> [client : Modules, server : Modules] \cup {NULL}]
  /\ broken \in [Links -> BOOLEAN]
  /\ unread \in [Ends -> 0..Capacity]
  /\ rx \in [Ends -> {"none", "backlog", "reading", "adding", "deleting", "done"}]
  /\ registered \in [Ends -> BOOLEAN]
  /\ peers \in [Modules -> SUBSET Ends]
  /\ mutex_peers \in [Modules -> Senders \cup {NULL}]
  /\ writing \in [Senders -> [sock : Ends, left : Nat] \cup {NULL}]

\* The mutex is kept exactly by a thread inside write().
MutexInv ==
  /\ \A t \in Senders : writing[t] # NULL => mutex_peers[Home[t]] = t
  /\ \A m \in Modules : mutex_peers[m] # NULL =>
        writing[mutex_peers[m]] # NULL /\ Home[mutex_peers[m]] = m

\* What is in the table has registered, and nobody else is written to.
TableInv ==
  /\ \A m \in Modules : \A e \in peers[m] :
        link[e[1]] # NULL /\ Owner(e) = m /\ registered[e]
  /\ \A t \in Senders : writing[t] # NULL =>
        LET e == writing[t].sock
        IN  link[e[1]] # NULL /\ Owner(e) = Home[t] /\ registered[e]

\* A receive thread waits in addPeer only before it has registered its peer.
AddingInv == \A e \in Ends : rx[e] = "adding" => ~registered[e]

\* A connection begins without threads, and nobody registers before accept.
StageInv == \A e \in Ends : /\ link[e[1]] = NULL => rx[e] = "none" /\ ~registered[e]
                            /\ rx[e] = "backlog" => ~registered[e]

\* Inductive: every step of the receive threads, of sendJson and of the network
\* preserves it.
LockInv == TypeOK /\ MutexInv /\ TableInv /\ AddingInv /\ StageInv

Blocked(t) == /\ writing[t] # NULL /\ writing[t].left > 0
              /\ ~broken[writing[t].sock[1]] /\ Room(writing[t].sock) = 0

\* t waits for a receive thread that waits for the mutex that u keeps.
Behind(t, u) == /\ Blocked(t)
                /\ rx[Other(writing[t].sock)] = "adding"
                /\ mutex_peers[Owner(Other(writing[t].sock))] = u

\* Each of these senders waits for one of them: one module connected to itself,
\* two that wait for each other, a ring of three, and what hangs on them.
Knot(S) == S # {} /\ \A t \in S : \E u \in S : Behind(t, u)

\* Senders can wait for each other only over as many connections as they are, of
\* which each has registered one: on one connection the end that writes has read
\* the other end's registration but not the other way round
\* (PeerManager.cpp:36-40, 374-388).  Alone it is a module connected to itself.
CrossedOnly ==
  \A S \in SUBSET Senders : Knot(S) =>
     \A t \in S : LET l == writing[t].sock[1]
                 IN  /\ \A u \in S \ {t} : writing[u].sock[1] # l
                     /\ S = {t} => link[l].client = link[l].server

\* Nothing but the loss of one of the connections, with or without a process,
\* ends it: no receive thread, heart beat or other sender gets past the mutexes.
OnlyLossReleases ==
  [][\A S \in SUBSET Senders : Knot(S) /\ ~Knot(S)' =>
        \E t \in S : broken'[writing[t].sock[1]]]_vars

\* In every other case sendJson returns, whatever connections come and go while
\* it writes with the mutex kept: again and again a thread is not inside write(),
\* or there is a knot (PeerManager.cpp:371-386).
SendEnds ==
  \A t \in Senders : []<>(writing[t] = NULL \/ \E S \in SUBSET Senders : Knot(S))
=============================================================================
