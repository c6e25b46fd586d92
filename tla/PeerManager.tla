----------------------------- MODULE PeerManager -----------------------------
(* The TCP links between modules: dialling and accepting, registration,      *)
(* the table of peers, heart beats, the end of a connection, and modules     *)
(* that die and come back.                                                   *)
(*                                                                           *)
(* Every module runs one thread that accepts, one receive thread and, once   *)
(* registered, one heart-beat thread per connection end, and program threads *)
(* that dial and send.  An action is what one of them does under mutex_peers *)
(* or between two calls the others can see; sendJson keeps mutex_peers while *)
(* its write() waits for room.  TCP is external: a stream per end, in order, *)
(* cut short when the other process dies or the network fails.               *)
(*                                                                           *)
(* The definitions named ..._Bug are mistakes that the properties detect;    *)
(* they are not part of the model.                                           *)
EXTENDS Naturals, Sequences, SequencesExt, FiniteSets

CONSTANTS Modules,   \* processes
          Uris,      \* "host:port" addresses, all that isTheSame compares
          HostOf,    \* the module an address leads to
          OwnUri,    \* the address a module registers with; NULL: a text that
                     \* does not parse
          Links,     \* TCP connections, each used once
          Dials,     \* over which connection who may dial which address
          Kinds,     \* what the program of a module sends: messages, requests to quit
          Faults,    \* modules that may crash and connections that may be cut
          MaxWire,   \* bound on the frames in flight to one end
          NULL

ASSUME UriAssumption == /\ HostOf \in [Uris -> Modules]
                        /\ OwnUri \in [Modules -> Uris \cup {NULL}]
                        /\ \A m \in Modules : OwnUri[m] # NULL => HostOf[OwnUri[m]] = m
                        /\ Dials \subseteq Links \X Modules \X Uris
                        /\ Kinds \in [Modules -> SUBSET {"other", "quit"}]
ASSUME FaultsAssumption == Faults \subseteq Modules \cup Links
ASSUME LinksAssumption == IsFiniteSet(Links)
ASSUME MaxWireAssumption == MaxWire \in Nat \ {0}

Sides == {"CLIENT", "SERVER"}
Ends  == Links \X Sides

\* A frame: a registration with the sender's address, a request to quit, or
\* another one (a heart beat or a message), whose content makes no difference.
Register(u) == [type |-> "Register_Message", uri |-> u]
Plain(k)    == [type |-> k, uri |-> NULL]
Frame == {Register(u) : u \in Uris \cup {NULL}} \cup {Plain(k) : k \in {"other", "quit"}}

\* What a thread that waits inside sendJson writes, and where.
Writing == [sock : Ends, type : {"other", "quit"}]

ASSUME NullAssumption == /\ NULL \notin Uris
                         /\ NULL \notin [client : Modules, addr : Uris]
                         /\ NULL \notin Writing

VARIABLES
  up,          \* [m]: the process runs
  link,        \* [l]: who dialled which address, NULL before
  cut,         \* [l]: the network lost the connection
  wire,        \* [e]: frames on their way to end e
  eof,         \* [e]: nothing comes after wire[e]; recv returns 0 or fails
  rx,          \* [e]: the receive thread of the end
  peerUri,     \* [e]: its thisPeeruri, NULL for the default one
  registered,  \* [e]: its registered
  beat,        \* [e]: the heart-beat thread runs
  peers,       \* [m]: the table of peers
  writing,     \* [m]: the write() that keeps mutex_peers, NULL if it is free
  dial,        \* [l]: createTcpConnectionTo that uses l
  isDone       \* [l]: the flag the dialling thread spins on

netVars  == <<link, cut, wire, eof>>
endVars  == <<rx, peerUri, registered, beat>>
dialVars == <<dial, isDone>>
vars     == <<up, peers, writing, netVars, endVars, dialVars>>

Init ==
  /\ up = [m \in Modules |-> TRUE]
  /\ link = [l \in Links |-> NULL]
  /\ cut = [l \in Links |-> FALSE]
  /\ wire = [e \in Ends |-> << >>]
  /\ eof = [e \in Ends |-> FALSE]
  /\ rx = [e \in Ends |-> "none"]
  /\ peerUri = [e \in Ends |-> NULL]
  /\ registered = [e \in Ends |-> FALSE]
  /\ beat = [e \in Ends |-> FALSE]
  /\ peers = [m \in Modules |-> << >>]
  /\ writing = [m \in Modules |-> NULL]
  /\ dial = [l \in Links |-> "none"]
  /\ isDone = [l \in Links |-> "unset"]

-----------------------------------------------------------------------------
Other(e) == <<e[1], IF e[2] = "CLIENT" THEN "SERVER" ELSE "CLIENT">>

\* The process an end belongs to.
Owner(e) == IF e[2] = "CLIENT" THEN link[e[1]].client ELSE HostOf[link[e[1]].addr]

Used(l) == link[l] # NULL

\* The kernel still carries what e writes to the other end.
Carries(e) == ~cut[e[1]] /\ ~eof[Other(e)] /\ up[Owner(Other(e))] /\ ~eof[e]

Reading(e) == rx[e] = "reading"

\* haveConnectionTo.
haveConnectionTo(m, u) == \E i \in DOMAIN peers[m] : peers[m][i].uri = u

FirstWith(m, u) == CHOOSE i \in DOMAIN peers[m] :
                      /\ peers[m][i].uri = u
                      /\ \A j \in 1..i - 1 : peers[m][j].uri # u

Write(w, e, f) == IF Carries(e) THEN [w EXCEPT ![Other(e)] = Append(@, f)] ELSE w

HasRoom(e) == Len(wire[Other(e)]) < MaxWire

\* Nobody is inside write() with mutex_peers.
Free(m) == writing[m] = NULL

-----------------------------------------------------------------------------
(* Dialling: ModuleSkeleton::createTcpConnectionTo, then                     *)
(* PeerManager::createConnectionTo, by any number of program threads.        *)

\* "We are already connected" ends the call; here, the other outcome.
CheckConnection(l, m, u) ==
  /\ up[m]
  /\ link[l] = NULL /\ dial[l] = "none"
  /\ Free(m) /\ ~haveConnectionTo(m, u)
  /\ link' = [link EXCEPT ![l] = [client |-> m, addr |-> u]]
  /\ dial' = [dial EXCEPT ![l] = "checked"]
  /\ UNCHANGED <<up, peers, writing, cut, wire, eof, endVars, isDone>>

\* connect() succeeds while the other process listens; the registration is
\* written and the receive thread started before anybody else knows the socket.
Connect(l) ==
  /\ dial[l] = "checked"
  /\ up[link[l].client]
  /\ up[HostOf[link[l].addr]]
  /\ wire' = [wire EXCEPT ![<<l, "SERVER">>] = <<Register(OwnUri[link[l].client])>>]
  /\ rx' = [rx EXCEPT ![<<l, "CLIENT">>] = "reading", ![<<l, "SERVER">>] = "backlog"]
  /\ dial' = [dial EXCEPT ![l] = "spinning"]
  /\ UNCHANGED <<up, peers, writing, link, cut, eof, peerUri, registered, beat, isDone>>

ConnectFails(l) ==
  /\ dial[l] = "checked"
  /\ up[link[l].client]
  /\ dial' = [dial EXCEPT ![l] = "false"]
  /\ UNCHANGED <<up, peers, writing, netVars, endVars, isDone>>

DialReturns_Bug(l) ==
  /\ dial[l] = "spinning"
  /\ dial' = [dial EXCEPT ![l] = "true"]
  /\ UNCHANGED <<up, peers, writing, netVars, endVars, isDone>>

\* while(*isDone == 0).  After "delete isDone" the read is undefined: any
\* value may come back, at any turn of the loop.
DialReturns(l) ==
  /\ dial[l] = "spinning"
  /\ isDone[l] \in {"set", "freed"}
  /\ dial' = [dial EXCEPT ![l] = "true"]
  /\ UNCHANGED <<up, peers, writing, netVars, endVars, isDone>>

-----------------------------------------------------------------------------
AcceptPeer_Bug(l) ==
  LET e == <<l, "SERVER">>
  IN  /\ rx[e] = "backlog"
      /\ rx' = [rx EXCEPT ![e] = "reading"]
      /\ UNCHANGED <<up, peers, writing, netVars, peerUri, registered, beat, dialVars>>

\* PeerManager::waitForPeers: accept, answer with our registration, start the
\* receive thread.
AcceptPeer(l) ==
  LET e == <<l, "SERVER">>
  IN  /\ rx[e] = "backlog"
      /\ wire' = Write(wire, e, Register(OwnUri[Owner(e)]))
      /\ rx' = [rx EXCEPT ![e] = "reading"]
      /\ UNCHANGED <<up, peers, writing, link, cut, eof, peerUri, registered, beat, dialVars>>

-----------------------------------------------------------------------------
(* PeerManager::receive: one frame, or the end of the stream.                *)

Arrived(e, types) ==
  /\ Reading(e)
  /\ wire[e] # << >>
  /\ Head(wire[e]).type \in types
  /\ wire' = [wire EXCEPT ![e] = Tail(@)]

\* addPeer: the side that dialled keeps the address it dialled; the other one
\* takes the text of the registration, or the default address if it does not parse.
UriOf(e, f) == IF e[2] = "CLIENT" THEN link[e[1]].addr ELSE f.uri

ReceiveRegister(e) ==
  /\ Arrived(e, {"Register_Message"})
  /\ ~registered[e]
  /\ Free(Owner(e))
  /\ LET u == UriOf(e, Head(wire[e]))
     IN  /\ peers' = [peers EXCEPT ![Owner(e)] = Append(@, [sock |-> e, uri |-> u])]
         /\ peerUri' = [peerUri EXCEPT ![e] = u]
  /\ registered' = [registered EXCEPT ![e] = TRUE]
  /\ beat' = [beat EXCEPT ![e] = TRUE]
  /\ isDone' = IF e[2] = "CLIENT" THEN [isDone EXCEPT ![e[1]] = "set"] ELSE isDone
  /\ UNCHANGED <<up, writing, link, cut, eof, rx, dial>>

\* A heart beat is ignored; a message goes to the program when the sender has
\* registered and is thrown away otherwise.
ReceiveOther(e) ==
  /\ \/ Arrived(e, {"other"})
     \/ Arrived(e, {"quit"}) /\ ~registered[e]
  /\ UNCHANGED <<up, peers, writing, link, cut, eof, endVars, dialVars>>

DelPeer_Bug(m, u) == SelectSeq(peers[m], LAMBDA p : p.uri # u)

DelPeer_Bug2(m, u) == peers[m]

\* DelPeer removes the first entry with the address of the closed connection,
\* the default one if the peer had not registered.
DelPeer(m, u) == IF haveConnectionTo(m, u) THEN RemoveAt(peers[m], FirstWith(m, u))
                 ELSE peers[m]

RecvClosed(e) ==
  /\ Reading(e)
  /\ wire[e] = << >> /\ eof[e]
  /\ Free(Owner(e))
  /\ peers' = [peers EXCEPT ![Owner(e)] = DelPeer(Owner(e), peerUri[e])]
  /\ rx' = [rx EXCEPT ![e] = "closing"]
  /\ UNCHANGED <<up, writing, netVars, peerUri, registered, beat, dialVars>>

NotifyDisconnect_Bug(e) ==
  /\ rx[e] = "closing"
  /\ rx' = [rx EXCEPT ![e] = "done"]
  /\ UNCHANGED <<up, peers, writing, netVars, peerUri, registered, beat, dialVars>>

\* delete isDone, peerDisconnectHandler(thisPeeruri), return: the locals go.
NotifyDisconnect(e) ==
  /\ rx[e] = "closing"
  /\ rx' = [rx EXCEPT ![e] = "done"]
  /\ isDone' = IF e[2] = "CLIENT" THEN [isDone EXCEPT ![e[1]] = "freed"] ELSE isDone
  /\ peerUri' = [peerUri EXCEPT ![e] = NULL]
  /\ registered' = [registered EXCEPT ![e] = FALSE]
  /\ UNCHANGED <<up, peers, writing, netVars, beat, dial>>

-----------------------------------------------------------------------------
(* Writers.                                                                  *)

\* write() waits while TCP takes no more, or nobody acknowledges what it took.
MayWait(e) == ~eof[e] /\ (~HasRoom(e) \/ cut[e[1]])

\* sendJson writes to the first entry with the address, under mutex_peers.
sendJson(m, u, k) ==
  /\ up[m]
  /\ Free(m) /\ haveConnectionTo(m, u)
  /\ LET e == peers[m][FirstWith(m, u)].sock
     IN  \/ /\ HasRoom(e) \/ eof[e]
            /\ wire' = Write(wire, e, Plain(k))
            /\ UNCHANGED writing
         \/ /\ MayWait(e)
            /\ writing' = [writing EXCEPT ![m] = [sock |-> e, type |-> k]]
            /\ UNCHANGED wire
  /\ UNCHANGED <<up, peers, link, cut, eof, endVars, dialVars>>

\* There is room again, or the connection has failed: sendJson returns.
WriteEnds(m) ==
  /\ ~Free(m)
  /\ LET e == writing[m].sock
     IN  /\ eof[e] \/ (HasRoom(e) /\ ~cut[e[1]])
         /\ wire' = Write(wire, e, Plain(writing[m].type))
  /\ writing' = [writing EXCEPT ![m] = NULL]
  /\ UNCHANGED <<up, peers, link, cut, eof, endVars, dialVars>>

\* The first beat goes out at once, the others a minute apart, without the mutex.
sendHearBeat(e) ==
  /\ beat[e]
  /\ Carries(e) /\ HasRoom(e)
  /\ wire' = Write(wire, e, Plain("other"))
  /\ UNCHANGED <<up, peers, writing, link, cut, eof, endVars, dialVars>>

\* A write to a dead connection fails and ends the heart-beat thread.
HeartBeatFails(e) ==
  /\ beat[e]
  /\ ~Carries(e) /\ eof[e]
  /\ beat' = [beat EXCEPT ![e] = FALSE]
  /\ UNCHANGED <<up, peers, writing, netVars, rx, peerUri, registered, dialVars>>

-----------------------------------------------------------------------------
(* The network and the processes.                                            *)

\* The connection is lost: neither end learns of it by itself.
LinkFail(l) ==
  /\ l \in Faults
  /\ dial[l] \notin {"none", "checked", "false"} /\ ~cut[l]
  /\ cut' = [cut EXCEPT ![l] = TRUE]
  /\ \E w \in Prefixes(wire[<<l, "CLIENT">>]), v \in Prefixes(wire[<<l, "SERVER">>]) :
        wire' = [wire EXCEPT ![<<l, "CLIENT">>] = w, ![<<l, "SERVER">>] = v]
  /\ UNCHANGED <<up, peers, writing, link, eof, endVars, dialVars>>

\* TCP gives up on data it cannot deliver (a heart beat) or on keep-alive
\* probes, which only the side that dialled has asked for; recv then fails.
LossDetected(e) ==
  /\ cut[e[1]] /\ ~eof[e] /\ Reading(e)
  /\ beat[e] \/ e[2] = "CLIENT"
  /\ eof' = [eof EXCEPT ![e] = TRUE]
  /\ UNCHANGED <<up, peers, writing, link, cut, wire, endVars, dialVars>>

\* Process m ends: its threads, their variables, its table and its sockets are
\* gone, and the other ends read what had been sent, or part of it, and then the end.
Truncate(s, n) == SubSeq(s, 1, IF n < Len(s) THEN n ELSE Len(s))

EndsOf(m) == {e \in Ends : Used(e[1]) /\ rx[e] # "none" /\ Owner(e) = m}

Exit(m, w) ==
  /\ up' = [up EXCEPT ![m] = FALSE]
  /\ peers' = [peers EXCEPT ![m] = << >>]
  /\ writing' = [writing EXCEPT ![m] = NULL]
  /\ \E n \in 0..MaxWire :
       wire' = [e \in Ends |-> IF e \in EndsOf(m) THEN << >>
                               ELSE IF Other(e) \in EndsOf(m) THEN Truncate(w[e], n)
                               ELSE w[e]]
  /\ eof' = [e \in Ends |-> eof[e] \/ e \in EndsOf(m)
                              \/ (Other(e) \in EndsOf(m) /\ ~cut[e[1]])]
  /\ rx' = [e \in Ends |-> IF e \in EndsOf(m) THEN "done" ELSE rx[e]]
  /\ beat' = [e \in Ends |-> beat[e] /\ e \notin EndsOf(m)]
  /\ dial' = [l \in Links |-> IF Used(l) /\ link[l].client = m /\ dial[l] # "none"
                              THEN "dead" ELSE dial[l]]
  /\ peerUri' = [e \in Ends |-> IF e \in EndsOf(m) THEN NULL ELSE peerUri[e]]
  /\ registered' = [e \in Ends |-> registered[e] /\ e \notin EndsOf(m)]
  /\ isDone' = [l \in Links |-> IF Used(l) /\ link[l].client = m THEN "unset"
                                ELSE isDone[l]]
  /\ UNCHANGED <<link, cut>>

\* KillMe: a registered peer asks the module to quit.
ReceiveQuit(e) ==
  /\ Reading(e) /\ registered[e]
  /\ wire[e] # << >> /\ Head(wire[e]).type = "quit"
  /\ Exit(Owner(e), wire)

Crash(m) == m \in Faults /\ up[m] /\ Exit(m, wire)

Restart(m) ==
  /\ ~up[m]
  /\ up' = [up EXCEPT ![m] = TRUE]
  /\ UNCHANGED <<peers, writing, netVars, endVars, dialVars>>

-----------------------------------------------------------------------------
DialStep(l) ==
  \/ \E d \in Dials : d[1] = l /\ CheckConnection(l, d[2], d[3])
  \/ Connect(l)
  \/ ConnectFails(l)
  \/ DialReturns(l)

\* What a receive thread does with mutex_peers, and without.
LockedStep(e) == ReceiveRegister(e) \/ RecvClosed(e)

ReceiveStep(e) == ReceiveOther(e) \/ ReceiveQuit(e) \/ NotifyDisconnect(e)

Next ==
  \/ \E l \in Links : DialStep(l) \/ AcceptPeer(l) \/ LinkFail(l)
  \/ \E e \in Ends : \/ LockedStep(e)
                     \/ ReceiveStep(e)
                     \/ sendHearBeat(e)
                     \/ HeartBeatFails(e)
                     \/ LossDetected(e)
  \/ \E m \in Modules : \/ \E u \in Uris \cup {NULL}, k \in Kinds[m] : sendJson(m, u, k)
                        \/ WriteEnds(m) \/ Crash(m) \/ Restart(m)

Spec == Init /\ [][Next]_vars

\* The threads of a live process run, TCP notices a loss in the end, and the
\* spinning thread sees a flag that is set (not one that is freed).  A mutex that
\* is free again and again is given to one of the receive threads that wait for
\* it.  A write() goes on if there is room, but nothing says that there will be.
Fairness ==
  /\ \A e \in Ends : WF_vars(ReceiveStep(e)) /\ WF_vars(LossDetected(e))
  /\ \A m \in Modules : /\ SF_vars(\E e \in EndsOf(m) : LockedStep(e))
                        /\ WF_vars(WriteEnds(m))
  /\ \A l \in Links : /\ WF_vars(AcceptPeer(l))
                      /\ WF_vars(DialReturns(l) /\ isDone[l] = "set")

FairSpec == Spec /\ Fairness

-----------------------------------------------------------------------------
Entry == [sock : Ends, uri : Uris \cup {NULL}]

\* The type of every variable (PeerManager.h:43-79).
TypeOK ==
  /\ up \in [Modules -> BOOLEAN]
  /\ link \in [Links -> [client : Modules, addr : Uris] \cup {NULL}]
  /\ cut \in [Links -> BOOLEAN]
  /\ wire \in [Ends -> Seq(Frame)]
  /\ eof \in [Ends -> BOOLEAN]
  /\ rx \in [Ends -> {"none", "backlog", "reading", "closing", "done"}]
  /\ peerUri \in [Ends -> Uris \cup {NULL}]
  /\ registered \in [Ends -> BOOLEAN]
  /\ beat \in [Ends -> BOOLEAN]
  /\ peers \in [Modules -> Seq(Entry)]
  /\ writing \in [Modules -> Writing \cup {NULL}]
  /\ dial \in [Links -> {"none", "checked", "spinning", "true", "false", "dead"}]
  /\ isDone \in [Links -> {"unset", "set", "freed"}]

EntriesFor(m, u) == {i \in DOMAIN peers[m] : peers[m][i].uri = u}

LiveEnds(m, u) == {e \in EndsOf(m) : Reading(e) /\ registered[e] /\ peerUri[e] = u}

\* The table has as many entries for an address as the module has registered
\* connections with it, although DelPeer removes entries by address and may
\* remove another connection's entry (PeerManager.cpp:46-58).  The default address
\* has no more: an end that never registered takes one away when it closes (170).
TableCounts ==
  \A m \in Modules :
     /\ \A u \in Uris : Cardinality(EntriesFor(m, u)) = Cardinality(LiveEnds(m, u))
     /\ Cardinality(EntriesFor(m, NULL)) <= Cardinality(LiveEnds(m, NULL))

\* A registration comes first on every connection, so that no message of a
\* peer is thrown away with "The client has not registered yet!"
\* (PeerManager.cpp:203-205), whatever dies or is cut in between.
RegisterFirst ==
  \A e \in Ends : ~registered[e] /\ wire[e] # << >> =>
                     Head(wire[e]).type = "Register_Message"

\* createTcpConnectionTo returns true for a connection that is registered at
\* the dialling side, or that has been lost since (PeerManager.cpp:291-299).
DialTruthful ==
  \A l \in Links : dial[l] = "true" =>
     registered[<<l, "CLIENT">>] \/ rx[<<l, "CLIENT">>] = "done"

\* A connection is used from the dial on and has threads at both ends or none;
\* a thread without a registered peer knows no address.
StageInv ==
  /\ \A l \in Links :
        /\ ~Used(l) => dial[l] = "none"
        /\ dial[l] \in {"none", "checked"} => rx[<<l, "CLIENT">>] = "none"
        /\ rx[<<l, "CLIENT">>] = "none" => isDone[l] = "unset"
        /\ rx[<<l, "CLIENT">>] = "none" <=> rx[<<l, "SERVER">>] = "none"
  /\ \A e \in Ends :
        /\ rx[e] # "none" => Used(e[1])
        /\ rx[e] \in {"none", "backlog"} => ~registered[e] /\ ~beat[e]
        /\ ~registered[e] => peerUri[e] = NULL

\* An end is open while its process runs and nobody has closed the other.
OpenInv ==
  \A e \in Ends :
     /\ rx[e] \in {"backlog", "reading", "closing"} => up[Owner(e)]
     /\ rx[e] \in {"closing", "done"} => eof[e] /\ wire[e] = << >>
     /\ eof[e] /\ ~cut[e[1]] => eof[Other(e)]

\* Who reads an end has announced the module to the other one before, and only
\* ends that were read are in a table or written to by sendJson.
AnnouncedInv ==
  /\ \A e \in Ends : Reading(e) /\ ~cut[e[1]] /\ ~eof[Other(e)] =>
                         registered[Other(e)] \/ wire[Other(e)] # << >>
  /\ \A m \in Modules :
        /\ \A i \in DOMAIN peers[m] : rx[peers[m][i].sock] \notin {"none", "backlog"}
        /\ ~Free(m) => rx[writing[m].sock] \notin {"none", "backlog"}

\* isDone tells the dialling thread what became of its connection.
DoneInv ==
  \A l \in Links :
     /\ isDone[l] = "set" => registered[<<l, "CLIENT">>] \/ rx[<<l, "CLIENT">>] = "done"
     /\ isDone[l] = "freed" => rx[<<l, "CLIENT">>] = "done"

\* Inductive, with RegisterFirst: every step of the threads, of the network and
\* of the processes preserves it.
PeerInv == /\ TypeOK /\ StageInv /\ OpenInv
           /\ RegisterFirst /\ AnnouncedInv /\ DoneInv

\* A dialling thread is not left spinning on a flag that nobody will set, short
\* of the freed one (PeerManager.cpp:295-297) and of a module that has mutex_peers
\* inside a write() that never ends (374-378).
DialEnds ==
  \A l \in Links :
     <>[](dial[l] = "spinning" /\ isDone[l] # "freed")
        => <>[](Used(l) /\ ~Free(link[l].client))

\* An address whose connections are all dead leaves the table of a module
\* that stays up, however the connections died (PeerManager.cpp:149-176), unless
\* DelPeer waits for ever for the mutex.
TableForgets ==
  \A m \in Modules, u \in Uris :
     <>[](\A e \in EndsOf(m) : peerUri[e] = u => cut[e[1]] \/ eof[e])
        => <>[]~haveConnectionTo(m, u) \/ <>[]~Free(m)

\* "Connection to peer with uri=%s was gracefully closed": the entry DelPeer
\* removes is that of the connection that closed, so the others' entries stay.
EntriesAreOpen ==
  \A m \in Modules : \A i \in DOMAIN peers[m] : Reading(peers[m][i].sock)
=============================================================================
