---------------------------- MODULE SendLock_proofs ----------------------------
(* Proofs about SendLock, for any modules, threads, connections and buffers.  *)
EXTENDS SendLock, TLAPS

Link == [client : Modules, server : Modules]

LEMMA EndFacts ==
  ASSUME NEW e \in Ends
  PROVE  /\ e[1] \in Links /\ e = <<e[1], e[2]>> /\ e[2] \in {"CLIENT", "SERVER"}
         /\ Other(e) \in Ends /\ Other(e)[1] = e[1] /\ Other(e) # e
         /\ Other(Other(e)) = e
         /\ \A d \in Ends : d[1] = e[1] => d = e \/ d = Other(e)
BY DEF Ends, Other

\* The ends of a connection belong to modules.
LEMMA OwnerFacts ==
  ASSUME TypeOK, NEW e \in Ends, link[e[1]] # NULL
  PROVE  /\ link[e[1]] \in Link
         /\ Owner(e) \in Modules /\ Owner(Other(e)) \in Modules
         /\ {Owner(e), Owner(Other(e))} = {link[e[1]].client, link[e[1]].server}
         /\ Owner(e) = Owner(Other(e)) => link[e[1]].client = link[e[1]].server
<1>1. e[1] \in Links /\ e[2] \in {"CLIENT", "SERVER"}
  BY DEF Ends
<1>2. link[e[1]] \in Link
  BY <1>1 DEF TypeOK, Link
<1> QED
  BY <1>1, <1>2 DEF Owner, Other, Link

-----------------------------------------------------------------------------
(* LockInv is inductive: one lemma for each group of actions.               *)

LEMMA LockInit == Init => LockInv
BY BoundsAssumption, NullAssumption
   DEF Init, LockInv, TypeOK, MutexInv, TableInv, AddingInv, StageInv, Ends, Owner

\* A new connection touches ends that had no thread.
LEMMA ConnectStep ==
  ASSUME LockInv, NEW l \in Links, NEW m \in Modules, NEW n \in Modules,
         createConnectionTo(l, m, n)
  PROVE  LockInv'
<1> USE DEF LockInv, createConnectionTo, sendVars
<1> DEFINE c == <<l, "CLIENT">>
           s == <<l, "SERVER">>
<1>0. c \in Ends /\ s \in Ends /\ c # s /\ \A e \in Ends : e[1] = l => e \in {c, s}
  BY DEF Ends
<1>1. TypeOK'
  <2> HIDE DEF c, s, createConnectionTo
  <2>1. unread' = [unread EXCEPT ![s] = 1] /\ rx' = [rx EXCEPT ![c] = "reading", ![s] = "backlog"]
    BY DEF c, s, createConnectionTo
  <2>2. unread' \in [Ends -> 0..Capacity]
    <3>1. unread \in [Ends -> 0..Capacity] /\ 1 \in 0..Capacity
      BY BoundsAssumption DEF TypeOK
    <3> HIDE DEF LockInv
    <3> QED
      BY <1>0, <2>1, <3>1
  <2>3. rx' \in [Ends -> {"none", "backlog", "reading", "adding", "deleting", "done"}]
    BY <1>0, <2>1 DEF TypeOK
  <2> QED
    BY <2>2, <2>3 DEF TypeOK, createConnectionTo
<1>2. MutexInv'
  BY DEF MutexInv
<1>3. \A e \in Ends : link[e[1]] # NULL =>
         /\ link'[e[1]] = link[e[1]] /\ (Owner(e))' = Owner(e)
         /\ rx'[e] = rx[e]
  <2> TAKE e \in Ends
  <2> HAVE link[e[1]] # NULL
  <2>1. e[1] # l /\ e[1] \in Links
    BY DEF Ends
  <2>2. link'[e[1]] = link[e[1]]
    BY <2>1 DEF TypeOK
  <2>3. rx'[e] = rx[e]
    BY <2>1 DEF TypeOK, Ends
  <2> QED
    BY <2>2, <2>3 DEF Owner
<1>4. TableInv'
  <2>1. ASSUME NEW k \in Modules, NEW e \in peers[k]
        PROVE  link'[e[1]] # NULL /\ (Owner(e))' = k /\ registered'[e]
    <3>1. e \in Ends
      BY DEF TypeOK
    <3> QED
      BY <3>1, <1>3 DEF TableInv
  <2>2. ASSUME NEW t \in Senders, writing[t] # NULL
        PROVE  /\ link'[writing[t].sock[1]] # NULL
               /\ (Owner(writing[t].sock))' = Home[t] /\ registered'[writing[t].sock]
    <3>1. writing[t].sock \in Ends
      BY <2>2 DEF TypeOK
    <3> QED
      BY <2>2, <3>1, <1>3 DEF TableInv
  <2> QED
    BY <2>1, <2>2 DEF TableInv, Owner
<1>5. AddingInv' /\ StageInv'
  <2> SUFFICES ASSUME NEW e \in Ends
               PROVE  /\ rx'[e] = "adding" => ~registered'[e]
                      /\ link'[e[1]] = NULL => rx'[e] = "none" /\ ~registered'[e]
                      /\ rx'[e] = "backlog" => ~registered'[e]
    BY DEF AddingInv, StageInv
  <2>1. CASE e[1] = l
    <3>1. link'[l] # NULL
      BY NullAssumption DEF TypeOK
    <3>2. ~registered[e]
      BY <2>1 DEF StageInv
    <3>3. rx'[e] \in {"reading", "backlog"}
      BY <1>0, <2>1 DEF TypeOK
    <3> QED
      BY <2>1, <3>1, <3>2, <3>3
  <2>2. CASE e[1] # l
    <3>1. rx'[e] = rx[e] /\ link'[e[1]] = link[e[1]]
      BY <2>2 DEF TypeOK, Ends
    <3> QED
      BY <3>1 DEF AddingInv, StageInv
  <2> QED
    BY <2>1, <2>2
<1> QED
  BY <1>1, <1>2, <1>4, <1>5

\* The table stays true in a step that adds nothing to it, when nobody begins to
\* write but to a socket of the table.
LEMMA TableKept ==
  ASSUME LockInv, link' = link, registered' = registered,
         \A m \in Modules : peers'[m] \subseteq peers[m],
         \A t \in Senders : writing'[t] # NULL =>
            \/ writing'[t].sock \in peers[Home[t]]
            \/ writing[t] # NULL /\ writing'[t].sock = writing[t].sock
  PROVE  TableInv'
<1>1. ASSUME NEW m \in Modules, NEW e \in peers'[m]
      PROVE  link'[e[1]] # NULL /\ (Owner(e))' = m /\ registered'[e]
  <2>1. e \in peers[m]
    OBVIOUS
  <2> QED
    BY <2>1 DEF LockInv, TableInv, Owner
<1>2. ASSUME NEW t \in Senders, writing'[t] # NULL
      PROVE  /\ link'[writing'[t].sock[1]] # NULL
             /\ (Owner(writing[t].sock))' = Home[t]
             /\ registered'[writing'[t].sock]
  <2> DEFINE e == writing'[t].sock
  <2>1. link[e[1]] # NULL /\ Owner(e) = Home[t] /\ registered[e]
    <3>1. CASE e \in peers[Home[t]]
      BY <3>1, ModulesAssumption DEF LockInv, TableInv
    <3>2. CASE writing[t] # NULL /\ e = writing[t].sock
      BY <3>2 DEF LockInv, TableInv
    <3> QED
      BY <1>2, <3>1, <3>2
  <2> QED
    BY <2>1 DEF Owner
<1> QED
  BY <1>1, <1>2 DEF TableInv

\* A thread is started for an end that has registered nobody, or the network
\* loses a connection.
LEMMA NetStep ==
  ASSUME LockInv, NEW l \in Links, AcceptPeer(l) \/ LinkFail(l)
  PROVE  LockInv'
<1> USE DEF LockInv, AcceptPeer, LinkFail, netVars, rxVars, sendVars
<1> DEFINE c == <<l, "CLIENT">>
           s == <<l, "SERVER">>
<1>0. c \in Ends /\ s \in Ends
  BY DEF Ends
<1>1. TypeOK'
  <2> HIDE DEF c, s
  <2>1. CASE AcceptPeer(l)
    <3>1. unread' \in {unread, [unread EXCEPT ![c] = 1]} /\ rx' = [rx EXCEPT ![s] = "reading"]
      BY <2>1 DEF c, s
    <3>2. unread' \in [Ends -> 0..Capacity]
      BY <1>0, <3>1, BoundsAssumption DEF TypeOK
    <3>3. rx' \in [Ends -> {"none", "backlog", "reading", "adding", "deleting", "done"}]
      BY <1>0, <3>1 DEF TypeOK
    <3> QED
      BY <2>1, <3>2, <3>3 DEF TypeOK
  <2>2. CASE LinkFail(l)
    BY <2>2 DEF TypeOK
  <2> QED
    BY <2>1, <2>2
<1>2. MutexInv' /\ TableInv'
  BY DEF MutexInv, TableInv, Owner
<1>3. ASSUME NEW e \in Ends
      PROVE  rx'[e] = rx[e] \/ (rx'[e] = "reading" /\ rx[e] = "backlog")
  BY <1>0, <1>3 DEF TypeOK
<1>4. AddingInv' /\ StageInv'
  <2> SUFFICES ASSUME NEW e \in Ends
               PROVE  /\ rx'[e] = "adding" => ~registered[e]
                      /\ link[e[1]] = NULL => rx'[e] = "none" /\ ~registered[e]
                      /\ rx'[e] = "backlog" => ~registered[e]
    BY DEF AddingInv, StageInv
  <2> QED
    BY <1>3 DEF AddingInv, StageInv
<1> QED
  BY <1>1, <1>2, <1>4

\* The receive threads: what they add to the table has registered.
LEMMA ReceiveKeeps ==
  ASSUME LockInv, NEW e \in Ends, ReceiveStep(e)
  PROVE  LockInv'
<1> USE DEF LockInv
<1>1. CASE ReceiveRegister(e) \/ ReceiveOther(e) \/ RecvClosed(e)
  <2> USE DEF ReceiveRegister, ReceiveOther, RecvClosed, Recv, netVars, rxVars, sendVars
  <2>1. TypeOK'
    BY <1>1, BoundsAssumption DEF TypeOK
  <2>2. MutexInv' /\ TableInv'
    BY <1>1 DEF MutexInv, TableInv, Owner
  <2>3. AddingInv' /\ StageInv'
    BY <1>1 DEF AddingInv, StageInv, TypeOK
  <2> QED
    BY <2>1, <2>2, <2>3
<1>2. CASE addPeer(e)
  <2> USE DEF addPeer, netVars, sendVars
  <2>1. link[e[1]] # NULL /\ Owner(e) \in Modules
    BY <1>2, OwnerFacts DEF StageInv
  <2>2. TypeOK'
    BY <1>2, <2>1 DEF TypeOK
  <2>3. MutexInv'
    BY <1>2 DEF MutexInv
  <2>4. TableInv'
    <3>1. ASSUME NEW m \in Modules, NEW d \in peers'[m]
          PROVE  link[d[1]] # NULL /\ Owner(d) = m /\ registered'[d]
      BY <1>2, <2>1, <3>1 DEF TableInv, TypeOK
    <3>2. ASSUME NEW t \in Senders, writing[t] # NULL
          PROVE  registered'[writing[t].sock]
      BY <1>2, <3>2 DEF TableInv, TypeOK
    <3> QED
      BY <1>2, <3>1, <3>2 DEF TableInv, Owner
  <2>5. AddingInv' /\ StageInv'
    BY <1>2, <2>1 DEF AddingInv, StageInv, TypeOK
  <2> QED
    BY <2>2, <2>3, <2>4, <2>5
<1>3. CASE DelPeer(e)
  <2> USE DEF DelPeer, netVars, sendVars
  <2>1. \A m \in Modules : peers'[m] \subseteq peers[m]
    BY <1>3 DEF TypeOK
  <2>2. TypeOK'
    BY <1>3 DEF TypeOK
  <2>3. MutexInv'
    BY <1>3 DEF MutexInv
  <2>4. TableInv'
    BY <1>3, <2>1, TableKept
  <2>5. AddingInv' /\ StageInv'
    BY <1>3 DEF AddingInv, StageInv, TypeOK
  <2> QED
    BY <2>2, <2>3, <2>4, <2>5
<1> QED
  BY <1>1, <1>2, <1>3 DEF ReceiveStep

\* The writers: the mutex is taken and left together with the socket.
LEMMA WriteKeeps ==
  ASSUME LockInv, NEW t \in Senders,
         \/ \E n \in Modules, size \in Sizes : sendJson(t, n, size)
         \/ SendStep(t)
  PROVE  LockInv'
<1> USE DEF LockInv
<1>0. Home[t] \in Modules
  BY ModulesAssumption
<1>1. ASSUME NEW n \in Modules, NEW size \in Sizes, sendJson(t, n, size)
      PROVE  LockInv'
  <2> USE DEF sendJson, netVars, rxVars
  <2>1. PICK e \in peers[Home[t]] : writing' = [writing EXCEPT ![t] = [sock |-> e, left |-> size]]
    BY <1>1
  <2>2. e \in Ends /\ size \in Nat
    BY <1>0, BoundsAssumption DEF TypeOK
  <2>3. TypeOK'
    BY <1>0, <1>1, <2>1, <2>2 DEF TypeOK
  <2>4. writing'[t] = [sock |-> e, left |-> size] /\ writing'[t] # NULL
    BY <2>1, <2>2, NullAssumption DEF TypeOK, Ends
  <2>5. MutexInv'
    <3>1. /\ mutex_peers[Home[t]] = NULL
          /\ mutex_peers' = [mutex_peers EXCEPT ![Home[t]] = t]
          /\ \A u \in Senders : u # t => writing'[u] = writing[u]
      BY <1>1, <2>1 DEF Free, TypeOK
    <3>2. ASSUME NEW u \in Senders, writing'[u] # NULL
          PROVE  mutex_peers'[Home[u]] = u
      <4>1. u # t => Home[u] # Home[t]
        BY <3>1, <3>2, NullAssumption DEF MutexInv
      <4> QED
        BY <1>0, <3>1, <3>2, <4>1, ModulesAssumption DEF MutexInv, TypeOK
    <3>3. ASSUME NEW m \in Modules, mutex_peers'[m] # NULL
          PROVE  writing'[mutex_peers'[m]] # NULL /\ Home[mutex_peers'[m]] = m
      <4>1. CASE m = Home[t]
        BY <1>0, <2>4, <3>1, <4>1 DEF TypeOK
      <4>2. CASE m # Home[t]
        <5>1. mutex_peers'[m] = mutex_peers[m] /\ mutex_peers[m] \in Senders
          BY <3>1, <3>3, <4>2 DEF TypeOK
        <5>2. writing[mutex_peers[m]] # NULL /\ Home[mutex_peers[m]] = m
          BY <3>3, <5>1 DEF MutexInv
        <5> QED
          BY <2>4, <3>1, <5>1, <5>2
      <4> QED
        BY <4>1, <4>2
    <3> QED
      BY <3>2, <3>3 DEF MutexInv
  <2>6. TableInv'
    <3>1. \A u \in Senders : writing'[u] # NULL =>
             \/ writing'[u].sock \in peers[Home[u]]
             \/ writing[u] # NULL /\ writing'[u].sock = writing[u].sock
      BY <2>1, <2>4 DEF TypeOK
    <3> QED
      BY <1>1, <3>1, TableKept
  <2>7. AddingInv' /\ StageInv'
    BY <1>1 DEF AddingInv, StageInv
  <2> QED
    BY <2>3, <2>5, <2>6, <2>7
<1>2. CASE Write(t)
  <2> USE DEF Write, netVars, rxVars
  <2> DEFINE e == writing[t].sock
  <2>1. e \in Ends /\ Other(e) \in Ends /\ writing[t].left \in Nat
    BY <1>2, EndFacts DEF TypeOK
  <2>2. PICK n \in 1..Room(e) :
           /\ n <= writing[t].left
           /\ unread' = [unread EXCEPT ![Other(e)] = @ + n]
           /\ writing' = [writing EXCEPT ![t].left = @ - n]
    BY <1>2
  <2>3. n \in Nat /\ unread[Other(e)] + n \in 0..Capacity /\ writing[t].left - n \in Nat
    BY <2>1, <2>2, BoundsAssumption DEF Room, TypeOK
  <2>4. writing[t] \in [sock : Ends, left : Nat]
    BY <1>2 DEF TypeOK
  <2>5. writing'[t] = [sock |-> e, left |-> writing[t].left - n]
    BY <2>2, <2>4 DEF TypeOK
  <2>6. \A u \in Senders : u # t => writing'[u] = writing[u]
    BY <2>2 DEF TypeOK
  <2>7. writing'[t] # NULL
    BY <2>1, <2>3, <2>5, NullAssumption DEF Ends
  <2>8. TypeOK'
    <3>1. writing' \in [Senders -> [sock : Ends, left : Nat] \cup {NULL}]
      BY <2>1, <2>2, <2>3, <2>5, <2>6 DEF TypeOK
    <3>2. unread' \in [Ends -> 0..Capacity]
      BY <2>1, <2>2, <2>3 DEF TypeOK
    <3> QED
      BY <1>2, <3>1, <3>2 DEF TypeOK
  <2>9. MutexInv'
    BY <1>2, <2>6, <2>7 DEF MutexInv
  <2>10. TableInv'
    <3>1. \A u \in Senders : writing'[u] # NULL =>
             writing[u] # NULL /\ writing'[u].sock = writing[u].sock
      BY <1>2, <2>5, <2>6
    <3> QED
      BY <1>2, <3>1, TableKept
  <2>11. AddingInv' /\ StageInv'
    BY <1>2 DEF AddingInv, StageInv
  <2> QED
    BY <2>8, <2>9, <2>10, <2>11
<1>3. CASE SendReturns(t) \/ SendFails(t)
  <2> USE DEF SendReturns, SendFails, Unlock, netVars, rxVars
  <2>1. TypeOK'
    BY <1>0, <1>3 DEF TypeOK
  <2>2. MutexInv'
    <3>1. /\ mutex_peers' = [mutex_peers EXCEPT ![Home[t]] = NULL]
          /\ writing' = [writing EXCEPT ![t] = NULL]
          /\ mutex_peers[Home[t]] = t
      BY <1>3 DEF MutexInv
    <3>2. ASSUME NEW u \in Senders, writing'[u] # NULL
          PROVE  mutex_peers'[Home[u]] = u
      <4>1. u # t /\ mutex_peers[Home[u]] = u
        BY <3>1, <3>2 DEF MutexInv, TypeOK
      <4>2. Home[u] # Home[t] /\ Home[u] \in Modules
        BY <3>1, <4>1, ModulesAssumption
      <4> QED
        BY <3>1, <4>1, <4>2 DEF TypeOK
    <3>3. ASSUME NEW m \in Modules, mutex_peers'[m] # NULL
          PROVE  writing'[mutex_peers'[m]] # NULL /\ Home[mutex_peers'[m]] = m
      <4>1. m # Home[t] /\ mutex_peers'[m] = mutex_peers[m] /\ mutex_peers[m] \in Senders
        BY <1>0, <3>1, <3>3 DEF TypeOK
      <4>2. writing[mutex_peers[m]] # NULL /\ Home[mutex_peers[m]] = m
        BY <3>3, <4>1 DEF MutexInv
      <4>3. mutex_peers[m] # t
        BY <4>1, <4>2
      <4> QED
        BY <3>1, <4>1, <4>2, <4>3 DEF TypeOK
    <3> QED
      BY <3>2, <3>3 DEF MutexInv
  <2>3. TableInv'
    <3>1. \A u \in Senders : writing'[u] # NULL => writing'[u] = writing[u]
      BY <1>3 DEF TypeOK
    <3> QED
      BY <1>3, <3>1, TableKept
  <2>4. AddingInv' /\ StageInv'
    BY <1>3 DEF AddingInv, StageInv
  <2> QED
    BY <2>1, <2>2, <2>3, <2>4
<1> QED
  BY <1>1, <1>2, <1>3 DEF SendStep

\* A heart beat only fills the buffer.
LEMMA HeartBeatKeeps ==
  ASSUME LockInv, NEW e \in Ends, sendHearBeat(e)
  PROVE  LockInv'
<1> USE DEF LockInv, sendHearBeat, netVars, rxVars, sendVars
<1>1. Other(e) \in Ends
  BY EndFacts
<1>2. unread[Other(e)] + 1 \in 0..Capacity
  BY <1>1, BoundsAssumption DEF Room, TypeOK
<1>3. TypeOK'
  BY <1>1, <1>2 DEF TypeOK
<1> QED
  BY <1>3 DEF MutexInv, TableInv, AddingInv, StageInv, Owner

\* A process takes its table, its mutex and its threads with it.
LEMMA CrashKeeps ==
  ASSUME LockInv, NEW m \in Modules, Crash(m)
  PROVE  LockInv'
<1> USE DEF LockInv, Crash
<1>1. TypeOK'
  BY BoundsAssumption DEF TypeOK
<1>2. MutexInv'
  BY ModulesAssumption, NullAssumption DEF MutexInv, TypeOK
<1>3. TableInv'
  <2>1. ASSUME NEW k \in Modules, NEW e \in peers'[k]
        PROVE  link'[e[1]] # NULL /\ (Owner(e))' = k /\ registered'[e]
    <3>1. k # m /\ e \in peers[k]
      BY <2>1 DEF TypeOK
    <3>2. e \in Ends /\ link[e[1]] # NULL /\ Owner(e) = k /\ registered[e]
      BY <3>1 DEF TableInv, TypeOK
    <3>3. registered'[e]
      BY <3>1, <3>2 DEF EndsOf
    <3> QED
      BY <3>2, <3>3 DEF Owner
  <2>2. ASSUME NEW t \in Senders, writing'[t] # NULL
        PROVE  /\ link'[writing'[t].sock[1]] # NULL
               /\ (Owner(writing[t].sock))' = Home[t] /\ registered'[writing'[t].sock]
    <3> DEFINE d == writing[t].sock
    <3>1. Home[t] # m /\ writing'[t] = writing[t]
      BY <2>2
    <3>2. d \in Ends
      BY <2>2, <3>1 DEF TypeOK
    <3>3. link[d[1]] # NULL /\ Owner(d) = Home[t] /\ registered[d]
      BY <2>2, <3>1 DEF TableInv
    <3>4. registered'[d]
      BY <3>1, <3>2, <3>3 DEF EndsOf
    <3>5. (Owner(writing[t].sock))' = Home[t]
      BY <3>1, <3>3 DEF Owner
    <3> QED
      BY <3>1, <3>3, <3>4, <3>5
  <2> HIDE DEF Crash
  <2> QED
    BY <2>1, <2>2 DEF TableInv
<1>4. AddingInv' /\ StageInv'
  BY DEF AddingInv, StageInv, EndsOf
<1> QED
  BY <1>1, <1>2, <1>3, <1>4

LEMMA LockStep == LockInv /\ [Next]_vars => LockInv'
<1> SUFFICES ASSUME LockInv, [Next]_vars
             PROVE  LockInv'
  OBVIOUS
<1>1. CASE UNCHANGED vars
  BY <1>1 DEF vars, netVars, rxVars, sendVars, LockInv, TypeOK, MutexInv, TableInv,
              AddingInv, StageInv, Owner
<1>2. ASSUME NEW d \in Dials, createConnectionTo(d[1], d[2], d[3])
      PROVE  LockInv'
  BY <1>2, ConnectStep, ModulesAssumption
<1> QED
  BY <1>1, <1>2, NetStep, ReceiveKeeps, WriteKeeps, HeartBeatKeeps, CrashKeeps DEF Next

\* mutex_peers is kept exactly by the sender inside write(), which writes to a
\* registered socket of its own module, in every reachable state.
THEOREM LockInvariant == Spec => []LockInv
<1>1. LockInv /\ [Next]_vars => LockInv'
  BY LockStep
<1> QED
  BY LockInit, <1>1, PTL DEF Spec

-----------------------------------------------------------------------------
\* A sender behind another writes to a connection that its own module has
\* registered and the other end has not.
LEMMA HalfRegistered ==
  ASSUME LockInv, NEW t \in Senders, NEW u \in Senders, Behind(t, u)
  PROVE  LET d == writing[t].sock
         IN  /\ d \in Ends /\ link[d[1]] # NULL
             /\ Owner(d) = Home[t] /\ registered[d]
             /\ Owner(Other(d)) = Home[u] /\ ~registered[Other(d)]
<1> USE DEF LockInv
<1> DEFINE d == writing[t].sock
<1>1. d \in Ends /\ link[d[1]] # NULL /\ Owner(d) = Home[t] /\ registered[d]
  BY DEF Behind, Blocked, TableInv, TypeOK
<1>2. Other(d) \in Ends /\ Owner(Other(d)) \in Modules
  BY <1>1, EndFacts, OwnerFacts
<1>3. ~registered[Other(d)]
  BY <1>2 DEF Behind, AddingInv
<1>4. Home[u] = Owner(Other(d))
  BY <1>2, NullAssumption DEF Behind, MutexInv
<1> QED
  BY <1>1, <1>3, <1>4

LEMMA CrossedStep == LockInv => CrossedOnly
<1> SUFFICES ASSUME LockInv, NEW S \in SUBSET Senders, Knot(S), NEW t \in S
             PROVE  LET l == writing[t].sock[1]
                    IN  /\ \A u \in S \ {t} : writing[u].sock[1] # l
                        /\ S = {t} => link[l].client = link[l].server
  BY DEF CrossedOnly
<1> DEFINE d == writing[t].sock
<1>1. PICK v \in S : Behind(t, v)
  BY DEF Knot
<1>2. /\ d \in Ends /\ link[d[1]] # NULL
      /\ Owner(d) = Home[t] /\ registered[d]
      /\ Owner(Other(d)) = Home[v] /\ ~registered[Other(d)]
  BY <1>1, HalfRegistered
<1>3. mutex_peers[Home[t]] = t
  BY <1>1 DEF LockInv, MutexInv, Behind, Blocked
<1>4. ASSUME NEW u \in S, u # t
      PROVE  writing[u].sock[1] # d[1]
  <2> SUFFICES ASSUME writing[u].sock[1] = d[1]
               PROVE  FALSE
    OBVIOUS
  <2> DEFINE e == writing[u].sock
  <2>1. PICK w \in S : Behind(u, w)
    BY DEF Knot
  <2>2. e \in Ends /\ Owner(e) = Home[u] /\ registered[e]
    BY <2>1, HalfRegistered
  <2>3. mutex_peers[Home[u]] = u
    BY <2>1 DEF LockInv, MutexInv, Behind, Blocked
  <2>4. e = d \/ e = Other(d)
    BY <1>2, <2>2, EndFacts
  <2>5. e # Other(d)
    BY <1>2, <2>2
  <2> QED
    BY <1>2, <1>3, <1>4, <2>2, <2>3, <2>4, <2>5
<1>5. S = {t} => link[d[1]].client = link[d[1]].server
  BY <1>1, <1>2, OwnerFacts DEF LockInv
<1> QED
  BY <1>4, <1>5

\* Whatever the number of modules, threads and connections, senders wait for each
\* other only over as many connections as they are, each registered on one side;
\* one alone only in a module connected to itself.
THEOREM CrossedCorrect == Spec => []CrossedOnly
<1>1. LockInv => CrossedOnly
  BY CrossedStep
<1> QED
  BY <1>1, LockInvariant, PTL

-----------------------------------------------------------------------------
\* What a sender waits for does not change while no connection is lost and the
\* other sender is blocked too: the receive thread that would make room waits for
\* the mutex of the other.
LEMMA StaysBehind ==
  ASSUME LockInv, [Next]_vars, NEW t \in Senders, NEW u \in Senders,
         Behind(t, u), Blocked(u),
         ~broken'[writing[t].sock[1]], ~broken'[writing[u].sock[1]]
  PROVE  Behind(t, u)'
<1> DEFINE d == writing[t].sock
           o == Other(d)
           Same == /\ writing'[t] = writing[t] /\ link'[d[1]] = link[d[1]]
                   /\ unread'[o] = unread[o] /\ rx'[o] = rx[o]
                   /\ mutex_peers'[Home[u]] = mutex_peers[Home[u]]
<1> USE DEF LockInv
<1>1. /\ d \in Ends /\ link[d[1]] # NULL /\ Owner(d) = Home[t] /\ registered[d]
      /\ Owner(o) = Home[u]
  BY HalfRegistered
<1>2. /\ o \in Ends /\ o[1] = d[1] /\ Other(o) = d /\ d[1] \in Links
      /\ \A e \in Ends : Other(e) = o => e = d
  <2>1. \A e \in Ends : Other(Other(e)) = e
    BY EndFacts
  <2> QED
    BY <1>1, <2>1, EndFacts
<1>3. /\ Room(d) = 0 /\ writing[t] # NULL /\ writing[t].left > 0
      /\ rx[o] = "adding" /\ mutex_peers[Home[u]] = u
  BY <1>1 DEF Behind, Blocked
<1>4. /\ writing[u] # NULL /\ writing[u].left > 0 /\ Room(writing[u].sock) = 0
      /\ ~broken[writing[u].sock[1]] /\ ~broken[d[1]]
  BY DEF Behind, Blocked
<1>5. Home[t] \in Modules /\ Home[u] \in Modules
  BY ModulesAssumption
<1>6. Same => Behind(t, u)'
  <2>1. SUFFICES ASSUME Same PROVE Behind(t, u)'
    OBVIOUS
  <2>2. Blocked(t)'
    BY <1>3, <2>1 DEF Blocked, Room
  <2>3. (Owner(Other(writing[t].sock)))' = Owner(o)
    BY <1>2, <2>1 DEF Owner, Other
  <2> QED
    BY <1>1, <1>3, <2>1, <2>2, <2>3 DEF Behind, Other
<1>7. ASSUME NEW l \in Links, NEW m, NEW n, createConnectionTo(l, m, n)
      PROVE  Same
  <2>1. l # d[1] /\ o # <<l, "CLIENT">> /\ o # <<l, "SERVER">>
    BY <1>1, <1>2, <1>7 DEF createConnectionTo
  <2> QED
    BY <1>1, <1>2, <1>7, <2>1 DEF createConnectionTo, sendVars, TypeOK
<1>8. ASSUME NEW l \in Links, AcceptPeer(l) \/ LinkFail(l)
      PROVE  Same
  <2>1. CASE AcceptPeer(l)
    <3>1. d # <<l, "SERVER">> /\ o # <<l, "SERVER">>
      BY <1>1, <1>2, <1>3, <2>1 DEF AcceptPeer, StageInv
    <3>2. o # <<l, "CLIENT">>
      BY <1>1, <1>2, <3>1, EndFacts DEF Other
    <3> QED
      BY <1>2, <2>1, <3>1, <3>2 DEF AcceptPeer, netVars, sendVars, TypeOK
  <2>2. CASE LinkFail(l)
    BY <2>2 DEF LinkFail, rxVars, sendVars
  <2> QED
    BY <1>8, <2>1, <2>2
<1>9. ASSUME NEW e \in Ends, ReceiveStep(e)
      PROVE  Same
  <2>1. CASE rx[e] \in {"reading", "deleting"}
    <3>1. e # o
      BY <1>3, <2>1
    <3> QED
      BY <1>2, <1>9, <2>1, <3>1
         DEF ReceiveStep, ReceiveRegister, addPeer, ReceiveOther, RecvClosed, DelPeer, Recv,
             netVars, rxVars, sendVars, TypeOK
  <2>2. CASE addPeer(e)
    <3>1. e # o
      BY <1>1, <1>3, <2>2, NullAssumption DEF addPeer, Free
    <3> QED
      BY <1>2, <2>2, <3>1 DEF addPeer, netVars, sendVars, TypeOK
  <2> QED
    BY <1>9, <2>1, <2>2
       DEF ReceiveStep, ReceiveRegister, ReceiveOther, RecvClosed, DelPeer, Recv
<1>10. ASSUME NEW e \in Ends, sendHearBeat(e)
       PROVE  Same
  <2>1. Other(e) # o
    BY <1>2, <1>3, <1>10 DEF sendHearBeat
  <2> QED
    BY <1>2, <1>10, <2>1, EndFacts DEF sendHearBeat, netVars, rxVars, sendVars, TypeOK
<1>11. ASSUME NEW v \in Senders, NEW n, NEW size, sendJson(v, n, size)
       PROVE  Same
  <2>1. v # t /\ Home[v] # Home[u]
    BY <1>3, <1>11, NullAssumption DEF sendJson, Free
  <2>2. PICK e \in peers[Home[v]] : writing' = [writing EXCEPT ![v] = [sock |-> e, left |-> size]]
    BY <1>11 DEF sendJson
  <2> QED
    BY <1>5, <1>11, <2>1, <2>2 DEF sendJson, netVars, rxVars, TypeOK
<1>12. ASSUME NEW v \in Senders, SendStep(v)
       PROVE  Same
  <2>1. CASE Write(v)
    <3> DEFINE e == writing[v].sock
    <3>1. e \in Ends /\ Other(e) \in Ends
      BY <2>1, EndFacts DEF Write, TypeOK
    <3>2. PICK n \in 1..Room(e) :
             /\ unread' = [unread EXCEPT ![Other(e)] = @ + n]
             /\ writing' = [writing EXCEPT ![v].left = @ - n]
      BY <2>1 DEF Write
    <3>3. e # d
      BY <1>3, <3>2
    <3>4. v # t /\ Other(e) # o
      BY <1>2, <3>1, <3>3
    <3>5. writing'[t] = writing[t] /\ unread'[o] = unread[o]
      BY <1>2, <3>1, <3>2, <3>4 DEF TypeOK
    <3> QED
      BY <2>1, <3>5 DEF Write, netVars, rxVars
  <2>2. CASE SendReturns(v) \/ SendFails(v)
    <3>1. v # t /\ v # u
      BY <1>3, <1>4, <2>2 DEF SendReturns, SendFails
    <3>2. mutex_peers[Home[v]] = v
      BY <2>2 DEF SendReturns, SendFails, MutexInv
    <3>3. Home[v] # Home[u]
      BY <1>3, <3>1, <3>2
    <3> QED
      BY <1>5, <2>2, <3>1, <3>3 DEF SendReturns, SendFails, Unlock, netVars, rxVars, TypeOK
  <2> QED
    BY <1>12, <2>1, <2>2 DEF SendStep
<1>13. ASSUME NEW m \in Modules, Crash(m)
       PROVE  Same
  <2>1. d[1] \notin LinksOf(m)
    BY <1>2, <1>13 DEF Crash
  <2>2. Home[t] # m /\ Home[u] # m
    BY <1>1, <2>1, <1>2, OwnerFacts DEF LinksOf
  <2>3. o \notin EndsOf(m)
    BY <1>1, <2>2 DEF EndsOf
  <2> QED
    BY <1>2, <1>5, <1>13, <2>2, <2>3 DEF Crash, TypeOK
<1>14. ASSUME UNCHANGED vars
       PROVE  Same
  BY <1>14 DEF vars, netVars, rxVars, sendVars
<1> HIDE DEF Same, LockInv
<1>15. ASSUME Next PROVE Same
  <2>1. CASE \E b \in Dials : createConnectionTo(b[1], b[2], b[3])
    BY <2>1, <1>7, ModulesAssumption
  <2>2. CASE \E l \in Links : AcceptPeer(l) \/ LinkFail(l)
    BY <2>2, <1>8
  <2>3. CASE \E e \in Ends : ReceiveStep(e) \/ sendHearBeat(e)
    BY <2>3, <1>9, <1>10
  <2>4. CASE \E v \in Senders : \/ \E n \in Modules, size \in Sizes : sendJson(v, n, size)
                               \/ SendStep(v)
    BY <2>4, <1>11, <1>12
  <2>5. CASE \E m \in Modules : Crash(m)
    BY <2>5, <1>13
  <2> QED
    BY <1>15, <2>1, <2>2, <2>3, <2>4, <2>5 DEF Next
<1> QED
  BY <1>6, <1>14, <1>15

\* No step but the loss of one of their connections ends it when senders wait for
\* each other, for any modules, threads, connections and buffers.
THEOREM DeadlockStays == Spec => OnlyLossReleases
<1>1. ASSUME LockInv, [Next]_vars, NEW S \in SUBSET Senders, Knot(S), ~Knot(S)'
      PROVE  \E t \in S : broken'[writing[t].sock[1]]
  <2> SUFFICES ASSUME \A t \in S : ~broken'[writing[t].sock[1]]
               PROVE  Knot(S)'
    BY <1>1
  <2>1. ASSUME NEW t \in S
        PROVE  \E u \in S : Behind(t, u)'
    <3>1. PICK u \in S : Behind(t, u)
      BY <1>1 DEF Knot
    <3>2. Blocked(u)
      BY <1>1 DEF Knot, Behind
    <3> QED
      BY <1>1, <3>1, <3>2, StaysBehind
  <2> QED
    BY <1>1, <2>1 DEF Knot
<1>2. LockInv /\ [Next]_vars =>
        \A S \in SUBSET Senders : Knot(S) /\ ~Knot(S)' =>
           \E t \in S : broken'[writing[t].sock[1]]
  BY <1>1
<1> QED
  BY <1>2, LockInvariant, PTL DEF Spec, OnlyLossReleases

=============================================================================
