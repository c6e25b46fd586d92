-------------------------- MODULE PeerManager_proofs --------------------------
(* Proofs about PeerManager, for any modules, addresses and connections.      *)
EXTENDS PeerManager, WellFoundedInduction, SequenceTheorems, FiniteSetTheorems, TLAPS

LEMMA Least ==
  ASSUME NEW S \in SUBSET Nat, S # {}
  PROVE  \E x \in S : \A y \in S : x <= y
<1> DEFINE R == OpToRel(<, Nat)
<1>1. IsWellFoundedOn(R, Nat)
  BY NatLessThanWellFounded
<1>2. \A x, y \in Nat : y < x => <<y, x>> \in R
  BY DEF OpToRel
<1> HIDE DEF R
<1>3. PICK x \in S : \A y \in S : ~(<<y, x>> \in R)
  BY <1>1, WFMin
<1>4. \A y \in S : ~(y < x)
  BY <1>2, <1>3
<1>5. \A y \in S : x <= y
  BY <1>4, S \subseteq Nat
<1> QED
  BY <1>5

LEMMA EndFacts ==
  /\ \A e \in Ends : /\ e[1] \in Links /\ e = <<e[1], e[2]>> /\ e[2] \in Sides
                     /\ Other(e) \in Ends /\ Other(e)[1] = e[1] /\ Other(e) # e
                     /\ Other(Other(e)) = e
                     /\ \A d \in Ends : d[1] = e[1] => d = e \/ d = Other(e)
  /\ \A l \in Links : /\ <<l, "CLIENT">> \in Ends /\ <<l, "SERVER">> \in Ends
                      /\ <<l, "CLIENT">>[1] = l /\ <<l, "SERVER">>[1] = l
                      /\ Other(<<l, "CLIENT">>) = <<l, "SERVER">>
                      /\ Other(<<l, "SERVER">>) = <<l, "CLIENT">>
BY DEF Ends, Other, Sides

\* A used connection joins two modules.
LEMMA OwnerFacts ==
  ASSUME TypeOK, NEW e \in Ends, Used(e[1])
  PROVE  /\ link[e[1]] \in [client : Modules, addr : Uris]
         /\ Owner(e) \in Modules
<1>1. e[1] \in Links
  BY EndFacts
<1>2. link[e[1]] \in [client : Modules, addr : Uris]
  BY <1>1 DEF TypeOK, Used
<1> QED
  BY <1>2, UriAssumption DEF Owner

LEMMA FrameFacts ==
  /\ \A u \in Uris \cup {NULL} : /\ Register(u) \in Frame /\ Register(u).uri = u
                                 /\ Register(u).type = "Register_Message"
  /\ Plain("other") \in Frame /\ Plain("quit") \in Frame
  /\ \A f \in Frame : f.type = "Register_Message" => f.uri \in Uris \cup {NULL}
BY DEF Frame, Register, Plain

-----------------------------------------------------------------------------
(* The table of peers.                                                       *)

LEMMA EntryFacts ==
  ASSUME TypeOK, NEW m \in Modules, NEW i \in DOMAIN peers[m]
  PROVE  peers[m][i].sock \in Ends
<1>1. peers[m] \in Seq(Entry)
  BY DEF TypeOK
<1>2. peers[m][i] \in Entry
  BY <1>1
<1> QED
  BY <1>2 DEF Entry

LEMMA WritingFacts ==
  ASSUME TypeOK, NEW m \in Modules, ~Free(m)
  PROVE  writing[m].sock \in Ends /\ writing[m].type \in {"other", "quit"}
<1>1. writing[m] \in Writing
  BY DEF TypeOK, Free
<1> QED
  BY <1>1 DEF Writing

LEMMA FirstFacts ==
  ASSUME TypeOK, NEW m \in Modules, NEW u, haveConnectionTo(m, u)
  PROVE  FirstWith(m, u) \in DOMAIN peers[m] /\ peers[m][FirstWith(m, u)].uri = u
<1> DEFINE S == {i \in DOMAIN peers[m] : peers[m][i].uri = u}
<1>1. peers[m] \in Seq(Entry) /\ DOMAIN peers[m] = 1..Len(peers[m]) /\ Len(peers[m]) \in Nat
  BY DEF TypeOK
<1>2. S \in SUBSET Nat /\ S # {}
  BY <1>1 DEF haveConnectionTo
<1>3. PICK k \in S : \A i \in S : k <= i
  BY <1>2, Least
<1>4. \A j \in 1..k - 1 : peers[m][j].uri # u
  <2> TAKE j \in 1..k - 1
  <2>1. k \in 1..Len(peers[m])
    BY <1>1, <1>3
  <2>2. j \in DOMAIN peers[m] /\ ~(k <= j)
    BY <1>1, <2>1
  <2> QED
    BY <1>3, <2>2
<1>5. k \in DOMAIN peers[m] /\ peers[m][k].uri = u
  BY <1>3
<1> QED
  BY <1>4, <1>5 DEF FirstWith

\* What remains of a sequence without its k-th element.
LEMMA RemoveAtFacts ==
  ASSUME NEW S, NEW s \in Seq(S), NEW k \in 1..Len(s)
  PROVE  /\ RemoveAt(s, k) \in Seq(S)
         /\ Len(RemoveAt(s, k)) = Len(s) - 1
         /\ \A i \in 1..Len(s) - 1 : RemoveAt(s, k)[i] = s[IF i < k THEN i ELSE i + 1]
<1> DEFINE before == SubSeq(s, 1, k - 1)
           after  == SubSeq(s, k + 1, Len(s))
<1>1. /\ before \in Seq(S) /\ Len(before) = k - 1
      /\ \A i \in 1..k - 1 : before[i] = s[i]
  BY SubSeqProperties
<1>2. /\ after \in Seq(S) /\ Len(after) = Len(s) - k
      /\ \A i \in 1..Len(s) - k : after[i] = s[k + i]
  BY SubSeqProperties
<1>3. RemoveAt(s, k) = before \o after
  BY DEF RemoveAt
<1> HIDE DEF before, after
<1>4. /\ before \o after \in Seq(S)
      /\ Len(before \o after) = Len(before) + Len(after)
      /\ \A i \in 1..Len(before) + Len(after) :
            (before \o after)[i] = IF i <= Len(before) THEN before[i] ELSE after[i - Len(before)]
  BY <1>1, <1>2, ConcatProperties
<1>5. Len(s) \in Nat /\ Len(before) + Len(after) = Len(s) - 1
  BY <1>1, <1>2
<1>6. ASSUME NEW i \in 1..Len(s) - 1
      PROVE  (before \o after)[i] = s[IF i < k THEN i ELSE i + 1]
  <2>1. CASE i < k
    <3>1. i \in 1..k - 1 /\ i <= Len(before)
      BY <1>1, <2>1
    <3> QED
      BY <1>1, <1>4, <1>5, <2>1, <3>1
  <2>2. CASE ~(i < k)
    <3>1. i - (k - 1) \in 1..Len(s) - k /\ ~(i <= Len(before)) /\ k + (i - (k - 1)) = i + 1
      BY <1>1, <1>5, <2>2
    <3>2. (before \o after)[i] = after[i - (k - 1)]
      BY <1>1, <1>4, <1>5, <3>1
    <3> QED
      BY <1>2, <2>2, <3>1, <3>2
  <2> QED
    BY <2>1, <2>2
<1> QED
  BY <1>3, <1>4, <1>5, <1>6

\* DelPeer leaves a table of entries that were there before.
LEMMA DelPeerFacts ==
  ASSUME TypeOK, NEW m \in Modules, NEW u
  PROVE  /\ DelPeer(m, u) \in Seq(Entry)
         /\ \A i \in DOMAIN DelPeer(m, u) : \E j \in DOMAIN peers[m] : DelPeer(m, u)[i] = peers[m][j]
<1>1. peers[m] \in Seq(Entry)
  BY DEF TypeOK
<1>2. CASE ~haveConnectionTo(m, u)
  BY <1>1, <1>2 DEF DelPeer
<1>3. CASE haveConnectionTo(m, u)
  <2> DEFINE k == FirstWith(m, u)
  <2>1. k \in 1..Len(peers[m])
    BY <1>1, <1>3, FirstFacts
  <2> HIDE DEF k
  <2>2. /\ RemoveAt(peers[m], k) \in Seq(Entry)
        /\ Len(RemoveAt(peers[m], k)) = Len(peers[m]) - 1
        /\ \A i \in 1..Len(peers[m]) - 1 :
              RemoveAt(peers[m], k)[i] = peers[m][IF i < k THEN i ELSE i + 1]
    BY <1>1, <2>1, RemoveAtFacts
  <2>3. DelPeer(m, u) = RemoveAt(peers[m], k)
    BY <1>3 DEF DelPeer, k
  <2>4. \A i \in 1..Len(peers[m]) - 1 : i \in 1..Len(peers[m]) /\ i + 1 \in 1..Len(peers[m])
    BY <1>1
  <2>5. DOMAIN DelPeer(m, u) = 1..Len(peers[m]) - 1 /\ DOMAIN peers[m] = 1..Len(peers[m])
    BY <1>1, <2>2, <2>3
  <2> QED
    BY <2>2, <2>3, <2>4, <2>5
<1> QED
  BY <1>2, <1>3

-----------------------------------------------------------------------------
(* The streams.                                                              *)

\* w has at least what v has, and nothing in front of it.
Extends(w, v) == \A e \in Ends : v[e] # << >> => w[e] # << >> /\ Head(w[e]) = Head(v[e])

LEMMA AppendHead ==
  ASSUME NEW s \in Seq(Frame), NEW f \in Frame
  PROVE  /\ Append(s, f) \in Seq(Frame) /\ Append(s, f) # << >>
         /\ s # << >> => Head(Append(s, f)) = Head(s)
         /\ s = << >> => Head(Append(s, f)) = f
<1>1. /\ Append(s, f) \in Seq(Frame) /\ Len(Append(s, f)) = Len(s) + 1
      /\ \A i \in 1..Len(s) : Append(s, f)[i] = s[i]
      /\ Append(s, f)[Len(s) + 1] = f
  OBVIOUS
<1>2. Append(s, f) # << >> /\ Head(Append(s, f)) = Append(s, f)[1]
  BY <1>1
<1>3. s # << >> => 1 \in 1..Len(s) /\ Head(s) = s[1]
  OBVIOUS
<1>4. s = << >> => Len(s) + 1 = 1
  OBVIOUS
<1> QED
  BY <1>1, <1>2, <1>3, <1>4

LEMMA WriteFacts ==
  ASSUME TypeOK, NEW e \in Ends, NEW f \in Frame
  PROVE  /\ Write(wire, e, f) \in [Ends -> Seq(Frame)]
         /\ Extends(Write(wire, e, f), wire)
         /\ \A d \in Ends : d # Other(e) \/ ~Carries(e) => Write(wire, e, f)[d] = wire[d]
         /\ Carries(e) => Write(wire, e, f)[Other(e)] # << >>
         /\ Carries(e) /\ wire[Other(e)] = << >> => Head(Write(wire, e, f)[Other(e)]) = f
<1> DEFINE d == Other(e)
<1>1. wire \in [Ends -> Seq(Frame)] /\ d \in Ends
  BY EndFacts DEF TypeOK
<1>2. CASE ~Carries(e)
  BY <1>1, <1>2 DEF Write, Extends
<1>3. CASE Carries(e)
  <2> HIDE DEF d
  <2>1. Write(wire, e, f) = [wire EXCEPT ![d] = Append(wire[d], f)]
    BY <1>3 DEF Write, d
  <2>2. /\ wire[d] \in Seq(Frame) /\ Append(wire[d], f) \in Seq(Frame)
        /\ Append(wire[d], f) # << >>
        /\ wire[d] # << >> => Head(Append(wire[d], f)) = Head(wire[d])
        /\ wire[d] = << >> => Head(Append(wire[d], f)) = f
    BY <1>1, AppendHead
  <2>3. Write(wire, e, f)[d] = Append(wire[d], f) /\ \A x \in Ends : x # d => Write(wire, e, f)[x] = wire[x]
    BY <1>1, <2>1
  <2>4. Extends(Write(wire, e, f), wire)
    BY <1>1, <2>2, <2>3 DEF Extends
  <2> QED
    BY <1>1, <1>3, <2>1, <2>2, <2>3, <2>4 DEF d
<1> QED
  BY <1>2, <1>3
-----------------------------------------------------------------------------
(* IInv is inductive: one lemma for each kind of step.                       *)

IInv == PeerInv /\ DialTruthful

LEMMA InitInv == Init => IInv
<1> SUFFICES ASSUME Init PROVE IInv
  OBVIOUS
<1>1. TypeOK
  BY DEF Init, TypeOK
<1>2. StageInv /\ OpenInv /\ DoneInv /\ DialTruthful
  BY EndFacts DEF Init, StageInv, OpenInv, DoneInv, DialTruthful, Used
<1>3. RegisterFirst /\ AnnouncedInv
  BY DEF Init, RegisterFirst, AnnouncedInv, Reading, Free
<1> QED
  BY <1>1, <1>2, <1>3 DEF IInv, PeerInv

\* Dialling before and after the connection.
LEMMA DialKeeps ==
  ASSUME IInv, NEW l \in Links,
         \/ \E d \in Dials : d[1] = l /\ CheckConnection(l, d[2], d[3])
         \/ ConnectFails(l) \/ DialReturns(l)
  PROVE  IInv'
<1> USE DEF IInv, PeerInv, netVars, endVars
<1>1. CASE \E d \in Dials : d[1] = l /\ CheckConnection(l, d[2], d[3])
  <2>1. PICK d \in Dials : CheckConnection(l, d[2], d[3])
    BY <1>1
  <2> USE DEF CheckConnection
  <2>2. d[2] \in Modules /\ d[3] \in Uris
    BY UriAssumption
  <2>3. [client |-> d[2], addr |-> d[3]] \in [client : Modules, addr : Uris]
    BY <2>2
  <2>4. TypeOK'
    BY <2>1, <2>3 DEF TypeOK
  <2>5. \A k \in Links : /\ link'[k] = IF k = l THEN [client |-> d[2], addr |-> d[3]] ELSE link[k]
                         /\ dial'[k] = IF k = l THEN "checked" ELSE dial[k]
    BY <2>1 DEF TypeOK
  <2>6. [client |-> d[2], addr |-> d[3]] # NULL
    BY <2>3, NullAssumption
  <2>7. rx[<<l, "CLIENT">>] = "none" /\ rx[<<l, "SERVER">>] = "none"
    BY <2>1, EndFacts DEF StageInv, Used
  <2>8. StageInv'
    BY <2>1, <2>5, <2>6, <2>7, EndFacts DEF StageInv, Used
  <2>9. OpenInv'
    <3> SUFFICES ASSUME NEW e \in Ends, rx[e] \in {"backlog", "reading", "closing"}
                 PROVE  (Owner(e))' = Owner(e)
      BY <2>1 DEF OpenInv
    <3>1. e[1] # l
      BY <2>1, EndFacts DEF StageInv, Used
    <3> QED
      BY <2>5, <3>1, EndFacts DEF Owner
  <2>10. RegisterFirst' /\ AnnouncedInv' /\ DoneInv' /\ DialTruthful'
    BY <2>1, <2>5 DEF RegisterFirst, AnnouncedInv, DoneInv, DialTruthful, Reading, Free
  <2> QED
    BY <2>4, <2>8, <2>9, <2>10
<1>2. CASE ConnectFails(l) \/ DialReturns(l)
  <2> USE DEF ConnectFails, DialReturns
  <2>1. TypeOK'
    BY <1>2 DEF TypeOK
  <2>2. \A k \in Links : dial'[k] = dial[k] \/ (k = l /\ dial'[k] \in {"true", "false"} /\ dial[k] # "none")
    BY <1>2 DEF TypeOK
  <2>3. StageInv'
    BY <1>2, <2>2 DEF StageInv, Used
  <2>4. UNCHANGED <<up, peers, writing, link, cut, wire, eof, rx, registered, isDone>>
    BY <1>2
  <2>6. OpenInv'
    BY <2>4 DEF OpenInv, Owner
  <2>7. AnnouncedInv'
    BY <2>4 DEF AnnouncedInv, Reading, Free
  <2>8. RegisterFirst' /\ DoneInv'
    BY <2>4 DEF RegisterFirst, DoneInv, Reading
  <2>5. DialTruthful'
    <3>1. CASE ConnectFails(l)
      BY <3>1 DEF TypeOK, DialTruthful
    <3>2. CASE DialReturns(l)
      BY <3>2 DEF TypeOK, DialTruthful, DoneInv
    <3> QED
      BY <1>2, <3>1, <3>2
  <2> QED
    BY <2>1, <2>3, <2>5, <2>6, <2>7, <2>8
<1> QED
  BY <1>1, <1>2

\* Threads that end, processes that start, and losses that TCP notices.
LEMMA SmallKeeps ==
  ASSUME IInv,
         (\E e \in Ends : HeartBeatFails(e) \/ LossDetected(e)) \/ \E m \in Modules : Restart(m)
  PROVE  IInv'
<1> USE DEF IInv, PeerInv, netVars, endVars, dialVars
<1>1. ASSUME NEW e \in Ends, HeartBeatFails(e) \/ LossDetected(e)
      PROVE  IInv'
  <2> USE DEF HeartBeatFails, LossDetected
  <2>1. TypeOK'
    BY <1>1 DEF TypeOK
  <2>2. \A d \in Ends : /\ beat'[d] => beat[d]
                        /\ eof[d] => eof'[d]
                        /\ eof'[d] => eof[d] \/ cut[d[1]]
    BY <1>1 DEF TypeOK
  <2>3. StageInv' /\ DoneInv' /\ DialTruthful' /\ RegisterFirst'
    BY <1>1, <2>2 DEF StageInv, DoneInv, DialTruthful, RegisterFirst, Used
  <2>4. UNCHANGED <<up, peers, writing, link, cut, wire, rx, registered>>
    BY <1>1
  <2>5. OpenInv'
    <3>1. \A d \in Ends : eof'[d] /\ ~cut[d[1]] => eof'[Other(d)]
      BY <2>2, EndFacts DEF OpenInv
    <3> QED
      BY <2>2, <2>4, <3>1 DEF OpenInv, Owner
  <2>6. AnnouncedInv'
    BY <2>2, <2>4, EndFacts DEF AnnouncedInv, Reading, Free
  <2> QED
    BY <2>1, <2>3, <2>5, <2>6
<1>2. ASSUME NEW m \in Modules, Restart(m)
      PROVE  IInv'
  <2> USE DEF Restart
  <2>1. TypeOK'
    BY <1>2 DEF TypeOK
  <2>2. \A k \in Modules : up[k] => up'[k]
    BY <1>2 DEF TypeOK
  <2>3. OpenInv'
    <3> SUFFICES ASSUME NEW e \in Ends, rx[e] \in {"backlog", "reading", "closing"}
                 PROVE  up'[Owner(e)]
      BY <1>2 DEF OpenInv, Owner
    <3>1. up[Owner(e)] /\ Owner(e) \in Modules
      BY OwnerFacts DEF OpenInv, StageInv
    <3> QED
      BY <2>2, <3>1
  <2>4. StageInv' /\ DoneInv' /\ DialTruthful' /\ RegisterFirst' /\ AnnouncedInv'
    BY <1>2 DEF StageInv, DoneInv, DialTruthful, RegisterFirst, AnnouncedInv, Used, Reading, Free
  <2> QED
    BY <2>1, <2>3, <2>4
<1> QED
  BY <1>1, <1>2

\* A write to an end whose other end has been announced, at once or at last.
LEMMA WriteKeeps ==
  ASSUME IInv, NEW e \in Ends, NEW f \in Frame,
         wire' = Write(wire, e, f),
         Carries(e) => registered[Other(e)] \/ wire[Other(e)] # << >>,
         writing' = writing \/ \E m \in Modules : writing' = [writing EXCEPT ![m] = NULL],
         UNCHANGED <<up, peers, link, cut, eof, endVars, dialVars>>
  PROVE  IInv'
<1> USE DEF IInv, PeerInv, endVars, dialVars
<1>1. /\ writing' \in [Modules -> Writing \cup {NULL}]
      /\ \A m \in Modules : writing'[m] # NULL => writing'[m] = writing[m]
  BY DEF TypeOK
<1>2. TypeOK'
  BY <1>1, WriteFacts DEF TypeOK
<1>3. Extends(wire', wire) /\ \A d \in Ends : d # Other(e) \/ ~Carries(e) => wire'[d] = wire[d]
  BY WriteFacts
<1>4. StageInv' /\ DoneInv' /\ DialTruthful'
  BY DEF StageInv, DoneInv, DialTruthful, Used
<1>5. OpenInv'
  <2> SUFFICES ASSUME NEW d \in Ends, rx[d] \in {"closing", "done"}
               PROVE  wire'[d] = << >>
    BY DEF OpenInv, Owner
  <2>1. eof[d] /\ wire[d] = << >>
    BY DEF OpenInv
  <2>2. d # Other(e) \/ ~Carries(e)
    BY <2>1 DEF Carries
  <2> QED
    BY <1>3, <2>1, <2>2
<1>6. RegisterFirst'
  <2> SUFFICES ASSUME NEW d \in Ends, ~registered[d], wire'[d] # << >>
               PROVE  Head(wire'[d]).type = "Register_Message"
    BY DEF RegisterFirst
  <2>1. wire[d] # << >>
    BY <1>3
  <2> QED
    BY <1>3, <2>1 DEF RegisterFirst, Extends
<1>7. AnnouncedInv'
  <2>1. \A m \in Modules : writing'[m] # NULL => rx[writing'[m].sock] \notin {"none", "backlog"}
    BY <1>1 DEF AnnouncedInv, Free
  <2> QED
    BY <1>3, <2>1, EndFacts DEF AnnouncedInv, Extends, Reading, Free
<1> QED
  BY <1>2, <1>4, <1>5, <1>6, <1>7

\* Who writes to an end that is not closed has been announced by its reader.
LEMMA WriterFacts ==
  ASSUME IInv, NEW e \in Ends, rx[e] \notin {"none", "backlog"}, Carries(e)
  PROVE  registered[Other(e)] \/ wire[Other(e)] # << >>
<1>1. ~cut[e[1]] /\ ~eof[Other(e)] /\ ~eof[e]
  BY DEF Carries
<1>2. rx[e] = "reading"
  BY <1>1 DEF IInv, PeerInv, OpenInv, TypeOK
<1> QED
  BY <1>1, <1>2 DEF IInv, PeerInv, AnnouncedInv, Reading

\* sendJson writes to an entry of the table, which may be of a closed end, or
\* begins to wait with it.
LEMMA SendKeeps ==
  ASSUME IInv, NEW m \in Modules, NEW u \in Uris \cup {NULL}, NEW k \in {"other", "quit"},
         sendJson(m, u, k)
  PROVE  IInv'
<1> DEFINE e == peers[m][FirstWith(m, u)].sock
<1>1. FirstWith(m, u) \in DOMAIN peers[m]
  BY FirstFacts DEF sendJson, IInv, PeerInv
<1>2. e \in Ends
  BY <1>1, EntryFacts DEF IInv, PeerInv
<1>3. rx[e] \notin {"none", "backlog"}
  BY <1>1 DEF IInv, PeerInv, AnnouncedInv
<1>4. Plain(k) \in Frame
  BY FrameFacts
<1>5. /\ UNCHANGED <<up, peers, link, cut, eof, endVars, dialVars>>
      /\ \/ wire' = Write(wire, e, Plain(k)) /\ writing' = writing
         \/ wire' = wire /\ writing' = [writing EXCEPT ![m] = [sock |-> e, type |-> k]]
  BY DEF sendJson
<1> HIDE DEF e
<1>6. CASE wire' = Write(wire, e, Plain(k)) /\ writing' = writing
  <2>1. Carries(e) => registered[Other(e)] \/ wire[Other(e)] # << >>
    BY <1>2, <1>3, WriterFacts
  <2> QED
    BY <1>2, <1>4, <1>5, <1>6, <2>1, WriteKeeps
<1>7. CASE wire' = wire /\ writing' = [writing EXCEPT ![m] = [sock |-> e, type |-> k]]
  <2> USE DEF IInv, PeerInv, endVars, dialVars
  <2>1. [sock |-> e, type |-> k] \in Writing /\ [sock |-> e, type |-> k].sock = e
    BY <1>2 DEF Writing
  <2>2. /\ writing' \in [Modules -> Writing \cup {NULL}]
        /\ \A n \in Modules : writing'[n] # NULL => \/ writing'[n] = writing[n]
                                                    \/ writing'[n].sock = e
    BY <1>7, <2>1 DEF TypeOK
  <2>3. TypeOK'
    BY <1>5, <1>7, <2>2 DEF TypeOK
  <2>4. StageInv' /\ OpenInv' /\ RegisterFirst' /\ DoneInv' /\ DialTruthful'
    BY <1>5, <1>7 DEF StageInv, OpenInv, RegisterFirst, DoneInv, DialTruthful, Used, Owner
  <2>5. AnnouncedInv'
    <3>1. \A n \in Modules : writing'[n] # NULL => rx[writing'[n].sock] \notin {"none", "backlog"}
      BY <1>3, <2>2 DEF AnnouncedInv, Free
    <3> QED
      BY <1>5, <1>7, <3>1 DEF AnnouncedInv, Reading, Free
  <2> QED
    BY <2>3, <2>4, <2>5
<1> QED
  BY <1>5, <1>6, <1>7

LEMMA WriteEndsKeeps ==
  ASSUME IInv, NEW m \in Modules, WriteEnds(m)
  PROVE  IInv'
<1> DEFINE e == writing[m].sock
           f == Plain(writing[m].type)
<1>1. ~Free(m) /\ e \in Ends /\ f \in Frame
  BY WritingFacts, FrameFacts DEF WriteEnds, IInv, PeerInv
<1>2. rx[e] \notin {"none", "backlog"}
  BY <1>1 DEF IInv, PeerInv, AnnouncedInv
<1>3. /\ wire' = Write(wire, e, f)
      /\ writing' = [writing EXCEPT ![m] = NULL]
      /\ UNCHANGED <<up, peers, link, cut, eof, endVars, dialVars>>
  BY DEF WriteEnds
<1> HIDE DEF e, f
<1>4. Carries(e) => registered[Other(e)] \/ wire[Other(e)] # << >>
  BY <1>1, <1>2, WriterFacts
<1> QED
  BY <1>1, <1>3, <1>4, WriteKeeps

LEMMA BeatKeeps ==
  ASSUME IInv, NEW e \in Ends, sendHearBeat(e)
  PROVE  IInv'
<1>1. rx[e] \notin {"none", "backlog"}
  BY DEF sendHearBeat, IInv, PeerInv, StageInv
<1>2. Carries(e) => registered[Other(e)] \/ wire[Other(e)] # << >>
  BY <1>1, WriterFacts
<1>3. /\ wire' = Write(wire, e, Plain("other")) /\ Plain("other") \in Frame
      /\ writing' = writing
      /\ UNCHANGED <<up, peers, link, cut, eof, endVars, dialVars>>
  BY FrameFacts DEF sendHearBeat
<1> QED
  BY <1>2, <1>3, WriteKeeps

\* A new connection: the registration is under way before anybody reads.
LEMMA ConnectKeeps ==
  ASSUME IInv, NEW l \in Links, Connect(l)
  PROVE  IInv'
<1> USE DEF IInv, PeerInv
<1> DEFINE c == <<l, "CLIENT">>
           s == <<l, "SERVER">>
           r == Register(OwnUri[link[l].client])
<1>1. /\ c \in Ends /\ s \in Ends /\ c # s /\ Other(c) = s /\ Other(s) = c /\ c[1] = l /\ s[1] = l
      /\ \A k \in Links : k # l => /\ <<k, "CLIENT">> \in Ends \ {c, s}
                                    /\ <<k, "SERVER">> \in Ends \ {c, s}
  BY EndFacts
<1>2. Used(l) /\ Owner(c) = link[l].client /\ Owner(s) = HostOf[link[l].addr]
  BY DEF Connect, StageInv, Owner
<1>3. r \in Frame /\ r.type = "Register_Message"
  <2>1. OwnUri[link[l].client] \in Uris \cup {NULL}
    BY <1>1, <1>2, OwnerFacts, UriAssumption
  <2> QED
    BY <2>1, FrameFacts
<1>4. /\ up[Owner(c)] /\ up[Owner(s)] /\ dial[l] = "checked"
      /\ wire' = [wire EXCEPT ![s] = <<r>>]
      /\ rx' = [rx EXCEPT ![c] = "reading", ![s] = "backlog"]
      /\ dial' = [dial EXCEPT ![l] = "spinning"]
      /\ UNCHANGED <<up, peers, writing, link, cut, eof, peerUri, registered, beat, isDone>>
  BY <1>2 DEF Connect
<1>5. rx[c] = "none" /\ rx[s] = "none" /\ isDone[l] = "unset"
  BY <1>1, <1>4 DEF StageInv
<1> HIDE DEF c, s, r
<1>6. /\ \A e \in Ends : /\ rx'[e] = IF e = c THEN "reading" ELSE IF e = s THEN "backlog" ELSE rx[e]
                         /\ wire'[e] = IF e = s THEN <<r>> ELSE wire[e]
      /\ \A k \in Links : dial'[k] = IF k = l THEN "spinning" ELSE dial[k]
      /\ rx'[c] = "reading" /\ rx'[s] = "backlog"
  BY <1>1, <1>4 DEF TypeOK
<1>7. TypeOK'
  <2>1. wire' \in [Ends -> Seq(Frame)]
    BY <1>1, <1>3, <1>4 DEF TypeOK
  <2>2. rx' \in [Ends -> {"none", "backlog", "reading", "closing", "done"}]
    BY <1>1, <1>4 DEF TypeOK
  <2>3. dial' \in [Links -> {"none", "checked", "spinning", "true", "false", "dead"}]
    BY <1>4 DEF TypeOK
  <2> QED
    BY <1>4, <2>1, <2>2, <2>3 DEF TypeOK
<1>8. StageInv'
  <2>1. ASSUME NEW k \in Links
        PROVE  /\ link'[k] = NULL => dial'[k] = "none"
               /\ dial'[k] \in {"none", "checked"} => rx'[<<k, "CLIENT">>] = "none"
               /\ rx'[<<k, "CLIENT">>] = "none" => isDone'[k] = "unset"
               /\ rx'[<<k, "CLIENT">>] = "none" <=> rx'[<<k, "SERVER">>] = "none"
    <3>1. CASE k = l
      <4>1. rx'[<<l, "CLIENT">>] = "reading" /\ rx'[<<l, "SERVER">>] = "backlog"
        BY <1>6 DEF c, s
      <4>2. dial'[l] = "spinning" /\ link'[l] # NULL
        BY <1>2, <1>4, <1>6 DEF Used
      <4> QED
        BY <3>1, <4>1, <4>2
    <3>2. CASE k # l
      <4>1. /\ rx'[<<k, "CLIENT">>] = rx[<<k, "CLIENT">>] /\ rx'[<<k, "SERVER">>] = rx[<<k, "SERVER">>]
            /\ dial'[k] = dial[k] /\ link'[k] = link[k] /\ isDone'[k] = isDone[k]
        BY <1>1, <1>4, <1>6, <3>2
      <4> QED
        BY <4>1 DEF StageInv, Used
    <3> QED
      BY <3>1, <3>2
  <2>2. ASSUME NEW e \in Ends
        PROVE  /\ rx'[e] # "none" => link'[e[1]] # NULL
               /\ rx'[e] \in {"none", "backlog"} => ~registered'[e] /\ ~beat'[e]
               /\ ~registered'[e] => peerUri'[e] = NULL
    <3>1. link[e[1]] # NULL => link'[e[1]] # NULL
      BY <1>4
    <3>2. /\ rx[e] # "none" => link[e[1]] # NULL
          /\ rx[e] \in {"none", "backlog"} => ~registered[e] /\ ~beat[e]
          /\ ~registered[e] => peerUri[e] = NULL
      BY DEF StageInv, Used
    <3>3. /\ registered'[e] = registered[e] /\ beat'[e] = beat[e] /\ peerUri'[e] = peerUri[e]
          /\ rx'[e] = rx[e] \/ (rx[e] = "none" /\ e[1] = l)
      BY <1>1, <1>4, <1>5, <1>6
    <3> QED
      BY <1>2, <3>1, <3>2, <3>3 DEF Used
  <2> QED
    BY <2>1, <2>2 DEF StageInv, Used
<1>9. OpenInv'
  <2> SUFFICES ASSUME NEW e \in Ends
               PROVE  /\ rx'[e] \in {"backlog", "reading", "closing"} => up[Owner(e)]
                      /\ rx'[e] \in {"closing", "done"} => eof[e] /\ wire'[e] = << >>
                      /\ eof[e] /\ ~cut[e[1]] => eof[Other(e)]
    BY <1>4 DEF OpenInv, Owner
  <2>1. CASE e = c \/ e = s
    <3>1. rx'[e] \in {"reading", "backlog"} /\ up[Owner(e)]
      BY <1>4, <1>6, <2>1
    <3> QED
      BY <3>1 DEF OpenInv
  <2>2. CASE e # c /\ e # s
    <3>1. rx'[e] = rx[e] /\ wire'[e] = wire[e]
      BY <1>6, <2>2
    <3> QED
      BY <3>1 DEF OpenInv
  <2> QED
    BY <2>1, <2>2
<1>10. RegisterFirst'
  BY <1>3, <1>4, <1>6 DEF RegisterFirst
<1>11. AnnouncedInv'
  <2>1. ASSUME NEW e \in Ends, rx'[e] = "reading", ~cut[e[1]], ~eof[Other(e)]
        PROVE  registered[Other(e)] \/ wire'[Other(e)] # << >>
    <3>1. CASE e = c
      BY <1>1, <1>6, <3>1
    <3>2. CASE e # c
      <4>1. rx[e] = "reading" /\ Other(e) \in Ends
        BY <1>6, <2>1, <3>2, EndFacts
      <4> QED
        BY <1>6, <2>1, <4>1 DEF AnnouncedInv, Reading, Free
    <3> QED
      BY <3>1, <3>2
  <2>2. ASSUME NEW m \in Modules, NEW i \in DOMAIN peers[m]
        PROVE  rx'[peers[m][i].sock] \notin {"none", "backlog"}
    <3>1. rx[peers[m][i].sock] \notin {"none", "backlog"} /\ peers[m][i].sock \in Ends
      BY EntryFacts DEF AnnouncedInv, Free
    <3> QED
      BY <1>5, <1>6, <3>1
  <2>3. ASSUME NEW m \in Modules, ~Free(m)
        PROVE  rx'[writing[m].sock] \notin {"none", "backlog"}
    <3>1. rx[writing[m].sock] \notin {"none", "backlog"} /\ writing[m].sock \in Ends
      BY <2>3, WritingFacts DEF AnnouncedInv
    <3> QED
      BY <1>5, <1>6, <3>1
  <2> QED
    BY <1>4, <2>1, <2>2, <2>3 DEF AnnouncedInv, Reading, Free
<1>12. DoneInv' /\ DialTruthful'
  <2> SUFFICES ASSUME NEW k \in Links
               PROVE  LET a == <<k, "CLIENT">>
                      IN  /\ isDone[k] = "set" => registered[a] \/ rx'[a] = "done"
                          /\ isDone[k] = "freed" => rx'[a] = "done"
                          /\ dial'[k] = "true" => registered[a] \/ rx'[a] = "done"
    BY <1>4 DEF DoneInv, DialTruthful
  <2>1. CASE k = l
    BY <1>5, <1>6, <2>1
  <2>2. CASE k # l
    <3>1. rx'[<<k, "CLIENT">>] = rx[<<k, "CLIENT">>] /\ dial'[k] = dial[k]
      BY <1>1, <1>6, <2>2
    <3> QED
      BY <3>1 DEF DoneInv, DialTruthful
  <2> QED
    BY <2>1, <2>2
<1> QED
  BY <1>7, <1>8, <1>9, <1>10, <1>11, <1>12

LEMMA AcceptKeeps ==
  ASSUME IInv, NEW l \in Links, AcceptPeer(l)
  PROVE  IInv'
<1> USE DEF IInv, PeerInv
<1> DEFINE c == <<l, "CLIENT">>
           s == <<l, "SERVER">>
           f == Register(OwnUri[Owner(s)])
<1>1. c \in Ends /\ s \in Ends /\ c # s /\ Other(c) = s /\ Other(s) = c /\ c[1] = l /\ s[1] = l
  BY EndFacts
<1>2. /\ rx[s] = "backlog" /\ wire' = Write(wire, s, f)
      /\ rx' = [rx EXCEPT ![s] = "reading"]
      /\ UNCHANGED <<up, peers, writing, link, cut, eof, peerUri, registered, beat, dialVars>>
  BY DEF AcceptPeer
<1>3. Used(l)
  BY <1>1, <1>2 DEF StageInv
<1>4. f \in Frame /\ f.type = "Register_Message"
  <2>1. OwnUri[Owner(s)] \in Uris \cup {NULL}
    BY <1>1, <1>3, OwnerFacts, UriAssumption
  <2> QED
    BY <2>1, FrameFacts
<1> HIDE DEF c, s, f
<1>5. /\ wire' \in [Ends -> Seq(Frame)] /\ Extends(wire', wire)
      /\ \A d \in Ends : d # c \/ ~Carries(s) => wire'[d] = wire[d]
      /\ Carries(s) => wire'[c] # << >>
      /\ Carries(s) /\ wire[c] = << >> => Head(wire'[c]) = f
  BY <1>1, <1>2, <1>4, WriteFacts
<1>6. \A e \in Ends : rx'[e] = IF e = s THEN "reading" ELSE rx[e]
  BY <1>1, <1>2 DEF TypeOK
<1>7. TypeOK'
  BY <1>1, <1>2, <1>5 DEF TypeOK, dialVars
<1>8. StageInv'
  <2>1. rx[c] # "none"
    BY <1>1, <1>2 DEF StageInv, c, s
  <2>2. \A e \in Ends : rx'[e] = "none" <=> rx[e] = "none"
    BY <1>2, <1>6
  <2>3. \A k \in Links : <<k, "CLIENT">> \in Ends /\ <<k, "SERVER">> \in Ends
    BY EndFacts
  <2> QED
    BY <1>2, <1>3, <1>6, <2>2, <2>3 DEF StageInv, Used, dialVars
<1>9. OpenInv'
  <2>1. ASSUME NEW e \in Ends, rx'[e] \in {"closing", "done"}
        PROVE  eof[e] /\ wire'[e] = << >>
    <3>1. rx[e] \in {"closing", "done"}
      BY <1>6, <2>1
    <3>2. eof[e] /\ wire[e] = << >>
      BY <3>1 DEF OpenInv
    <3>3. e # c \/ ~Carries(s)
      BY <1>1, <3>2 DEF Carries
    <3> QED
      BY <1>5, <3>2, <3>3
  <2>2. \A e \in Ends : rx'[e] \in {"backlog", "reading", "closing"} => rx[e] \in {"backlog", "reading", "closing"}
    BY <1>2, <1>6
  <2> QED
    BY <1>2, <2>1, <2>2 DEF OpenInv, Owner
<1>10. RegisterFirst'
  <2> SUFFICES ASSUME NEW d \in Ends, ~registered[d], wire'[d] # << >>
               PROVE  Head(wire'[d]).type = "Register_Message"
    BY <1>2 DEF RegisterFirst
  <2>1. CASE wire[d] # << >>
    BY <1>5, <2>1 DEF RegisterFirst, Extends
  <2>2. CASE wire[d] = << >>
    BY <1>4, <1>5, <2>2
  <2> QED
    BY <2>1, <2>2
<1>11. AnnouncedInv'
  <2>1. ASSUME NEW e \in Ends, rx'[e] = "reading", ~cut[e[1]], ~eof[Other(e)]
        PROVE  registered[Other(e)] \/ wire'[Other(e)] # << >>
    <3>1. CASE e = s
      <4>1. rx[c] \in {"backlog", "reading", "closing"}
        <5>1. rx[c] # "none" /\ rx[c] # "done"
          BY <1>1, <1>2, <2>1, <3>1 DEF StageInv, OpenInv, c, s
        <5> QED
          BY <1>1, <5>1 DEF TypeOK
      <4>2. up[Owner(c)]
        BY <1>1, <4>1 DEF OpenInv
      <4>3. ~eof[s]
        BY <1>1, <2>1, <3>1 DEF OpenInv
      <4>4. Carries(s)
        BY <1>1, <2>1, <3>1, <4>2, <4>3 DEF Carries
      <4> QED
        BY <1>1, <1>5, <3>1, <4>4
    <3>2. CASE e # s
      <4>1. rx[e] = "reading" /\ Other(e) \in Ends
        BY <1>6, <2>1, <3>2, EndFacts
      <4> QED
        BY <1>5, <2>1, <4>1 DEF AnnouncedInv, Reading, Extends, Free
    <3> QED
      BY <3>1, <3>2
  <2>2. ASSUME NEW m \in Modules, NEW i \in DOMAIN peers[m]
        PROVE  rx'[peers[m][i].sock] \notin {"none", "backlog"}
    <3>1. rx[peers[m][i].sock] \notin {"none", "backlog"} /\ peers[m][i].sock \in Ends
      BY EntryFacts DEF AnnouncedInv, Free
    <3> QED
      BY <1>6, <3>1
  <2>3. ASSUME NEW m \in Modules, ~Free(m)
        PROVE  rx'[writing[m].sock] \notin {"none", "backlog"}
    <3>1. rx[writing[m].sock] \notin {"none", "backlog"} /\ writing[m].sock \in Ends
      BY <2>3, WritingFacts DEF AnnouncedInv
    <3> QED
      BY <1>6, <3>1
  <2> QED
    BY <1>2, <2>1, <2>2, <2>3 DEF AnnouncedInv, Reading, Free
<1>12. DoneInv' /\ DialTruthful'
  <2>1. \A k \in Links : <<k, "CLIENT">> # s /\ <<k, "CLIENT">> \in Ends
    BY EndFacts DEF s
  <2> QED
    BY <1>2, <1>6, <2>1 DEF DoneInv, DialTruthful, dialVars
<1> QED
  BY <1>7, <1>8, <1>9, <1>10, <1>11, <1>12

-----------------------------------------------------------------------------
(* The receive threads.                                                      *)

\* One frame less at e.
LEMMA ArrivedFacts ==
  ASSUME IInv, NEW e \in Ends, NEW types, Arrived(e, types)
  PROVE  /\ rx[e] = "reading" /\ wire[e] # << >>
         /\ Head(wire[e]) \in Frame /\ Head(wire[e]).type \in types
         /\ wire' \in [Ends -> Seq(Frame)]
         /\ \A d \in Ends : d # e => wire'[d] = wire[d]
         /\ \A d \in Ends : wire[d] = << >> => wire'[d] = << >>
<1>1. wire \in [Ends -> Seq(Frame)] /\ wire[e] # << >> /\ wire' = [wire EXCEPT ![e] = Tail(wire[e])]
  BY DEF Arrived, IInv, PeerInv, TypeOK
<1>2. wire[e] \in Seq(Frame) /\ Head(wire[e]) \in Frame /\ Tail(wire[e]) \in Seq(Frame)
  BY <1>1
<1> QED
  BY <1>1, <1>2 DEF Arrived, Reading

LEMMA RegisterKeeps ==
  ASSUME IInv, NEW e \in Ends, ReceiveRegister(e)
  PROVE  IInv'
<1> USE DEF IInv, PeerInv
<1> DEFINE u == UriOf(e, Head(wire[e]))
           m == Owner(e)
<1>1. /\ rx[e] = "reading" /\ wire[e] # << >>
      /\ Head(wire[e]) \in Frame /\ Head(wire[e]).type = "Register_Message"
      /\ wire' \in [Ends -> Seq(Frame)]
      /\ \A d \in Ends : d # e => wire'[d] = wire[d]
      /\ \A d \in Ends : wire[d] = << >> => wire'[d] = << >>
  <2>1. Arrived(e, {"Register_Message"})
    BY DEF ReceiveRegister
  <2> QED
    BY <2>1, ArrivedFacts
<1>2. Used(e[1]) /\ m \in Modules /\ link[e[1]] \in [client : Modules, addr : Uris]
  BY <1>1, OwnerFacts DEF StageInv
<1>3. u \in Uris \cup {NULL}
  BY <1>1, <1>2, FrameFacts DEF UriOf
<1>4. /\ ~registered[e]
      /\ peers' = [peers EXCEPT ![m] = Append(peers[m], [sock |-> e, uri |-> u])]
      /\ peerUri' = [peerUri EXCEPT ![e] = u]
      /\ registered' = [registered EXCEPT ![e] = TRUE]
      /\ beat' = [beat EXCEPT ![e] = TRUE]
      /\ isDone' = IF e[2] = "CLIENT" THEN [isDone EXCEPT ![e[1]] = "set"] ELSE isDone
      /\ UNCHANGED <<up, writing, link, cut, eof, rx, dial>>
  BY DEF ReceiveRegister
<1> HIDE DEF u, m
<1>5. peers[m] \in Seq(Entry) /\ [sock |-> e, uri |-> u] \in Entry
  BY <1>2, <1>3 DEF TypeOK, Entry
<1>6. TypeOK'
  <2>1. peers' \in [Modules -> Seq(Entry)]
    BY <1>2, <1>4, <1>5 DEF TypeOK
  <2>2. isDone' \in [Links -> {"unset", "set", "freed"}]
    BY <1>4 DEF TypeOK
  <2>3. peerUri' \in [Ends -> Uris \cup {NULL}] /\ registered' \in [Ends -> BOOLEAN] /\ beat' \in [Ends -> BOOLEAN]
    BY <1>3, <1>4 DEF TypeOK
  <2> QED
    BY <1>1, <1>4, <2>1, <2>2, <2>3 DEF TypeOK
<1>7. /\ \A d \in Ends : /\ registered'[d] <=> registered[d] \/ d = e
                         /\ beat'[d] <=> beat[d] \/ d = e
                         /\ d # e => peerUri'[d] = peerUri[d]
      /\ \A k \in Links : isDone'[k] = isDone[k] \/ (<<k, "CLIENT">> = e /\ isDone'[k] = "set")
  <2>1. e = <<e[1], e[2]>> /\ e[1] \in Links
    BY EndFacts
  <2> QED
    BY <1>4, <2>1 DEF TypeOK
<1>8. StageInv'
  <2>1. ASSUME NEW k \in Links, rx[<<k, "CLIENT">>] = "none"
        PROVE  isDone'[k] = "unset"
    <3>1. <<k, "CLIENT">> # e
      BY <1>1, <2>1
    <3>2. isDone'[k] = isDone[k]
      BY <1>7, <3>1
    <3>3. isDone[k] = "unset"
      BY <2>1 DEF StageInv
    <3> QED
      BY <3>2, <3>3
  <2>2. \A d \in Ends : /\ rx[d] \in {"none", "backlog"} => ~registered'[d] /\ ~beat'[d]
                        /\ ~registered'[d] => peerUri'[d] = NULL
    BY <1>1, <1>7 DEF StageInv
  <2> QED
    BY <1>4, <2>1, <2>2 DEF StageInv, Used
<1>9. OpenInv'
  BY <1>1, <1>4 DEF OpenInv, Owner
<1>10. RegisterFirst'
  BY <1>1, <1>7 DEF RegisterFirst
<1>11. AnnouncedInv'
  <2>1. ASSUME NEW d \in Ends, rx[d] = "reading", ~cut[d[1]], ~eof[Other(d)]
        PROVE  registered'[Other(d)] \/ wire'[Other(d)] # << >>
    <3>1. Other(d) \in Ends
      BY EndFacts
    <3>2. CASE Other(d) = e
      BY <1>7, <3>1, <3>2
    <3>3. CASE Other(d) # e
      <4>1. registered[Other(d)] \/ wire[Other(d)] # << >>
        BY <2>1 DEF AnnouncedInv, Reading, Free
      <4>2. registered'[Other(d)] = registered[Other(d)] /\ wire'[Other(d)] = wire[Other(d)]
        BY <1>1, <1>4, <3>1, <3>3 DEF TypeOK
      <4> QED
        BY <4>1, <4>2
    <3> QED
      BY <3>2, <3>3
  <2>2. ASSUME NEW k \in Modules, NEW i \in DOMAIN peers'[k]
        PROVE  rx[peers'[k][i].sock] \notin {"none", "backlog"}
    <3>1. CASE k = m
      <4>1. peers'[k] = Append(peers[m], [sock |-> e, uri |-> u])
        BY <1>2, <1>4, <3>1 DEF TypeOK
      <4>2. CASE i \in DOMAIN peers[m]
        <5>1. peers'[k][i] = peers[m][i]
          BY <1>5, <4>1, <4>2
        <5> QED
          BY <1>2, <4>2, <5>1 DEF AnnouncedInv, Free
      <4>3. CASE i \notin DOMAIN peers[m]
        <5>1. peers'[k][i] = [sock |-> e, uri |-> u]
          BY <1>5, <4>1, <4>3, <2>2
        <5> QED
          BY <1>1, <5>1
      <4> QED
        BY <4>2, <4>3
    <3>2. CASE k # m
      <4>1. peers'[k] = peers[k]
        BY <1>4, <3>2 DEF TypeOK
      <4> QED
        BY <2>2, <4>1 DEF AnnouncedInv, Free
    <3> QED
      BY <3>1, <3>2
  <2> QED
    BY <1>4, <2>1, <2>2 DEF AnnouncedInv, Reading, Free
<1>12. DoneInv' /\ DialTruthful'
  <2> SUFFICES ASSUME NEW k \in Links
               PROVE  LET a == <<k, "CLIENT">>
                      IN  /\ isDone'[k] = "set" => registered'[a] \/ rx[a] = "done"
                          /\ isDone'[k] = "freed" => rx[a] = "done"
                          /\ dial[k] = "true" => registered'[a] \/ rx[a] = "done"
    BY <1>4 DEF DoneInv, DialTruthful
  <2>1. <<k, "CLIENT">> \in Ends
    BY EndFacts
  <2> QED
    BY <1>7, <2>1 DEF DoneInv, DialTruthful
<1> QED
  BY <1>6, <1>8, <1>9, <1>10, <1>11, <1>12

\* Since the registration comes first, nothing is thrown away.
LEMMA OtherKeeps ==
  ASSUME IInv, NEW e \in Ends, ReceiveOther(e)
  PROVE  IInv'
<1> USE DEF IInv, PeerInv
<1>1. /\ rx[e] = "reading" /\ wire[e] # << >>
      /\ Head(wire[e]).type \in {"other", "quit"}
      /\ wire' \in [Ends -> Seq(Frame)]
      /\ \A d \in Ends : d # e => wire'[d] = wire[d]
      /\ \A d \in Ends : wire[d] = << >> => wire'[d] = << >>
      /\ UNCHANGED <<up, peers, writing, link, cut, eof, endVars, dialVars>>
  <2>1. Arrived(e, {"other"}) \/ Arrived(e, {"quit"})
    BY DEF ReceiveOther
  <2> QED
    BY <2>1, ArrivedFacts DEF ReceiveOther
<1>2. registered[e]
  BY <1>1 DEF RegisterFirst
<1> USE DEF endVars, dialVars
<1>3. TypeOK' /\ StageInv' /\ DoneInv' /\ DialTruthful'
  BY <1>1 DEF TypeOK, StageInv, DoneInv, DialTruthful, Used
<1>4. OpenInv'
  BY <1>1 DEF OpenInv, Owner
<1>5. RegisterFirst'
  BY <1>1, <1>2 DEF RegisterFirst
<1>6. AnnouncedInv'
  <2>1. \A d \in Ends : wire[d] # << >> => wire'[d] # << >> \/ registered[d]
    BY <1>1, <1>2
  <2> QED
    BY <1>1, <2>1, EndFacts DEF AnnouncedInv, Reading, Free
<1> QED
  BY <1>3, <1>4, <1>5, <1>6

LEMMA ClosedKeeps ==
  ASSUME IInv, NEW e \in Ends, RecvClosed(e)
  PROVE  IInv'
<1> USE DEF IInv, PeerInv
<1> DEFINE m == Owner(e)
<1>1. /\ rx[e] = "reading" /\ wire[e] = << >> /\ eof[e]
      /\ peers' = [peers EXCEPT ![m] = DelPeer(m, peerUri[e])]
      /\ rx' = [rx EXCEPT ![e] = "closing"]
      /\ UNCHANGED <<up, writing, link, cut, wire, eof, peerUri, registered, beat, dialVars>>
  BY DEF RecvClosed, Reading, netVars
<1>2. m \in Modules
  BY <1>1, OwnerFacts DEF StageInv
<1>3. up[m]
  BY <1>1 DEF OpenInv
<1> HIDE DEF m
<1>4. /\ DelPeer(m, peerUri[e]) \in Seq(Entry)
      /\ \A i \in DOMAIN DelPeer(m, peerUri[e]) :
            \E j \in DOMAIN peers[m] : DelPeer(m, peerUri[e])[i] = peers[m][j]
  BY <1>2, DelPeerFacts
<1>5. \A d \in Ends : rx'[d] = IF d = e THEN "closing" ELSE rx[d]
  BY <1>1 DEF TypeOK
<1>6. TypeOK'
  BY <1>1, <1>2, <1>4 DEF TypeOK, dialVars
<1>7. StageInv'
  <2>1. \A d \in Ends : /\ rx'[d] = "none" <=> rx[d] = "none"
                        /\ rx'[d] \in {"none", "backlog"} => rx[d] \in {"none", "backlog"}
    BY <1>1, <1>5
  <2>2. \A k \in Links : <<k, "CLIENT">> \in Ends /\ <<k, "SERVER">> \in Ends
    BY EndFacts
  <2> QED
    BY <1>1, <2>1, <2>2 DEF StageInv, Used, dialVars
<1>8. OpenInv'
  BY <1>1, <1>3, <1>5 DEF OpenInv, Owner, m
<1>9. RegisterFirst'
  BY <1>1 DEF RegisterFirst
<1>10. AnnouncedInv'
  <2>1. ASSUME NEW k \in Modules, NEW i \in DOMAIN peers'[k]
        PROVE  rx'[peers'[k][i].sock] \notin {"none", "backlog"}
    <3>1. PICK j \in DOMAIN peers[k] : peers'[k][i] = peers[k][j]
      BY <1>1, <1>2, <1>4, <2>1 DEF TypeOK
    <3>2. rx[peers[k][j].sock] \notin {"none", "backlog"} /\ peers[k][j].sock \in Ends
      BY EntryFacts DEF AnnouncedInv, Free
    <3> QED
      BY <1>5, <3>1, <3>2
  <2>2. ASSUME NEW k \in Modules, ~Free(k)
        PROVE  rx'[writing[k].sock] \notin {"none", "backlog"}
    <3>1. rx[writing[k].sock] \notin {"none", "backlog"} /\ writing[k].sock \in Ends
      BY <2>2, WritingFacts DEF AnnouncedInv
    <3> QED
      BY <1>5, <3>1
  <2>3. \A d \in Ends : rx'[d] = "reading" => rx[d] = "reading"
    BY <1>5
  <2> QED
    BY <1>1, <2>1, <2>2, <2>3 DEF AnnouncedInv, Reading, Free
<1>11. DoneInv' /\ DialTruthful'
  <2>1. \A d \in Ends : rx[d] = "done" => rx'[d] = "done"
    BY <1>1, <1>5
  <2>2. \A k \in Links : <<k, "CLIENT">> \in Ends
    BY EndFacts
  <2> QED
    BY <1>1, <2>1, <2>2 DEF DoneInv, DialTruthful, dialVars
<1> QED
  BY <1>6, <1>7, <1>8, <1>9, <1>10, <1>11

LEMMA NotifyKeeps ==
  ASSUME IInv, NEW e \in Ends, NotifyDisconnect(e)
  PROVE  IInv'
<1> USE DEF IInv, PeerInv
<1>1. /\ rx[e] = "closing" /\ rx' = [rx EXCEPT ![e] = "done"]
      /\ isDone' = IF e[2] = "CLIENT" THEN [isDone EXCEPT ![e[1]] = "freed"] ELSE isDone
      /\ peerUri' = [peerUri EXCEPT ![e] = NULL]
      /\ registered' = [registered EXCEPT ![e] = FALSE]
      /\ UNCHANGED <<up, peers, writing, link, cut, wire, eof, beat, dial>>
  BY DEF NotifyDisconnect, netVars
<1>2. eof[e] /\ wire[e] = << >>
  BY <1>1 DEF OpenInv
<1>3. /\ \A d \in Ends : /\ rx'[d] = IF d = e THEN "done" ELSE rx[d]
                         /\ registered'[d] <=> registered[d] /\ d # e
                         /\ peerUri'[d] = IF d = e THEN NULL ELSE peerUri[d]
      /\ \A k \in Links : isDone'[k] = isDone[k] \/ (<<k, "CLIENT">> = e /\ isDone'[k] = "freed")
  <2>1. e = <<e[1], e[2]>> /\ e[1] \in Links
    BY EndFacts
  <2> QED
    BY <1>1, <2>1 DEF TypeOK
<1>4. TypeOK'
  BY <1>1 DEF TypeOK
<1>5. \A k \in Links : <<k, "CLIENT">> \in Ends /\ <<k, "SERVER">> \in Ends
  BY EndFacts
<1>6. StageInv'
  <2>1. \A d \in Ends : /\ rx'[d] = "none" <=> rx[d] = "none"
                        /\ rx'[d] \in {"none", "backlog"} => rx[d] \in {"none", "backlog"}
    BY <1>1, <1>3
  <2>2. ASSUME NEW k \in Links, rx[<<k, "CLIENT">>] = "none"
        PROVE  isDone'[k] = "unset"
    <3>1. <<k, "CLIENT">> # e
      BY <1>1, <2>2
    <3>2. isDone'[k] = isDone[k]
      BY <1>3, <3>1
    <3>3. isDone[k] = "unset"
      BY <2>2 DEF StageInv
    <3> QED
      BY <3>2, <3>3
  <2>3. \A d \in Ends : /\ rx'[d] \in {"none", "backlog"} => ~registered'[d] /\ ~beat[d]
                        /\ ~registered'[d] => peerUri'[d] = NULL
    BY <1>3, <2>1 DEF StageInv
  <2> QED
    BY <1>1, <1>5, <2>1, <2>2, <2>3 DEF StageInv, Used
<1>7. OpenInv'
  BY <1>1, <1>2, <1>3 DEF OpenInv, Owner
<1>8. RegisterFirst'
  BY <1>1, <1>2, <1>3 DEF RegisterFirst
<1>9. AnnouncedInv'
  <2>1. ASSUME NEW d \in Ends, rx'[d] = "reading", ~cut[d[1]], ~eof[Other(d)]
        PROVE  registered'[Other(d)] \/ wire[Other(d)] # << >>
    <3>1. rx[d] = "reading" /\ Other(d) \in Ends /\ Other(d) # e
      BY <1>2, <1>3, <2>1, EndFacts
    <3> QED
      BY <1>3, <2>1, <3>1 DEF AnnouncedInv, Reading, Free
  <2>2. ASSUME NEW k \in Modules, NEW i \in DOMAIN peers[k]
        PROVE  rx'[peers[k][i].sock] \notin {"none", "backlog"}
    <3>1. rx[peers[k][i].sock] \notin {"none", "backlog"} /\ peers[k][i].sock \in Ends
      BY EntryFacts DEF AnnouncedInv, Free
    <3> QED
      BY <1>3, <3>1
  <2>3. ASSUME NEW k \in Modules, ~Free(k)
        PROVE  rx'[writing[k].sock] \notin {"none", "backlog"}
    <3>1. rx[writing[k].sock] \notin {"none", "backlog"} /\ writing[k].sock \in Ends
      BY <2>3, WritingFacts DEF AnnouncedInv
    <3> QED
      BY <1>3, <3>1
  <2> QED
    BY <1>1, <2>1, <2>2, <2>3 DEF AnnouncedInv, Reading, Free
<1>10. DoneInv' /\ DialTruthful'
  <2> SUFFICES ASSUME NEW k \in Links
               PROVE  LET a == <<k, "CLIENT">>
                      IN  /\ isDone'[k] = "set" => registered'[a] \/ rx'[a] = "done"
                          /\ isDone'[k] = "freed" => rx'[a] = "done"
                          /\ dial[k] = "true" => registered'[a] \/ rx'[a] = "done"
    BY <1>1 DEF DoneInv, DialTruthful
  <2> QED
    BY <1>3, <1>5 DEF DoneInv, DialTruthful
<1> QED
  BY <1>4, <1>6, <1>7, <1>8, <1>9, <1>10

-----------------------------------------------------------------------------
(* The network and the processes.                                            *)

LEMMA CutKeeps ==
  ASSUME IInv, NEW l \in Links, LinkFail(l)
  PROVE  IInv'
<1> USE DEF IInv, PeerInv, endVars, dialVars
<1> DEFINE c == <<l, "CLIENT">>
           s == <<l, "SERVER">>
<1>1. c \in Ends /\ s \in Ends /\ c # s
  BY EndFacts
<1>2. PICK w \in Prefixes(wire[c]), v \in Prefixes(wire[s]) : wire' = [wire EXCEPT ![c] = w, ![s] = v]
  BY DEF LinkFail
<1>3. cut' = [cut EXCEPT ![l] = TRUE] /\ UNCHANGED <<up, peers, writing, link, eof, endVars, dialVars>>
  BY DEF LinkFail
<1>4. ASSUME NEW e \in Ends, NEW p \in Prefixes(wire[e])
      PROVE  p \in Seq(Frame) /\ (p # << >> => wire[e] # << >> /\ Head(p) = Head(wire[e]))
  <2>1. wire[e] \in Seq(Frame)
    BY DEF TypeOK
  <2>2. PICK n \in 0..Len(wire[e]) : p = SubSeq(wire[e], 1, n)
    BY DEF Prefixes
  <2>3. /\ p \in Seq(Frame) /\ Len(p) = n
        /\ \A i \in 1..n : p[i] = wire[e][i]
    BY <2>1, <2>2, SubSeqProperties
  <2> QED
    BY <2>1, <2>2, <2>3
<1> HIDE DEF c, s
<1>5. /\ wire' \in [Ends -> Seq(Frame)]
      /\ \A e \in Ends : wire'[e] # << >> => wire[e] # << >> /\ Head(wire'[e]) = Head(wire[e])
      /\ \A e \in Ends : wire'[e] = wire[e] \/ e[1] = l
  <2>1. w \in Seq(Frame) /\ (w # << >> => wire[c] # << >> /\ Head(w) = Head(wire[c]))
    BY <1>1, <1>2, <1>4
  <2>2. v \in Seq(Frame) /\ (v # << >> => wire[s] # << >> /\ Head(v) = Head(wire[s]))
    BY <1>1, <1>2, <1>4
  <2>3. wire' \in [Ends -> Seq(Frame)]
    BY <1>1, <1>2, <2>1, <2>2 DEF TypeOK
  <2>4. \A e \in Ends : wire'[e] = IF e = s THEN v ELSE IF e = c THEN w ELSE wire[e]
    BY <1>1, <1>2 DEF TypeOK
  <2>5. c[1] = l /\ s[1] = l
    BY DEF c, s
  <2> QED
    BY <2>1, <2>2, <2>3, <2>4, <2>5
<1>6. \A k \in Links : cut'[k] <=> cut[k] \/ k = l
  BY <1>3 DEF TypeOK
<1>7. TypeOK'
  BY <1>3, <1>5 DEF TypeOK
<1>8. StageInv' /\ DoneInv' /\ DialTruthful'
  BY <1>3 DEF StageInv, DoneInv, DialTruthful, Used
<1>9. OpenInv'
  BY <1>3, <1>5, <1>6, EndFacts DEF OpenInv, Owner
<1>10. RegisterFirst'
  BY <1>3, <1>5 DEF RegisterFirst
<1>11. AnnouncedInv'
  <2>1. ASSUME NEW d \in Ends, rx[d] = "reading", ~cut'[d[1]], ~eof[Other(d)]
        PROVE  registered[Other(d)] \/ wire'[Other(d)] # << >>
    <3>1. ~cut[d[1]] /\ d[1] # l /\ Other(d) \in Ends /\ Other(d)[1] = d[1]
      BY <1>6, <2>1, EndFacts
    <3>2. wire'[Other(d)] = wire[Other(d)]
      BY <1>5, <3>1
    <3> QED
      BY <2>1, <3>1, <3>2 DEF AnnouncedInv, Reading, Free
  <2> QED
    BY <1>3, <2>1 DEF AnnouncedInv, Reading, Free
<1> QED
  BY <1>7, <1>8, <1>9, <1>10, <1>11

\* What is left of a stream that ends early.
LEMMA TruncateFacts ==
  ASSUME NEW s \in Seq(Frame), NEW n \in Nat
  PROVE  /\ Truncate(s, n) \in Seq(Frame)
         /\ Truncate(s, n) # << >> => s # << >> /\ Head(Truncate(s, n)) = Head(s)
<1> DEFINE k == IF n < Len(s) THEN n ELSE Len(s)
<1>1. k \in 0..Len(s)
  OBVIOUS
<1>2. Truncate(s, n) = SubSeq(s, 1, k)
  BY DEF Truncate
<1> HIDE DEF k
<1>3. /\ SubSeq(s, 1, k) \in Seq(Frame) /\ Len(SubSeq(s, 1, k)) = k
      /\ \A i \in 1..k : SubSeq(s, 1, k)[i] = s[i]
  BY <1>1, SubSeqProperties
<1> QED
  BY <1>1, <1>2, <1>3

\* A process that ends closes its ends, and only those that nobody cut off
\* learn of it.
LEMMA ExitKeeps ==
  ASSUME IInv, NEW m \in Modules, Exit(m, wire)
  PROVE  IInv'
<1> USE DEF IInv, PeerInv
<1> DEFINE X == EndsOf(m)
<1>1. \A e \in Ends : e \in X <=> Used(e[1]) /\ rx[e] # "none" /\ Owner(e) = m
  BY DEF EndsOf
<1>2. PICK n \in 0..MaxWire :
        wire' = [e \in Ends |-> IF e \in X THEN << >>
                                ELSE IF Other(e) \in X THEN Truncate(wire[e], n)
                                ELSE wire[e]]
  BY DEF Exit
<1>3. /\ up' = [up EXCEPT ![m] = FALSE]
      /\ peers' = [peers EXCEPT ![m] = << >>]
      /\ writing' = [writing EXCEPT ![m] = NULL]
      /\ UNCHANGED <<link, cut>>
  BY DEF Exit
<1>4. \A e \in Ends : /\ eof'[e] <=> eof[e] \/ e \in X \/ (Other(e) \in X /\ ~cut[e[1]])
                      /\ rx'[e] = IF e \in X THEN "done" ELSE rx[e]
                      /\ beat'[e] <=> beat[e] /\ e \notin X
                      /\ peerUri'[e] = IF e \in X THEN NULL ELSE peerUri[e]
                      /\ registered'[e] <=> registered[e] /\ e \notin X
  BY DEF Exit
<1>5. \A k \in Links :
        /\ dial'[k] = IF Used(k) /\ link[k].client = m /\ dial[k] # "none" THEN "dead" ELSE dial[k]
        /\ isDone'[k] = IF Used(k) /\ link[k].client = m THEN "unset" ELSE isDone[k]
  BY DEF Exit
<1>6. TypeOK'
  <2>1. wire' \in [Ends -> Seq(Frame)]
    <3>1. n \in Nat
      BY MaxWireAssumption
    <3>2. \A e \in Ends : Truncate(wire[e], n) \in Seq(Frame) /\ wire[e] \in Seq(Frame)
      BY <3>1, TruncateFacts DEF TypeOK
    <3> QED
      BY <1>2, <3>2
  <2>2. /\ peers' \in [Modules -> Seq(Entry)] /\ up' \in [Modules -> BOOLEAN]
        /\ writing' \in [Modules -> Writing \cup {NULL}]
    BY <1>3 DEF TypeOK
  <2>3. /\ eof' \in [Ends -> BOOLEAN] /\ beat' \in [Ends -> BOOLEAN] /\ registered' \in [Ends -> BOOLEAN]
        /\ rx' \in [Ends -> {"none", "backlog", "reading", "closing", "done"}]
        /\ peerUri' \in [Ends -> Uris \cup {NULL}]
    BY DEF Exit, TypeOK
  <2>4. /\ dial' \in [Links -> {"none", "checked", "spinning", "true", "false", "dead"}]
        /\ isDone' \in [Links -> {"unset", "set", "freed"}]
    BY DEF Exit, TypeOK
  <2> QED
    BY <1>3, <2>1, <2>2, <2>3, <2>4 DEF TypeOK
<1> HIDE DEF X
<1>7. /\ \A e \in Ends : wire'[e] # << >> => e \notin X /\ wire[e] # << >> /\ Head(wire'[e]) = Head(wire[e])
      /\ \A e \in Ends : e \in X => wire'[e] = << >>
      /\ \A e \in Ends : e \notin X /\ Other(e) \notin X => wire'[e] = wire[e]
  <2>1. n \in Nat
    BY MaxWireAssumption
  <2>2. \A e \in Ends : Truncate(wire[e], n) # << >> =>
                           wire[e] # << >> /\ Head(Truncate(wire[e], n)) = Head(wire[e])
    BY <2>1, TruncateFacts DEF TypeOK
  <2> QED
    BY <1>2, <2>2
<1>8. \A k \in Links : <<k, "CLIENT">> \in X => Used(k) /\ link[k].client = m
  <2> TAKE k \in Links
  <2>1. <<k, "CLIENT">> \in Ends
    BY EndFacts
  <2>2. Owner(<<k, "CLIENT">>) = link[k].client
    BY DEF Owner
  <2> QED
    BY <1>1, <2>1, <2>2
<1>9. StageInv'
  <2>1. \A e \in Ends : /\ rx'[e] = "none" <=> rx[e] = "none"
                        /\ rx'[e] \in {"none", "backlog"} => e \notin X /\ rx[e] \in {"none", "backlog"}
    BY <1>1, <1>4
  <2>2. ASSUME NEW k \in Links
        PROVE  /\ ~Used(k) => dial'[k] = "none"
               /\ dial'[k] \in {"none", "checked"} => rx'[<<k, "CLIENT">>] = "none"
               /\ rx'[<<k, "CLIENT">>] = "none" => isDone'[k] = "unset"
               /\ rx'[<<k, "CLIENT">>] = "none" <=> rx'[<<k, "SERVER">>] = "none"
    <3>1. <<k, "CLIENT">> \in Ends /\ <<k, "SERVER">> \in Ends
      BY EndFacts
    <3> QED
      BY <1>5, <2>1, <3>1 DEF StageInv
  <2>3. \A e \in Ends : /\ rx'[e] # "none" => Used(e[1])
                        /\ rx'[e] \in {"none", "backlog"} => ~registered'[e] /\ ~beat'[e]
                        /\ ~registered'[e] => peerUri'[e] = NULL
    BY <1>4, <2>1 DEF StageInv
  <2> QED
    BY <1>3, <2>2, <2>3 DEF StageInv, Used
<1>10. OpenInv'
  <2> SUFFICES ASSUME NEW e \in Ends
               PROVE  /\ rx'[e] \in {"backlog", "reading", "closing"} => up'[Owner(e)]
                      /\ rx'[e] \in {"closing", "done"} => eof'[e] /\ wire'[e] = << >>
                      /\ eof'[e] /\ ~cut[e[1]] => eof'[Other(e)]
    BY <1>3 DEF OpenInv, Owner
  <2>1. ASSUME rx'[e] \in {"backlog", "reading", "closing"}
        PROVE  up'[Owner(e)]
    <3>1. e \notin X /\ rx[e] \in {"backlog", "reading", "closing"}
      BY <1>4, <2>1
    <3>2. Used(e[1]) /\ up[Owner(e)]
      BY <3>1 DEF StageInv, OpenInv
    <3>3. Owner(e) \in Modules /\ Owner(e) # m
      BY <1>1, <3>1, <3>2, OwnerFacts
    <3> QED
      BY <1>3, <3>2, <3>3 DEF TypeOK
  <2>2. rx'[e] \in {"closing", "done"} => eof'[e] /\ wire'[e] = << >>
    BY <1>4, <1>7 DEF OpenInv
  <2>3. eof'[e] /\ ~cut[e[1]] => eof'[Other(e)]
    <3>1. Other(e) \in Ends /\ Other(e)[1] = e[1] /\ Other(Other(e)) = e
      BY EndFacts
    <3> QED
      BY <1>4, <3>1 DEF OpenInv
  <2> QED
    BY <2>1, <2>2, <2>3
<1>11. RegisterFirst'
  BY <1>4, <1>7 DEF RegisterFirst
<1>12. AnnouncedInv'
  <2>1. ASSUME NEW d \in Ends, rx'[d] = "reading", ~cut[d[1]], ~eof'[Other(d)]
        PROVE  registered'[Other(d)] \/ wire'[Other(d)] # << >>
    <3>1. Other(d) \in Ends /\ Other(d)[1] = d[1] /\ Other(Other(d)) = d
      BY EndFacts
    <3>2. d \notin X /\ rx[d] = "reading" /\ Other(d) \notin X /\ ~eof[Other(d)]
      BY <1>4, <2>1, <3>1
    <3>3. registered[Other(d)] \/ wire[Other(d)] # << >>
      BY <2>1, <3>2 DEF AnnouncedInv, Reading, Free
    <3> QED
      BY <1>4, <1>7, <3>1, <3>2, <3>3
  <2>2. ASSUME NEW k \in Modules, NEW i \in DOMAIN peers'[k]
        PROVE  rx'[peers'[k][i].sock] \notin {"none", "backlog"}
    <3>1. k # m /\ peers'[k] = peers[k]
      BY <1>3, <2>2 DEF TypeOK
    <3>2. rx[peers[k][i].sock] \notin {"none", "backlog"} /\ peers[k][i].sock \in Ends
      BY <2>2, <3>1, EntryFacts DEF AnnouncedInv, Free
    <3> QED
      BY <1>4, <3>1, <3>2
  <2>3. ASSUME NEW k \in Modules, writing'[k] # NULL
        PROVE  rx'[writing'[k].sock] \notin {"none", "backlog"}
    <3>1. writing'[k] = writing[k] /\ ~Free(k)
      BY <1>3, <2>3 DEF TypeOK, Free
    <3>2. rx[writing[k].sock] \notin {"none", "backlog"} /\ writing[k].sock \in Ends
      BY <3>1, WritingFacts DEF AnnouncedInv
    <3> QED
      BY <1>4, <3>1, <3>2
  <2> QED
    BY <1>3, <2>1, <2>2, <2>3 DEF AnnouncedInv, Reading, Free
<1>13. DoneInv' /\ DialTruthful'
  <2> SUFFICES ASSUME NEW k \in Links
               PROVE  LET a == <<k, "CLIENT">>
                      IN  /\ isDone'[k] = "set" => registered'[a] \/ rx'[a] = "done"
                          /\ isDone'[k] = "freed" => rx'[a] = "done"
                          /\ dial'[k] = "true" => registered'[a] \/ rx'[a] = "done"
    BY DEF DoneInv, DialTruthful
  <2>1. <<k, "CLIENT">> \in Ends
    BY EndFacts
  <2>2. CASE <<k, "CLIENT">> \in X
    BY <1>4, <2>1, <2>2
  <2>3. CASE <<k, "CLIENT">> \notin X
    BY <1>4, <1>5, <2>1, <2>3 DEF DoneInv, DialTruthful
  <2> QED
    BY <2>2, <2>3
<1> QED
  BY <1>6, <1>9, <1>10, <1>11, <1>12, <1>13

-----------------------------------------------------------------------------
LEMMA NextInv ==
  ASSUME IInv, [Next]_vars
  PROVE  IInv'
<1>1. ASSUME NEW l \in Links, DialStep(l) \/ AcceptPeer(l) \/ LinkFail(l)
      PROVE  IInv'
  BY <1>1, DialKeeps, ConnectKeeps, AcceptKeeps, CutKeeps DEF DialStep
<1>2. ASSUME NEW e \in Ends, LockedStep(e) \/ ReceiveStep(e)
      PROVE  IInv'
  <2>1. ASSUME ReceiveQuit(e)
        PROVE  IInv'
    <3>1. Owner(e) \in Modules
      BY <2>1, OwnerFacts DEF ReceiveQuit, Reading, IInv, PeerInv, StageInv
    <3> QED
      BY <2>1, <3>1, ExitKeeps DEF ReceiveQuit
  <2> QED
    BY <1>2, <2>1, RegisterKeeps, OtherKeeps, ClosedKeeps, NotifyKeeps DEF LockedStep, ReceiveStep
<1>3. ASSUME NEW e \in Ends, sendHearBeat(e) \/ HeartBeatFails(e) \/ LossDetected(e)
      PROVE  IInv'
  BY <1>3, BeatKeeps, SmallKeeps
<1>4. ASSUME NEW m \in Modules, NEW u \in Uris \cup {NULL}, NEW k \in Kinds[m], sendJson(m, u, k)
      PROVE  IInv'
  <2>1. k \in {"other", "quit"}
    BY UriAssumption
  <2> QED
    BY <1>4, <2>1, SendKeeps
<1>5. ASSUME NEW m \in Modules, WriteEnds(m) \/ Crash(m) \/ Restart(m)
      PROVE  IInv'
  BY <1>5, WriteEndsKeeps, ExitKeeps, SmallKeeps DEF Crash
<1>6. CASE UNCHANGED vars
  BY <1>6 DEF vars, netVars, endVars, dialVars, IInv, PeerInv, TypeOK, StageInv, OpenInv, Owner,
              RegisterFirst, AnnouncedInv, DoneInv, DialTruthful, Reading, Used, Free
<1> QED
  BY <1>1, <1>2, <1>3, <1>4, <1>5, <1>6 DEF Next

\* Whatever dies, is cut or comes back: both ends of a connection announce
\* themselves before they send anything else, a thread reads only while its
\* process runs, and a set isDone stands for a registered connection or for
\* one that has ended (PeerManager.cpp:69-176, 270-311).
THEOREM PeerInvariant == Spec => []PeerInv
<1>1. IInv => PeerInv
  BY DEF IInv
<1> QED
  BY <1>1, InitInv, NextInv, PTL DEF Spec

\* createTcpConnectionTo never returns true for a connection that has neither
\* registered nor ended (PeerManager.cpp:291-299).
THEOREM DialCorrect == Spec => []DialTruthful
<1>1. IInv => DialTruthful
  BY DEF IInv
<1> QED
  BY <1>1, InitInv, NextInv, PTL DEF Spec

-----------------------------------------------------------------------------
(* The table: TableCounts holds because every step moves an entry and a      *)
(* registered connection together.                                           *)

Places(s, u) == {i \in DOMAIN s : s[i].uri = u}

LEMMA PlacesFinite ==
  ASSUME NEW s \in Seq(Entry), NEW u
  PROVE  IsFiniteSet(Places(s, u))
<1>1. IsFiniteSet(1..Len(s))
  BY FS_Interval
<1>2. Places(s, u) \subseteq 1..Len(s)
  BY DEF Places
<1> QED
  BY <1>1, <1>2, FS_Subset

LEMMA AppendPlaces ==
  ASSUME NEW s \in Seq(Entry), NEW p \in Entry, NEW u
  PROVE  Cardinality(Places(Append(s, p), u))
           = IF p.uri = u THEN Cardinality(Places(s, u)) + 1 ELSE Cardinality(Places(s, u))
<1> DEFINE n == Len(s) + 1
<1>1. /\ n \in Nat /\ DOMAIN s = 1..Len(s) /\ DOMAIN Append(s, p) = 1..n
      /\ Append(s, p)[n] = p
      /\ \A i \in 1..Len(s) : Append(s, p)[i] = s[i]
  OBVIOUS
<1>2. n \notin Places(s, u)
  BY <1>1 DEF Places
<1>3. \A i : i \in 1..n <=> i \in 1..Len(s) \/ i = n
  BY <1>1
<1> HIDE DEF n
<1>4. CASE p.uri = u
  <2>1. Places(Append(s, p), u) = Places(s, u) \cup {n}
    BY <1>1, <1>3, <1>4 DEF Places
  <2> QED
    <3> DEFINE P == Places(s, u)
    <3>1. IsFiniteSet(P) /\ n \notin P
      BY <1>2, PlacesFinite
    <3> HIDE DEF P
    <3>2. Cardinality(P \cup {n}) = Cardinality(P) + 1
      BY <3>1, FS_AddElement
    <3> QED
      BY <1>4, <2>1, <3>2 DEF P
<1>5. CASE p.uri # u
  <2>1. Places(Append(s, p), u) = Places(s, u)
    BY <1>1, <1>3, <1>5 DEF Places
  <2> QED
    BY <1>5, <2>1
<1> QED
  BY <1>4, <1>5

LEMMA RemovePlaces ==
  ASSUME NEW s \in Seq(Entry), NEW k \in 1..Len(s), NEW u
  PROVE  Cardinality(Places(RemoveAt(s, k), u))
           = IF s[k].uri = u THEN Cardinality(Places(s, u)) - 1 ELSE Cardinality(Places(s, u))
<1> DEFINE r == RemoveAt(s, k)
           S == Places(s, u) \ {k}
           T == Places(r, u)
           f == [i \in S |-> IF i < k THEN i ELSE i - 1]
<1>1. /\ r \in Seq(Entry) /\ Len(r) = Len(s) - 1
      /\ \A i \in 1..Len(s) - 1 : r[i] = s[IF i < k THEN i ELSE i + 1]
  BY RemoveAtFacts
<1>2. DOMAIN s = 1..Len(s) /\ DOMAIN r = 1..Len(s) - 1 /\ Len(s) \in Nat /\ k \in Nat
  BY <1>1
<1> HIDE DEF r
<1>3. \A i \in S : i \in 1..Len(s) /\ i # k /\ s[i].uri = u
  BY <1>2 DEF Places
<1>4. \A j \in T : j \in 1..Len(s) - 1 /\ r[j].uri = u
  BY <1>2 DEF Places
<1>5. f \in [S -> T]
  <2> SUFFICES ASSUME NEW i \in S
               PROVE  (IF i < k THEN i ELSE i - 1) \in T
    OBVIOUS
  <2>1. CASE i < k
    <3>1. i \in 1..Len(s) - 1 /\ r[i] = s[i]
      BY <1>1, <1>2, <1>3, <2>1
    <3> QED
      BY <1>2, <1>3, <2>1, <3>1 DEF Places
  <2>2. CASE ~(i < k)
    <3>1. i - 1 \in 1..Len(s) - 1 /\ ~(i - 1 < k) /\ (i - 1) + 1 = i
      BY <1>2, <1>3, <2>2
    <3>2. r[i - 1] = s[i]
      BY <1>1, <3>1
    <3> QED
      BY <1>2, <1>3, <2>2, <3>1, <3>2 DEF Places
  <2> QED
    BY <2>1, <2>2
<1>6. \A i, j \in S : f[i] = f[j] => i = j
  BY <1>2, <1>3
<1>7. \A j \in T : \E i \in S : f[i] = j
  <2> TAKE j \in T
  <2> DEFINE i == IF j < k THEN j ELSE j + 1
  <2>1. /\ i \in 1..Len(s) /\ i # k /\ r[j] = s[i]
        /\ (IF i < k THEN i ELSE i - 1) = j
    BY <1>1, <1>2, <1>4
  <2> HIDE DEF i
  <2>2. i \in S
    BY <1>2, <1>4, <2>1 DEF Places
  <2> QED
    BY <2>1, <2>2
<1> HIDE DEF f, S, T
<1>8. ExistsBijection(S, T)
  <2>1. f \in Injection(S, T)
    BY <1>5, <1>6 DEF Injection, IsInjective
  <2>2. f \in Surjection(S, T)
    BY <1>5, <1>7 DEF Surjection
  <2> QED
    BY <2>1, <2>2 DEF ExistsBijection, Bijection
<1>9. IsFiniteSet(S) /\ Cardinality(S) = IF k \in Places(s, u) THEN Cardinality(Places(s, u)) - 1
                                         ELSE Cardinality(Places(s, u))
  BY PlacesFinite, FS_RemoveElement DEF S
<1>10. Cardinality(T) = Cardinality(S)
  BY <1>8, <1>9, FS_Bijection
<1>11. k \in Places(s, u) <=> s[k].uri = u
  BY <1>2 DEF Places
<1> QED
  BY <1>9, <1>10, <1>11 DEF T, r

LEMMA EndsFinite == IsFiniteSet(Ends)
<1>1. IsFiniteSet(Sides)
  <2>1. IsFiniteSet({"CLIENT"})
    BY FS_Singleton
  <2>2. Sides = {"CLIENT"} \cup {"SERVER"}
    BY DEF Sides
  <2> QED
    BY <2>1, <2>2, FS_AddElement
<1> QED
  BY <1>1, LinksAssumption, FS_Product DEF Ends

LEMMA LiveFinite ==
  ASSUME NEW m, NEW u
  PROVE  IsFiniteSet(LiveEnds(m, u))
<1>1. LiveEnds(m, u) \subseteq Ends
  BY DEF LiveEnds, EndsOf
<1> QED
  BY <1>1, EndsFinite, FS_Subset

\* What thisPeeruri and an entry can hold.
Addresses == Uris \cup {NULL}

\* e counts for the address u in the table of m.
Live(m, u, e) == /\ Used(e[1]) /\ Owner(e) = m
                 /\ rx[e] = "reading" /\ registered[e] /\ peerUri[e] = u

LEMMA SameCounts ==
  ASSUME TableCounts, peers' = peers,
         \A m \in Modules, u \in Addresses : \A e \in Ends : Live(m, u, e)' <=> Live(m, u, e)
  PROVE  TableCounts'
<1> USE DEF Addresses
<1>1. ASSUME NEW m \in Modules, NEW u \in Addresses
      PROVE  LiveEnds(m, u)' = LiveEnds(m, u)
  BY <1>1 DEF LiveEnds, EndsOf, Reading, Live
<1>2. \A m \in Modules, u \in Addresses : EntriesFor(m, u)' = EntriesFor(m, u)
  BY DEF EntriesFor
<1> QED
  BY <1>1, <1>2 DEF TableCounts

\* The count of one address; the default one may have lost entries.
Counts(m, u) ==
  IF u \in Uris THEN Cardinality(EntriesFor(m, u)) = Cardinality(LiveEnds(m, u))
  ELSE Cardinality(EntriesFor(m, u)) <= Cardinality(LiveEnds(m, u))

LEMMA CountsFacts == TableCounts <=> \A m \in Modules, u \in Addresses : Counts(m, u)
BY NullAssumption DEF TableCounts, Counts, Addresses

LEMMA CardinalFacts ==
  ASSUME TypeOK, NEW m \in Modules, NEW u
  PROVE  /\ EntriesFor(m, u) = Places(peers[m], u)
         /\ Cardinality(EntriesFor(m, u)) \in Nat /\ Cardinality(LiveEnds(m, u)) \in Nat
<1>1. peers[m] \in Seq(Entry)
  BY DEF TypeOK
<1>2. EntriesFor(m, u) = Places(peers[m], u)
  BY DEF EntriesFor, Places
<1> QED
  BY <1>1, <1>2, PlacesFinite, LiveFinite, FS_CardinalityType

\* Steps that touch no registered connection.
LEMMA IdleCounts ==
  ASSUME IInv, TableCounts,
         \/ UNCHANGED <<peers, link, rx, registered, peerUri>>
         \/ \E l \in Links : \/ \E d \in Dials : d[1] = l /\ CheckConnection(l, d[2], d[3])
                             \/ Connect(l) \/ AcceptPeer(l)
         \/ \E e \in Ends : NotifyDisconnect(e)
  PROVE  TableCounts'
<1> USE DEF IInv, PeerInv, endVars
<1>1. CASE UNCHANGED <<peers, link, rx, registered, peerUri>>
  BY <1>1, SameCounts DEF Live, Used, Owner
<1>2. ASSUME NEW l \in Links, NEW d \in Dials, CheckConnection(l, d[2], d[3])
      PROVE  TableCounts'
  <2>1. /\ \A k \in Links : k # l => link'[k] = link[k]
        /\ \A e \in Ends : e[1] = l => rx[e] = "none"
        /\ UNCHANGED <<peers, rx, registered, peerUri>>
    BY <1>2, EndFacts DEF CheckConnection, StageInv, Used, TypeOK
  <2>2. \A m \in Modules, u \in Addresses : \A e \in Ends : Live(m, u, e)' <=> Live(m, u, e)
    BY <2>1, EndFacts DEF Live, Used, Owner
  <2> QED
    BY <2>1, <2>2, SameCounts
<1>3. ASSUME NEW l \in Links, Connect(l) \/ AcceptPeer(l)
      PROVE  TableCounts'
  <2>1. /\ \A e \in Ends : rx'[e] = rx[e] \/ rx[e] \in {"none", "backlog"}
        /\ \A e \in Ends : rx'[e] = "reading" => rx[e] = "reading" \/ ~registered[e]
        /\ UNCHANGED <<peers, link, registered, peerUri>>
    <3>1. CASE Connect(l)
      <4> DEFINE c == <<l, "CLIENT">>
                 t == <<l, "SERVER">>
      <4>1. /\ rx[c] = "none" /\ rx[t] = "none" /\ c \in Ends /\ t \in Ends
            /\ rx' = [rx EXCEPT ![c] = "reading", ![t] = "backlog"]
            /\ UNCHANGED <<peers, link, registered, peerUri>>
        BY <3>1, EndFacts DEF Connect, StageInv
      <4> HIDE DEF c, t
      <4>2. \A e \in Ends : rx'[e] = rx[e] \/ e = c \/ e = t
        BY <4>1 DEF TypeOK
      <4>3. ~registered[c] /\ ~registered[t]
        BY <4>1 DEF StageInv
      <4> QED
        BY <4>1, <4>2, <4>3
    <3>2. CASE AcceptPeer(l)
      <4> DEFINE t == <<l, "SERVER">>
      <4>1. /\ rx[t] = "backlog" /\ t \in Ends
            /\ rx' = [rx EXCEPT ![t] = "reading"]
            /\ UNCHANGED <<peers, link, registered, peerUri>>
        BY <3>2, EndFacts DEF AcceptPeer
      <4> HIDE DEF t
      <4>2. \A e \in Ends : rx'[e] = rx[e] \/ e = t
        BY <4>1 DEF TypeOK
      <4>3. ~registered[t]
        BY <4>1 DEF StageInv
      <4> QED
        BY <4>1, <4>2, <4>3
    <3> QED
      BY <1>3, <3>1, <3>2
  <2>2. \A e \in Ends : registered[e] => (rx'[e] = "reading" <=> rx[e] = "reading")
    BY <2>1
  <2>3. \A m \in Modules, u \in Addresses : \A e \in Ends : Live(m, u, e)' <=> Live(m, u, e)
    BY <2>1, <2>2 DEF Live, Used, Owner
  <2> QED
    BY <2>1, <2>3, SameCounts
<1>4. ASSUME NEW e \in Ends, NotifyDisconnect(e)
      PROVE  TableCounts'
  <2>1. /\ rx[e] = "closing" /\ rx'[e] = "done"
        /\ \A d \in Ends : d # e => rx'[d] = rx[d] /\ registered'[d] = registered[d] /\ peerUri'[d] = peerUri[d]
        /\ UNCHANGED <<peers, link>>
    BY <1>4 DEF NotifyDisconnect, netVars, TypeOK
  <2>2. \A m \in Modules, u \in Addresses : \A d \in Ends : Live(m, u, d)' <=> Live(m, u, d)
    BY <2>1 DEF Live, Used, Owner
  <2> QED
    BY <2>1, <2>2, SameCounts
<1> QED
  BY <1>1, <1>2, <1>3, <1>4

LEMMA RegisterCounts ==
  ASSUME IInv, TableCounts, NEW e \in Ends, ReceiveRegister(e)
  PROVE  TableCounts'
<1> USE DEF IInv, PeerInv
<1> DEFINE v == UriOf(e, Head(wire[e]))
           n == Owner(e)
           p == [sock |-> e, uri |-> v]
<1>1. /\ Reading(e) /\ ~registered[e]
      /\ peers' = [peers EXCEPT ![n] = Append(peers[n], p)]
      /\ peerUri' = [peerUri EXCEPT ![e] = v]
      /\ registered' = [registered EXCEPT ![e] = TRUE]
      /\ UNCHANGED <<link, rx>>
  BY DEF ReceiveRegister, Arrived
<1>2. Used(e[1]) /\ n \in Modules /\ link[e[1]] \in [client : Modules, addr : Uris]
  BY <1>1, OwnerFacts DEF StageInv, Reading
<1>3. v \in Addresses /\ p \in Entry
  <2>1. Head(wire[e]) \in Frame /\ Head(wire[e]).type = "Register_Message"
    BY ArrivedFacts DEF ReceiveRegister
  <2>2. v \in Addresses
    BY <1>2, <2>1, FrameFacts DEF UriOf, Addresses
  <2> QED
    BY <2>2 DEF Entry, Addresses
<1>4. v = p.uri
  OBVIOUS
<1>5. \A m \in Modules : peers[m] \in Seq(Entry)
  BY DEF TypeOK
<1>6. \A m \in Modules : peers'[m] = IF m = n THEN Append(peers[n], p) ELSE peers[m]
  BY <1>1, <1>2 DEF TypeOK
<1>7. \A d \in Ends : /\ registered'[d] <=> registered[d] \/ d = e
                      /\ peerUri'[d] = IF d = e THEN v ELSE peerUri[d]
  BY <1>1 DEF TypeOK
<1>8. Used(e[1])' /\ Owner(e)' = n
  BY <1>1, <1>2 DEF Used, Owner
<1> HIDE DEF v, n, p
<1>9. ASSUME NEW m \in Modules, NEW u \in Addresses
      PROVE  Counts(m, u)'
  <2>1. /\ Counts(m, u) /\ IsFiniteSet(LiveEnds(m, u))
        /\ Cardinality(EntriesFor(m, u)) \in Nat /\ Cardinality(LiveEnds(m, u)) \in Nat
    BY CountsFacts, CardinalFacts, LiveFinite
  <2>2. EntriesFor(m, u) = Places(peers[m], u) /\ EntriesFor(m, u)' = Places(peers'[m], u)
    BY DEF EntriesFor, Places
  <2>3. \A d \in Ends : d # e => (Live(m, u, d)' <=> Live(m, u, d))
    BY <1>1, <1>7 DEF Live, Used, Owner
  <2>4. ~Live(m, u, e) /\ (Live(m, u, e)' <=> m = n /\ v = u)
    BY <1>1, <1>7, <1>8 DEF Live, Reading
  <2>5. LiveEnds(m, u) = {d \in Ends : Live(m, u, d)} /\ LiveEnds(m, u)' = {d \in Ends : Live(m, u, d)'}
    BY DEF LiveEnds, EndsOf, Reading, Live
  <2>6. CASE m = n /\ v = u
    <3>1. LiveEnds(m, u)' = LiveEnds(m, u) \cup {e} /\ e \notin LiveEnds(m, u)
      BY <2>3, <2>4, <2>5, <2>6
    <3>2. Cardinality(LiveEnds(m, u)') = Cardinality(LiveEnds(m, u)) + 1
      BY <2>1, <3>1, FS_AddElement
    <3>3. Cardinality(EntriesFor(m, u)') = Cardinality(EntriesFor(m, u)) + 1
      <4>1. peers'[m] = Append(peers[m], p) /\ peers[m] \in Seq(Entry) /\ p.uri = u
        BY <1>4, <1>5, <1>6, <2>6
      <4> QED
        BY <1>3, <2>2, <4>1, AppendPlaces
    <3> QED
      BY <2>1, <3>2, <3>3 DEF Counts
  <2>7. CASE ~(m = n /\ v = u)
    <3>1. LiveEnds(m, u)' = LiveEnds(m, u)
      BY <2>3, <2>4, <2>5, <2>7
    <3>2. Cardinality(EntriesFor(m, u)') = Cardinality(EntriesFor(m, u))
      <4>1. CASE m = n
        BY <1>3, <1>4, <1>5, <1>6, <2>2, <2>7, <4>1, AppendPlaces
      <4>2. CASE m # n
        BY <1>6, <2>2, <4>2
      <4> QED
        BY <4>1, <4>2
    <3> QED
      BY <2>1, <3>1, <3>2 DEF Counts
  <2> QED
    BY <2>6, <2>7
<1> QED
  BY <1>9, NullAssumption DEF TableCounts, Counts, Addresses

\* DelPeer takes the first entry with the address; which connection it was for
\* makes no difference to the count.
LEMMA ClosedCounts ==
  ASSUME IInv, TableCounts, NEW e \in Ends, RecvClosed(e)
  PROVE  TableCounts'
<1> USE DEF IInv, PeerInv
<1> DEFINE v == peerUri[e]
           n == Owner(e)
<1>1. /\ Reading(e)
      /\ peers' = [peers EXCEPT ![n] = DelPeer(n, v)]
      /\ rx' = [rx EXCEPT ![e] = "closing"]
      /\ UNCHANGED <<link, peerUri, registered>>
  BY DEF RecvClosed, netVars
<1>2. Used(e[1]) /\ n \in Modules
  BY <1>1, OwnerFacts DEF StageInv, Reading
<1>3. /\ \A m \in Modules : peers[m] \in Seq(Entry)
      /\ \A m \in Modules : peers'[m] = IF m = n THEN DelPeer(n, v) ELSE peers[m]
      /\ \A d \in Ends : rx'[d] = IF d = e THEN "closing" ELSE rx[d]
  BY <1>1, <1>2 DEF TypeOK
<1>4. ~registered[e] => v = NULL
  BY DEF StageInv
<1> HIDE DEF n
<1>5. ASSUME NEW m \in Modules, NEW u \in Addresses
      PROVE  Counts(m, u)'
  <2>1. /\ Counts(m, u) /\ IsFiniteSet(LiveEnds(m, u))
        /\ Cardinality(EntriesFor(m, u)) \in Nat /\ Cardinality(LiveEnds(m, u)) \in Nat
    BY CountsFacts, CardinalFacts, LiveFinite
  <2>2. EntriesFor(m, u) = Places(peers[m], u) /\ EntriesFor(m, u)' = Places(peers'[m], u)
    BY DEF EntriesFor, Places
  <2>3. \A d \in Ends : d # e => (Live(m, u, d)' <=> Live(m, u, d))
    BY <1>1, <1>3 DEF Live, Used, Owner
  <2>4. ~Live(m, u, e)' /\ (Live(m, u, e) <=> m = n /\ v = u /\ registered[e])
    BY <1>1, <1>2, <1>3 DEF Live, Reading, n
  <2>5. LiveEnds(m, u) = {d \in Ends : Live(m, u, d)} /\ LiveEnds(m, u)' = {d \in Ends : Live(m, u, d)'}
    BY DEF LiveEnds, EndsOf, Reading, Live
  <2>6. LiveEnds(m, u)' = LiveEnds(m, u) \ {e}
    BY <2>3, <2>4, <2>5
  <2>7. /\ Cardinality(LiveEnds(m, u)') = IF Live(m, u, e) THEN Cardinality(LiveEnds(m, u)) - 1
                                          ELSE Cardinality(LiveEnds(m, u))
        /\ Live(m, u, e) => Cardinality(LiveEnds(m, u)) # 0
    <3>1. Live(m, u, e) <=> e \in LiveEnds(m, u)
      BY <2>5
    <3> QED
      BY <2>1, <2>6, <3>1, FS_RemoveElement, FS_EmptySet
  <2>8. CASE m = n /\ v = u /\ haveConnectionTo(n, v)
    <3>1. /\ FirstWith(n, v) \in 1..Len(peers[n]) /\ peers[n][FirstWith(n, v)].uri = v
          /\ peers'[n] = RemoveAt(peers[n], FirstWith(n, v))
      BY <1>2, <1>3, <2>8, FirstFacts DEF DelPeer
    <3>2. Cardinality(EntriesFor(m, u)') = Cardinality(EntriesFor(m, u)) - 1
      BY <1>2, <1>3, <2>2, <2>8, <3>1, RemovePlaces
    <3>3. u \in Uris => Live(m, u, e)
      BY <1>4, <2>4, <2>8, NullAssumption
    <3> QED
      BY <2>1, <2>7, <3>2, <3>3 DEF Counts
  <2>9. CASE m = n /\ v = u /\ ~haveConnectionTo(n, v)
    <3>1. EntriesFor(m, u) = {} /\ EntriesFor(m, u)' = {}
      BY <1>2, <1>3, <2>9 DEF haveConnectionTo, DelPeer, EntriesFor
    <3>2. Cardinality(EntriesFor(m, u)) = 0 /\ Cardinality(EntriesFor(m, u)') = 0
      BY <3>1, FS_EmptySet
    <3>3. u \in Uris => ~Live(m, u, e)
      BY <2>1, <2>7, <3>2 DEF Counts
    <3> QED
      BY <2>1, <2>7, <3>2, <3>3 DEF Counts
  <2>10. CASE ~(m = n /\ v = u)
    <3>1. Cardinality(EntriesFor(m, u)') = Cardinality(EntriesFor(m, u))
      <4>1. CASE m = n /\ haveConnectionTo(n, v)
        <5>1. /\ FirstWith(n, v) \in 1..Len(peers[n]) /\ peers[n][FirstWith(n, v)].uri = v
              /\ peers'[n] = RemoveAt(peers[n], FirstWith(n, v))
          BY <1>2, <1>3, <4>1, FirstFacts DEF DelPeer
        <5> QED
          BY <1>2, <1>3, <2>2, <2>10, <4>1, <5>1, RemovePlaces
      <4>2. CASE ~(m = n /\ haveConnectionTo(n, v))
        BY <1>2, <1>3, <2>2, <4>2 DEF DelPeer
      <4> QED
        BY <4>1, <4>2
    <3>2. ~Live(m, u, e)
      BY <2>4, <2>10
    <3> QED
      BY <2>1, <2>7, <3>1, <3>2 DEF Counts
  <2> QED
    BY <2>8, <2>9, <2>10
<1> QED
  BY <1>5, NullAssumption DEF TableCounts, Counts, Addresses

LEMMA ExitCounts ==
  ASSUME IInv, TableCounts, NEW n \in Modules, Exit(n, wire)
  PROVE  TableCounts'
<1> USE DEF IInv, PeerInv
<1>1. /\ \A m \in Modules : peers'[m] = IF m = n THEN << >> ELSE peers[m]
      /\ link' = link
      /\ \A e \in Ends : /\ e \in EndsOf(n) => rx'[e] = "done"
                         /\ e \notin EndsOf(n) => rx'[e] = rx[e] /\ peerUri'[e] = peerUri[e]
                         /\ e \notin EndsOf(n) => (registered'[e] <=> registered[e])
  BY DEF Exit, TypeOK
<1>2. \A e \in Ends : e \in EndsOf(n) <=> Used(e[1]) /\ rx[e] # "none" /\ Owner(e) = n
  BY DEF EndsOf
<1>3. \A m \in Modules, u \in Addresses : \A e \in Ends :
         Live(m, u, e)' <=> Live(m, u, e) /\ m # n
  BY <1>1, <1>2 DEF Live, Used, Owner
<1>4. ASSUME NEW m \in Modules, NEW u \in Addresses
      PROVE  Counts(m, u)'
  <2>1. LiveEnds(m, u) = {d \in Ends : Live(m, u, d)} /\ LiveEnds(m, u)' = {d \in Ends : Live(m, u, d)'}
    BY DEF LiveEnds, EndsOf, Reading, Live
  <2>2. CASE m = n
    <3>1. LiveEnds(m, u)' = {}
      BY <1>3, <2>1, <2>2
    <3>2. EntriesFor(m, u)' = {}
      BY <1>1, <2>2 DEF EntriesFor
    <3>3. Cardinality({}) = 0
      BY FS_EmptySet
    <3> QED
      BY <3>1, <3>2, <3>3 DEF Counts
  <2>3. CASE m # n
    <3>1. LiveEnds(m, u)' = LiveEnds(m, u)
      BY <1>3, <2>1, <2>3
    <3>2. EntriesFor(m, u)' = EntriesFor(m, u)
      BY <1>1, <2>3 DEF EntriesFor
    <3> QED
      BY <3>1, <3>2, CountsFacts DEF Counts
  <2> QED
    BY <2>2, <2>3
<1> QED
  BY <1>4, NullAssumption DEF TableCounts, Counts, Addresses

LEMMA NextCounts ==
  ASSUME IInv, TableCounts, [Next]_vars
  PROVE  TableCounts'
<1> DEFINE Idle == UNCHANGED <<peers, link, rx, registered, peerUri>>
<1>1. ASSUME NEW l \in Links, DialStep(l) \/ AcceptPeer(l) \/ LinkFail(l)
      PROVE  TableCounts'
  <2>1. ConnectFails(l) \/ DialReturns(l) \/ LinkFail(l) => Idle
    BY DEF ConnectFails, DialReturns, LinkFail, netVars, endVars
  <2> QED
    BY <1>1, <2>1, IdleCounts DEF DialStep
<1>2. ASSUME NEW e \in Ends, LockedStep(e) \/ ReceiveStep(e)
      PROVE  TableCounts'
  <2>1. CASE ReceiveOther(e)
    <3>1. Idle
      BY <2>1 DEF ReceiveOther, endVars
    <3> QED
      BY <3>1, IdleCounts
  <2>2. CASE ReceiveQuit(e)
    <3>1. Owner(e) \in Modules
      BY <2>2, OwnerFacts DEF ReceiveQuit, Reading, IInv, PeerInv, StageInv
    <3> QED
      BY <2>2, <3>1, ExitCounts DEF ReceiveQuit
  <2> QED
    BY <1>2, <2>1, <2>2, RegisterCounts, ClosedCounts, IdleCounts DEF LockedStep, ReceiveStep
<1>3. ASSUME NEW e \in Ends, sendHearBeat(e) \/ HeartBeatFails(e) \/ LossDetected(e)
      PROVE  TableCounts'
  <2>1. Idle
    BY <1>3 DEF sendHearBeat, HeartBeatFails, LossDetected, netVars, endVars
  <2> QED
    BY <2>1, IdleCounts
<1>4. ASSUME NEW m \in Modules, NEW u \in Uris \cup {NULL}, NEW k \in Kinds[m], sendJson(m, u, k)
      PROVE  TableCounts'
  <2>1. Idle
    BY <1>4 DEF sendJson, endVars
  <2> QED
    BY <2>1, IdleCounts
<1>5. ASSUME NEW m \in Modules, WriteEnds(m) \/ Crash(m) \/ Restart(m)
      PROVE  TableCounts'
  <2>1. WriteEnds(m) \/ Restart(m) => Idle
    BY DEF WriteEnds, Restart, netVars, endVars
  <2> QED
    BY <1>5, <2>1, ExitCounts, IdleCounts DEF Crash
<1>6. CASE UNCHANGED vars
  <2>1. Idle
    BY <1>6 DEF vars, netVars, endVars
  <2> QED
    BY <2>1, IdleCounts
<1> QED
  BY <1>1, <1>2, <1>3, <1>4, <1>5, <1>6 DEF Next

\* A module's table has as many entries for an address as it has registered
\* connections with it, whichever of their entries DelPeer removed before, and for
\* the default address, of peers whose text did not parse, at most as many
\* (PeerManager.cpp:24-58, 149-157, 187-201).
THEOREM TableCorrect == Spec => []TableCounts
<1>1. Init => TableCounts
  <2> SUFFICES ASSUME Init PROVE TableCounts
    OBVIOUS
  <2>1. \A m \in Modules, u \in Addresses : EntriesFor(m, u) = {} /\ LiveEnds(m, u) = {}
    BY DEF Init, EntriesFor, LiveEnds, EndsOf, Reading
  <2>2. Cardinality({}) <= Cardinality({})
    BY FS_EmptySet
  <2> QED
    BY <2>1, <2>2 DEF TableCounts, Addresses
<1> QED
  BY <1>1, InitInv, NextInv, NextCounts, PTL DEF Spec
=============================================================================
