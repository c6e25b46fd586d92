------------------------------ MODULE MCSendLock ------------------------------
(* Two modules with a sending thread each and two connections, of which one   *)
(* module dials the other or itself; or three in a ring, over three.          *)
EXTENDS SendLock, TLC

CONSTANTS A, B, C, sA, sB, sC, l1, l2, l3

mcModules == {A, B, C}
mcSenders == {sA, sB, sC}
mcHome    == (sA :> A) @@ (sB :> B) @@ (sC :> C)
mcLinks   == {l1, l2, l3}

mcPair  == {l1, l2} \X {A} \X {A, B}
mcRing  == {<<l1, A, B>>, <<l2, B, C>>, <<l3, C, A>>}
mcDials == mcPair \cup mcRing

mcSizes  == {1, 2}
mcFaults == {B, l1}

VARIABLE plan  \* the connections of a behaviour

PlanInit == Init /\ plan \in {mcPair, mcRing}

\* Bounds of the ring: each sends two units at a time, to the one it dialled,
\* there are no heart beats, and a connection is lost only when the three wait
\* for each other.
RingStep ==
  /\ \A t \in Senders : writing[t] = NULL /\ writing'[t] # NULL =>
        writing'[t].left = 2 /\ writing'[t].sock[2] = "CLIENT"
  /\ ~\E e \in Ends : sendHearBeat(e)
  /\ broken' # broken => Knot(Senders) /\ ~broken'[l3]

PlanNext == /\ Next /\ UNCHANGED plan
            /\ \A l \in Links : link'[l] # link[l] =>
                  <<l, link'[l].client, link'[l].server>> \in plan
            /\ plan = mcRing => RingStep

\* Less than Fairness: in the ring nobody waits for the end of l3 at C, and
\* nothing else takes the room that the sender of C waits for.
PlanFairness ==
  /\ \A l \in Links : WF_vars(AcceptPeer(l))
  /\ \A e \in Ends : WF_vars(ReceiveRegister(e) \/ ReceiveOther(e) \/ RecvClosed(e))
  /\ \A e \in Ends \ {<<l3, "CLIENT">>} : SF_vars(addPeer(e) \/ DelPeer(e))
  /\ WF_vars(SendStep(sC))
  /\ \A t \in {sA, sB} : SF_vars(SendStep(t))

PlanSpec == PlanInit /\ [][PlanNext]_<<vars, plan>> /\ PlanFairness
=============================================================================
