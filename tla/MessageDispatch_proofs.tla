----------------------- MODULE MessageDispatch_proofs -----------------------
(* Proofs that the invariants of MessageDispatch hold for every set of      *)
(* peers, kinds and threads and every bound on the messages.                *)
EXTENDS MessageDispatch, SequenceTheorems, TLAPS

USE DEF Threads, vars, program, history

\* Every action preserves the types.
LEMMA TypeStep == TypeOK /\ HandInv /\ [Next]_vars => TypeOK'
<1> SUFFICES ASSUME TypeOK, HandInv, [Next]_vars
             PROVE  TypeOK'
  OBVIOUS
<1> USE DEF TypeOK
<1>0. arrived \in Nat /\ MaxMsgs \in Nat
  BY MaxMsgsAssumption
<1>1. CASE SetJsonHandler
  BY <1>1 DEF SetJsonHandler
<1>2. CASE setJsonHandler
  BY <1>2 DEF setJsonHandler
<1>3. ASSUME NEW p \in Peers, NEW k \in Kinds, Receive(p, k)
      PROVE  TypeOK'
  <2> DEFINE m == [from |-> p, kind |-> k, seq |-> arrived + 1]
  <2>1. m \in Message /\ arrived' \in 0..MaxMsgs
    BY <1>0, <1>3 DEF Receive, Message
  <2>2. pc' \in [Threads -> {"idle", "loop", "sleeping", "signalled", "expired"}]
    BY <1>3 DEF Receive, NotifyAll
  <2>3. CASE ReceiveReply(m)
    <3>1. amWaitingFor \in WaitRequest
      BY <2>3 DEF ReceiveReply, isWaitResponse
    <3>2. amWaitingFor' \in WaitRequest
      BY <2>1, <2>3, <3>1 DEF ReceiveReply, WaitRequest
    <3>3. lost' \in SUBSET Message
      BY <2>3, <3>1 DEF ReceiveReply, Slot, WaitRequest
    <3>4. messages' = messages
      BY <2>3 DEF ReceiveReply
    <3> QED
      BY <1>3, <2>1, <2>2, <3>2, <3>3, <3>4 DEF Receive
  <2>4. CASE ReceiveOther(m)
    <3> HIDE DEF m
    <3>1. messages' \in Seq(Message)
      BY <2>1, <2>4, AppendProperties DEF ReceiveOther
    <3>2. amWaitingFor' = amWaitingFor /\ lost' = lost
      BY <2>4 DEF ReceiveOther
    <3> QED
      BY <1>3, <2>1, <2>2, <3>1, <3>2 DEF Receive
  <2> QED
    BY <1>3, <2>3, <2>4 DEF Receive
<1>4. ASSUME NEW t \in Threads, WaitStep(t)
      PROVE  TypeOK'
  <2>1. ASSUME NEW p \in Peers, NEW k \in Kinds, WaitForClaim(t, p, k)
        PROVE  TypeOK'
    BY <2>1 DEF WaitForClaim, WaitRequest
  <2>2. CASE Elapse(t)
    BY <2>2 DEF Elapse
  <2>3. CASE LoopTop(t)
    <3>1. pc' \in [Threads -> {"idle", "loop", "sleeping", "signalled", "expired"}]
      BY <2>3 DEF LoopTop
    <3>2. sleptAt' \in [Threads -> 0..MaxMsgs]
      BY <2>3 DEF LoopTop
    <3> QED
      BY <2>3, <3>1, <3>2 DEF LoopTop
  <2>4. CASE TakeReply(t)
    <3>1. Slot \subseteq Message /\ amWaitingFor \in WaitRequest
      BY <2>4 DEF TakeReply, Slot, WaitRequest
    <3>2. amWaitingFor.jsonReply \in Message
      BY <2>4, <3>1 DEF TakeReply, Slot
    <3>3. returned' \in SUBSET Returned
      BY <2>4, <3>1, <3>2 DEF TakeReply, Returned, WaitRequest
    <3> QED
      BY <1>0, <2>4, <3>3 DEF TakeReply, Return
  <2>5. CASE WakeInVain(t)
    BY <2>5 DEF WakeInVain
  <2>6. CASE GiveUp(t)
    <3>1. Slot \subseteq Message
      BY DEF Slot, WaitRequest
    <3> QED
      BY <1>0, <2>6, <3>1 DEF GiveUp, Return
  <2> QED
    BY <1>4, <2>1, <2>2, <2>3, <2>4, <2>5, <2>6 DEF WaitStep
<1>5. CASE PopMessage
  <2>1. Head(messages) \in Message /\ Tail(messages) \in Seq(Message)
    BY <1>5, HeadTailProperties DEF PopMessage
  <2> QED
    BY <1>5, <2>1 DEF PopMessage
<1>6. CASE HandOver
  <2>1. inHand \in Message
    BY <1>6 DEF HandOver, HandInv
  <2>2. handled' \in Seq(Message)
    BY <1>6, <2>1, AppendProperties DEF HandOver
  <2> QED
    BY <1>6, <2>2 DEF HandOver
<1>7. CASE Drop
  <2>1. inHand \in Message
    BY <1>7 DEF Drop, HandInv
  <2> QED
    BY <1>7, <2>1 DEF Drop
<1>8. CASE EndHandler
  BY <1>8 DEF EndHandler
<1>9. CASE UNCHANGED vars
  BY <1>9
<1> QED
  BY <1>1, <1>2, <1>3, <1>4, <1>5, <1>6, <1>7, <1>8, <1>9 DEF Next, HandlerStep

LEMMA HandStep == TypeOK /\ HandInv /\ [Next]_vars => HandInv'
<1> SUFFICES ASSUME TypeOK, HandInv, [Next]_vars
             PROVE  HandInv'
  OBVIOUS
<1> USE DEF HandInv
<1>1. CASE UNCHANGED <<hstate, inHand>>
  BY <1>1
<1>2. CASE PopMessage
  <2>1. inHand' \in Message
    BY <1>2, HeadTailProperties DEF PopMessage, TypeOK
  <2> QED
    BY <1>2, <2>1, NullAssumption DEF PopMessage
<1>3. CASE HandOver \/ Drop
  BY <1>3 DEF HandOver, Drop
<1>4. CASE EndHandler
  BY <1>4 DEF EndHandler
<1>5. ASSUME NEW t \in Threads, WaitStep(t)
      PROVE  UNCHANGED <<hstate, inHand>>
  BY <1>5 DEF WaitStep, WaitForClaim, Elapse, LoopTop, TakeReply, WakeInVain, GiveUp
<1> QED
  BY <1>1, <1>2, <1>3, <1>4, <1>5 DEF Next, HandlerStep, SetJsonHandler,
     setJsonHandler, Receive

\* waitFor keeps the request and the thread inside together.
LEMMA WaiterStep == TypeOK /\ OneWaiter /\ [Next]_vars => OneWaiter'
<1> SUFFICES ASSUME TypeOK, OneWaiter, [Next]_vars
             PROVE  OneWaiter'
  OBVIOUS
<1> USE DEF OneWaiter, InWait
<1>1. ASSUME UNCHANGED <<amWaitingFor, pc>>
      PROVE  OneWaiter'
  BY <1>1
<1>2. ASSUME NEW p \in Peers, NEW k \in Kinds, Receive(p, k)
      PROVE  OneWaiter'
  <2>1. \A t \in Threads : pc'[t] = "idle" <=> pc[t] = "idle"
    BY <1>2 DEF Receive, NotifyAll, TypeOK
  <2>2. amWaitingFor' = NULL <=> amWaitingFor = NULL
    <3> DEFINE m == [from |-> p, kind |-> k, seq |-> arrived + 1]
    <3>1. CASE ReceiveOther(m)
      BY <3>1 DEF ReceiveOther
    <3>2. CASE ReceiveReply(m)
      <4>1. m \in Message
        BY <1>2, MaxMsgsAssumption DEF Receive, Message, TypeOK
      <4>2. amWaitingFor' \in WaitRequest /\ amWaitingFor # NULL
        BY <3>2, <4>1 DEF ReceiveReply, isWaitResponse, WaitRequest, TypeOK
      <4> QED
        BY <4>2, NullAssumption DEF WaitRequest
    <3> QED
      BY <1>2, <3>1, <3>2 DEF Receive
  <2> QED
    BY <2>1, <2>2
<1>3. ASSUME NEW t \in Threads, NEW p \in Peers, NEW k \in Kinds, WaitForClaim(t, p, k)
      PROVE  OneWaiter'
  <2>1. amWaitingFor' # NULL
    BY <1>3, NullAssumption DEF WaitForClaim, WaitRequest
  <2>2. pc' = [pc EXCEPT ![t] = "loop"] /\ \A u \in Threads : pc[u] = "idle"
    BY <1>3 DEF WaitForClaim, requestFree
  <2> QED
    BY <2>1, <2>2 DEF TypeOK
<1>4. ASSUME NEW t \in Threads, LoopTop(t) \/ WakeInVain(t)
      PROVE  OneWaiter'
  BY <1>4 DEF LoopTop, WakeInVain, TypeOK
<1>5. ASSUME NEW t \in Threads, TakeReply(t) \/ GiveUp(t)
      PROVE  OneWaiter'
  <2>1. pc' = [pc EXCEPT ![t] = "idle"] /\ amWaitingFor' = NULL
    BY <1>5 DEF TakeReply, GiveUp, Return
  <2>2. InWait(t)
    BY <1>5 DEF TakeReply, GiveUp
  <2>3. \A u \in Threads : pc'[u] = "idle"
    BY <2>1, <2>2 DEF TypeOK
  <2> QED
    BY <2>1, <2>3
<1>6. ASSUME NEW t \in Threads, WaitStep(t)
      PROVE  OneWaiter'
  <2>1. CASE Elapse(t)
    BY <1>1, <2>1 DEF Elapse
  <2> QED
    BY <1>3, <1>4, <1>5, <1>6, <2>1 DEF WaitStep
<1>7. ASSUME HandlerStep \/ SetJsonHandler \/ setJsonHandler \/ UNCHANGED vars
      PROVE  OneWaiter'
  <2>1. UNCHANGED <<amWaitingFor, pc>>
    BY <1>7 DEF HandlerStep, PopMessage, HandOver, Drop, EndHandler, SetJsonHandler,
                setJsonHandler
  <2> QED
    BY <1>1, <2>1
<1> QED
  BY <1>2, <1>6, <1>7 DEF Next

-----------------------------------------------------------------------------
\* Replies fit their requests, and are newer than them.
LEMMA AnswerStep == DispatchInv /\ [Next]_vars => AnswerInv'
<1> SUFFICES ASSUME DispatchInv, [Next]_vars
             PROVE  AnswerInv'
  OBVIOUS
<1> USE DEF DispatchInv, TypeOK, OneWaiter, AnswerInv
<1>0. arrived \in Nat /\ MaxMsgs \in Nat
  BY MaxMsgsAssumption
<1>1. ASSUME UNCHANGED <<arrived, amWaitingFor, since, returned>>,
             \A t \in Threads : InWait(t)' => InWait(t)
      PROVE  AnswerInv'
  BY <1>1 DEF Slot, ReplyFits
<1>2. ASSUME NEW p \in Peers, NEW k \in Kinds, Receive(p, k)
      PROVE  AnswerInv'
  <2> DEFINE m == [from |-> p, kind |-> k, seq |-> arrived + 1]
  <2>1. /\ UNCHANGED <<since, returned>> /\ arrived' = arrived + 1
        /\ \A t \in Threads : InWait(t)' <=> InWait(t)
    BY <1>2 DEF Receive, InWait, NotifyAll
  <2>2. (\A t \in Threads : since'[t] <= arrived') /\ ReplyFits'
    BY <1>0, <2>1 DEF ReplyFits
  <2>3. CASE ReceiveOther(m)
    <3>1. Slot' = Slot /\ amWaitingFor' = amWaitingFor
      BY <2>3 DEF ReceiveOther, Slot
    <3> QED
      BY <2>1, <2>2, <3>1
  <2>4. CASE ReceiveReply(m)
    <3>1. /\ amWaitingFor \in WaitRequest
          /\ m.from = amWaitingFor.fromUri /\ m.kind = amWaitingFor.val
      BY <2>4 DEF ReceiveReply, isWaitResponse
    <3>2. /\ amWaitingFor'.fromUri = amWaitingFor.fromUri
          /\ amWaitingFor'.val = amWaitingFor.val
          /\ amWaitingFor'.jsonReply = m
      BY <2>4, <3>1 DEF ReceiveReply, WaitRequest
    <3>3. Slot' \subseteq {m}
      BY <3>2 DEF Slot
    <3>4. \A t \in Threads : since'[t] < m.seq
      BY <1>0, <2>1
    <3> QED
      BY <2>2, <3>1, <3>2, <3>3, <3>4
  <2> QED
    BY <1>2, <2>3, <2>4 DEF Receive
<1>3. ASSUME NEW t \in Threads, NEW p \in Peers, NEW k \in Kinds, WaitForClaim(t, p, k)
      PROVE  AnswerInv'
  <2>1. Slot' = {}
    BY <1>3 DEF WaitForClaim, Slot
  <2>2. \A u \in Threads : since'[u] <= arrived'
    BY <1>0, <1>3 DEF WaitForClaim
  <2> QED
    BY <1>3, <2>1, <2>2 DEF WaitForClaim, ReplyFits
<1>4. ASSUME NEW t \in Threads, TakeReply(t) \/ GiveUp(t)
      PROVE  AnswerInv'
  <2>1. Slot' = {}
    BY <1>4 DEF TakeReply, GiveUp, Slot
  <2>2. \A u \in Threads : since'[u] <= arrived'
    <3>1. since' = [since EXCEPT ![t] = 0] /\ arrived' = arrived
      BY <1>4 DEF TakeReply, GiveUp, Return
    <3> QED
      BY <1>0, <3>1
  <2>3. CASE GiveUp(t)
    BY <2>1, <2>2, <2>3 DEF GiveUp, ReplyFits
  <2>4. CASE TakeReply(t)
    <3>1. InWait(t) /\ amWaitingFor.jsonReply \in Slot
      BY <2>4 DEF TakeReply, InWait, Slot
    <3>2. ReplyFits'
      BY <2>4, <3>1 DEF TakeReply, ReplyFits
    <3> QED
      BY <2>1, <2>2, <3>2
  <2> QED
    BY <1>4, <2>3, <2>4
<1>5. ASSUME NEW t \in Threads, Elapse(t) \/ LoopTop(t) \/ WakeInVain(t)
      PROVE  AnswerInv'
  <2>1. UNCHANGED <<arrived, amWaitingFor, since, returned>>
    BY <1>5 DEF Elapse, LoopTop, WakeInVain
  <2>2. \A u \in Threads : InWait(u)' => InWait(u)
    BY <1>5 DEF Elapse, LoopTop, WakeInVain, InWait
  <2> QED
    BY <1>1, <2>1, <2>2
<1>6. ASSUME HandlerStep \/ SetJsonHandler \/ setJsonHandler \/ UNCHANGED vars
      PROVE  AnswerInv'
  <2>1. UNCHANGED <<arrived, amWaitingFor, since, returned, pc>>
    BY <1>6 DEF HandlerStep, PopMessage, HandOver, Drop, EndHandler, SetJsonHandler,
                setJsonHandler
  <2> QED
    BY <1>1, <2>1 DEF InWait
<1> QED
  BY <1>2, <1>3, <1>4, <1>5, <1>6 DEF Next, WaitStep

\* A reply wakes the sleepers in the same critical section.
LEMMA WakeStep == DispatchInv /\ [Next]_vars => WakeInv'
<1> SUFFICES ASSUME DispatchInv, [Next]_vars
             PROVE  WakeInv'
  OBVIOUS
<1>t. TypeOK /\ WakeInv /\ arrived \in Nat
  BY MaxMsgsAssumption DEF DispatchInv, TypeOK
<1> USE DEF WakeInv, NotSleptOver
<1>1. ASSUME UNCHANGED <<arrived, amWaitingFor, sleptAt>>,
             \A t \in Threads : pc'[t] = "sleeping" => pc[t] = "sleeping"
      PROVE  WakeInv'
  BY <1>1, <1>t DEF Slot
<1>2. ASSUME NEW p \in Peers, NEW k \in Kinds, Receive(p, k)
      PROVE  WakeInv'
  <2> DEFINE m == [from |-> p, kind |-> k, seq |-> arrived + 1]
  <2>1. arrived' = arrived + 1 /\ \A t \in Threads : pc'[t] # "sleeping"
    BY <1>2 DEF Receive, NotifyAll
  <2>2. Slot' \subseteq Slot \cup {m}
    <3>1. CASE ReceiveOther(m)
      BY <3>1 DEF ReceiveOther, Slot
    <3>2. CASE ReceiveReply(m)
      <4>1. amWaitingFor'.jsonReply = m
        BY <1>t, <3>2 DEF ReceiveReply, isWaitResponse, TypeOK, WaitRequest
      <4> QED
        BY <4>1 DEF Slot
    <3> QED
      BY <1>2, <3>1, <3>2 DEF Receive
  <2>3. \A x \in Slot : x.seq \in Nat
    BY <1>t, MaxMsgsAssumption DEF Slot, TypeOK, WaitRequest, Message
  <2>4. \A x \in Slot : x.seq <= arrived + 1
    BY <1>t, <2>3
  <2> QED
    BY <1>t, <2>1, <2>2, <2>4
<1>3. ASSUME NEW t \in Threads, LoopTop(t)
      PROVE  WakeInv'
  <2>1. Slot' = Slot /\ arrived' = arrived
    BY <1>3 DEF LoopTop, Slot
  <2>2. ASSUME NEW u \in Threads, pc'[u] = "sleeping", NEW x \in Slot
        PROVE  x.seq <= sleptAt'[u]
    <3>1. CASE u = t
      BY <1>3, <1>t, <2>2, <3>1 DEF LoopTop, timeIsUp, TypeOK
    <3>2. CASE u # t
      BY <1>3, <1>t, <2>2, <3>2 DEF LoopTop, TypeOK
    <3> QED
      BY <3>1, <3>2
  <2> QED
    BY <1>t, <2>1, <2>2
<1>4. ASSUME NEW t \in Threads, WaitStep(t), ~LoopTop(t), ~Elapse(t), ~WakeInVain(t)
      PROVE  WakeInv'
  BY <1>4 DEF WaitStep, WaitForClaim, TakeReply, GiveUp, Slot
<1>5. ASSUME NEW t \in Threads, Elapse(t) \/ WakeInVain(t)
      PROVE  WakeInv'
  <2>1. /\ UNCHANGED <<arrived, amWaitingFor, sleptAt>>
        /\ \A u \in Threads : pc'[u] = "sleeping" => pc[u] = "sleeping"
    BY <1>5, <1>t DEF Elapse, WakeInVain, TypeOK
  <2> QED
    BY <1>1, <2>1
<1>6. ASSUME HandlerStep \/ SetJsonHandler \/ setJsonHandler \/ UNCHANGED vars
      PROVE  WakeInv'
  <2>1. UNCHANGED <<arrived, amWaitingFor, sleptAt, pc>>
    BY <1>6 DEF HandlerStep, PopMessage, HandOver, Drop, EndHandler, SetJsonHandler,
                setJsonHandler
  <2> QED
    BY <1>1, <2>1
<1> QED
  BY <1>2, <1>3, <1>4, <1>5, <1>6 DEF Next

-----------------------------------------------------------------------------
(* Sequences of messages in the order of arrival.                           *)

LEMMA AppendRange ==
  ASSUME NEW s \in Seq(Message), NEW m \in Message
  PROVE  /\ SeqRange(Append(s, m)) = SeqRange(s) \cup {m}
         /\ Increasing(s) /\ (\A x \in SeqRange(s) : x.seq < m.seq)
              => Increasing(Append(s, m))
<1>1. /\ Len(Append(s, m)) = Len(s) + 1 /\ Len(s) \in Nat
      /\ \A i \in 1..Len(s) : Append(s, m)[i] = s[i]
      /\ Append(s, m)[Len(s) + 1] = m
  BY AppendProperties, LenProperties
<1>2. \A i : i \in 1..Len(s) + 1 <=> i \in 1..Len(s) \/ i = Len(s) + 1
  BY <1>1
<1>3. SeqRange(Append(s, m)) = SeqRange(s) \cup {m}
  BY <1>1, <1>2 DEF SeqRange
<1>4. ASSUME Increasing(s), \A x \in SeqRange(s) : x.seq < m.seq
      PROVE  Increasing(Append(s, m))
  <2> SUFFICES ASSUME NEW i \in 1..Len(s) + 1, NEW j \in 1..Len(s) + 1, i < j
               PROVE  Append(s, m)[i].seq < Append(s, m)[j].seq
    BY <1>1 DEF Increasing
  <2>1. i \in 1..Len(s)
    BY <1>1
  <2>2. CASE j = Len(s) + 1
    BY <1>1, <1>4, <2>1, <2>2 DEF SeqRange
  <2>3. CASE j \in 1..Len(s)
    BY <1>1, <1>4, <2>1, <2>3 DEF Increasing
  <2> QED
    BY <1>2, <2>2, <2>3
<1> QED
  BY <1>3, <1>4

LEMMA TailRange ==
  ASSUME NEW s \in Seq(Message), s # << >>, Increasing(s)
  PROVE  /\ Increasing(Tail(s))
         /\ SeqRange(Tail(s)) \subseteq SeqRange(s)
         /\ Head(s) \in SeqRange(s)
         /\ \A x \in SeqRange(Tail(s)) : Head(s).seq < x.seq
<1>1. /\ Len(Tail(s)) = Len(s) - 1 /\ Len(s) \in Nat /\ Len(s) > 0
      /\ \A i \in 1..Len(s) - 1 : Tail(s)[i] = s[i + 1]
  BY HeadTailProperties, LenProperties, EmptySeq
<1>2. Head(s) = s[1] /\ 1 \in 1..Len(s)
  BY <1>1
<1>3. \A i \in 1..Len(s) - 1 : i + 1 \in 1..Len(s) /\ 1 < i + 1
  BY <1>1
<1>4. Increasing(Tail(s))
  <2> SUFFICES ASSUME NEW i \in 1..Len(s) - 1, NEW j \in 1..Len(s) - 1, i < j
               PROVE  Tail(s)[i].seq < Tail(s)[j].seq
    BY <1>1 DEF Increasing
  <2>1. i + 1 \in 1..Len(s) /\ j + 1 \in 1..Len(s) /\ i + 1 < j + 1
    BY <1>1
  <2> QED
    BY <1>1, <2>1 DEF Increasing
<1>5. SeqRange(Tail(s)) \subseteq SeqRange(s)
  BY <1>1, <1>3 DEF SeqRange
<1>6. Head(s) \in SeqRange(s)
  BY <1>2 DEF SeqRange
<1>7. \A x \in SeqRange(Tail(s)) : Head(s).seq < x.seq
  <2> SUFFICES ASSUME NEW i \in 1..Len(s) - 1
               PROVE  s[1].seq < Tail(s)[i].seq
    BY <1>1, <1>2 DEF SeqRange
  <2> QED
    BY <1>1, <1>2, <1>3 DEF Increasing
<1> QED
  BY <1>4, <1>5, <1>6, <1>7

LEMMA HeadAndTail ==
  ASSUME NEW s \in Seq(Message), s # << >>, Increasing(s)
  PROVE  /\ SeqRange(s) = SeqRange(Tail(s)) \cup {Head(s)}
         /\ \A x \in SeqRange(Tail(s)) : x.seq # Head(s).seq
<1>1. /\ Len(s) \in Nat \ {0} /\ Head(s) = s[1] /\ Len(Tail(s)) = Len(s) - 1
      /\ \A i \in 1..Len(s) - 1 : Tail(s)[i] = s[i + 1]
  BY EmptySeq, HeadTailProperties
<1>2. \A i \in 1..Len(s) : s[i].seq \in Nat
  <2>1. \A i \in 1..Len(s) : s[i] \in Message
    BY <1>1, ElementOfSeq
  <2> QED
    BY <2>1, MaxMsgsAssumption DEF Message
<1>3. ASSUME NEW x \in SeqRange(s)
      PROVE  x \in SeqRange(Tail(s)) \cup {Head(s)}
  <2>1. PICK i \in 1..Len(s) : x = s[i]
    BY DEF SeqRange
  <2>2. CASE i = 1
    BY <1>1, <2>1, <2>2
  <2>3. CASE i # 1
    <3>1. i - 1 \in 1..Len(s) - 1 /\ Tail(s)[i - 1] = s[i]
      BY <1>1, <2>3
    <3> QED
      BY <1>1, <2>1, <3>1 DEF SeqRange
  <2> QED
    BY <2>2, <2>3
<1>4. ASSUME NEW x \in SeqRange(Tail(s))
      PROVE  x \in SeqRange(s) /\ x.seq # Head(s).seq
  <2>1. PICK i \in 1..Len(s) - 1 : x = s[i + 1]
    BY <1>1 DEF SeqRange
  <2>2. i + 1 \in 1..Len(s) /\ 1 \in 1..Len(s) /\ 1 < i + 1
    BY <1>1
  <2>3. s[1].seq < s[i + 1].seq
    BY <2>2 DEF Increasing
  <2> QED
    BY <1>1, <1>2, <2>1, <2>2, <2>3 DEF SeqRange
<1>5. Head(s) \in SeqRange(s)
  BY <1>1 DEF SeqRange
<1> QED
  BY <1>3, <1>4, <1>5

LEMMA ConcatIncreasing ==
  ASSUME NEW s \in Seq(Message), NEW u \in Seq(Message),
         Increasing(s), Increasing(u),
         \A x \in SeqRange(s), y \in SeqRange(u) : x.seq < y.seq
  PROVE  Increasing(s \o u) /\ SeqRange(s \o u) = SeqRange(s) \cup SeqRange(u)
<1>1. /\ Len(s) \in Nat /\ Len(u) \in Nat /\ Len(s \o u) = Len(s) + Len(u)
      /\ \A i \in 1..Len(s) + Len(u) :
            (s \o u)[i] = IF i <= Len(s) THEN s[i] ELSE u[i - Len(s)]
  BY ConcatProperties, LenProperties
<1>2. \A i \in 1..Len(s) : (s \o u)[i] = s[i] /\ i \in 1..Len(s) + Len(u)
  BY <1>1
<1>3. \A i \in 1..Len(u) : /\ (s \o u)[i + Len(s)] = u[i]
                           /\ i + Len(s) \in 1..Len(s) + Len(u)
  BY <1>1
<1>4. \A i \in 1..Len(s) + Len(u) :
        i \in 1..Len(s) \/ (i - Len(s) \in 1..Len(u) /\ (s \o u)[i] = u[i - Len(s)])
  BY <1>1
<1>5. SeqRange(s \o u) = SeqRange(s) \cup SeqRange(u)
  <2>1. SeqRange(s \o u) \subseteq SeqRange(s) \cup SeqRange(u)
    BY <1>1, <1>2, <1>4 DEF SeqRange
  <2>2. SeqRange(s) \subseteq SeqRange(s \o u)
    BY <1>1, <1>2 DEF SeqRange
  <2>3. SeqRange(u) \subseteq SeqRange(s \o u)
    BY <1>1, <1>3 DEF SeqRange
  <2> QED
    BY <2>1, <2>2, <2>3
<1>6. Increasing(s \o u)
  <2> SUFFICES ASSUME NEW i \in 1..Len(s) + Len(u), NEW j \in 1..Len(s) + Len(u), i < j
               PROVE  (s \o u)[i].seq < (s \o u)[j].seq
    BY <1>1 DEF Increasing
  <2>1. CASE i \in 1..Len(s) /\ j \in 1..Len(s)
    BY <1>2, <2>1 DEF Increasing
  <2>2. CASE i \in 1..Len(s) /\ j \notin 1..Len(s)
    BY <1>2, <1>4, <2>2 DEF SeqRange
  <2>3. CASE i \notin 1..Len(s)
    <3>1. /\ i - Len(s) \in 1..Len(u) /\ j - Len(s) \in 1..Len(u)
          /\ i - Len(s) < j - Len(s)
      BY <1>1, <1>4, <2>3
    <3>2. (s \o u)[i] = u[i - Len(s)] /\ (s \o u)[j] = u[j - Len(s)]
      BY <1>1, <2>3
    <3> QED
      BY <3>1, <3>2 DEF Increasing
  <2> QED
    BY <2>1, <2>2, <2>3
<1> QED
  BY <1>5, <1>6

LEMMA OrderStep == DispatchInv /\ [Next]_vars => OrderInv'
<1> SUFFICES ASSUME DispatchInv, [Next]_vars
             PROVE  OrderInv'
  OBVIOUS
<1>0. arrived \in Nat /\ MaxMsgs \in Nat /\ \A m \in Message : m.seq \in Nat
  BY MaxMsgsAssumption DEF DispatchInv, TypeOK, Message
<1>t. /\ messages \in Seq(Message) /\ handled \in Seq(Message)
      /\ inHand \in Message \cup {NULL}
  BY DEF DispatchInv, TypeOK
<1>r. SeqRange(messages) \subseteq Message /\ SeqRange(handled) \subseteq Message
  BY <1>t, ElementOfSeq DEF SeqRange
<1> USE DEF OrderInv, DispatchInv
<1>1. ASSUME UNCHANGED <<arrived, messages, inHand, handled>>
      PROVE  OrderInv'
  BY <1>1 DEF Increasing, SeqRange, InHand
<1>2. ASSUME NEW p \in Peers, NEW k \in Kinds, Receive(p, k)
      PROVE  OrderInv'
  <2> DEFINE m == [from |-> p, kind |-> k, seq |-> arrived + 1]
  <2>1. m \in Message /\ m.seq = arrived + 1
    BY <1>0, <1>2 DEF Receive, Message, TypeOK
  <2>2. UNCHANGED <<inHand, handled>> /\ arrived' = arrived + 1
    BY <1>2 DEF Receive
  <2>3. InHand' = InHand /\ InHand \subseteq Message
    BY <1>t, <2>2 DEF InHand
  <2>4. \A x \in SeqRange(messages) \cup SeqRange(handled) \cup InHand :
           x.seq <= arrived /\ x.seq < arrived + 1 /\ x.seq <= arrived + 1
    BY <1>0, <1>r, <2>3
  <2>5. CASE messages' = messages
    BY <1>0, <1>1, <2>2, <2>3, <2>4, <2>5
  <2>6. CASE messages' = Append(messages, m)
    <3> HIDE DEF m
    <3>1. /\ SeqRange(messages') = SeqRange(messages) \cup {m}
          /\ Increasing(messages')
      BY <1>0, <1>t, <2>1, <2>4, <2>6, AppendRange
    <3> QED
      BY <1>0, <2>1, <2>2, <2>3, <2>4, <3>1
  <2> QED
    BY <1>2, <2>5, <2>6 DEF Receive, ReceiveReply, ReceiveOther
<1>3. CASE PopMessage
  <2>1. /\ inHand' = Head(messages) /\ messages' = Tail(messages)
        /\ messages # << >> /\ UNCHANGED <<arrived, handled>>
    BY <1>3 DEF PopMessage
  <2>2. /\ Increasing(messages')
        /\ SeqRange(messages') \subseteq SeqRange(messages)
        /\ inHand' \in SeqRange(messages)
        /\ \A x \in SeqRange(messages') : inHand'.seq < x.seq
    BY <1>t, <2>1, TailRange
  <2>3. InHand' \subseteq {inHand'}
    BY DEF InHand
  <2> QED
    BY <2>1, <2>2, <2>3
<1>4. CASE HandOver
  <2>1. /\ inHand \in Message /\ inHand \in InHand
        /\ handled' = Append(handled, inHand) /\ inHand' = NULL
        /\ UNCHANGED <<arrived, messages>>
    BY <1>4, <1>t DEF HandOver, HandInv, InHand
  <2>2. /\ SeqRange(handled') = SeqRange(handled) \cup {inHand}
        /\ Increasing(handled')
    BY <1>t, <2>1, AppendRange
  <2>3. InHand' = {}
    BY <2>1 DEF InHand
  <2> QED
    BY <2>1, <2>2, <2>3
<1>5. CASE Drop
  <2>1. inHand' = NULL /\ UNCHANGED <<arrived, messages, handled>>
    BY <1>5 DEF Drop
  <2>2. InHand' = {}
    BY <2>1 DEF InHand
  <2> QED
    BY <2>1, <2>2
<1>6. ASSUME NEW t \in Threads, WaitStep(t)
      PROVE  OrderInv'
  <2>1. UNCHANGED <<arrived, messages, inHand, handled>>
    BY <1>6 DEF WaitStep, WaitForClaim, Elapse, LoopTop, TakeReply, WakeInVain, GiveUp
  <2> QED
    BY <1>1, <2>1
<1>7. ASSUME EndHandler \/ SetJsonHandler \/ setJsonHandler \/ UNCHANGED vars
      PROVE  OrderInv'
  <2>1. UNCHANGED <<arrived, messages, inHand, handled>>
    BY <1>7 DEF EndHandler, SetJsonHandler, setJsonHandler
  <2> QED
    BY <1>1, <2>1
<1> QED
  BY <1>2, <1>3, <1>4, <1>5, <1>6, <1>7 DEF Next, HandlerStep

-----------------------------------------------------------------------------
LEMMA DispatchInit == Init => DispatchInv
<1> SUFFICES ASSUME Init
             PROVE  DispatchInv
  OBVIOUS
<1> USE MaxMsgsAssumption DEF Init
<1>1. TypeOK
  <2>1. << >> \in Seq(Message) /\ 0 \in 0..MaxMsgs
    BY EmptySeq
  <2> QED
    BY <2>1 DEF TypeOK
<1>2. OneWaiter /\ HandInv
  BY DEF OneWaiter, HandInv, InWait
<1>3. AnswerInv /\ WakeInv
  BY DEF AnswerInv, WakeInv, NotSleptOver, ReplyFits, Slot
<1>4. OrderInv
  <2>1. Len(messages) = 0 /\ Len(handled) = 0
    BY EmptySeq
  <2> QED
    BY <2>1 DEF OrderInv, Increasing, SeqRange, InHand
<1> QED
  BY <1>1, <1>2, <1>3, <1>4 DEF DispatchInv

\* The inductive invariant holds in every reachable state, for any peers, any
\* threads and any number of messages.
THEOREM DispatchInvariant == Spec => []DispatchInv
<1>1. DispatchInv /\ [Next]_vars => DispatchInv'
  BY TypeStep, HandStep, WaiterStep, AnswerStep, WakeStep, OrderStep DEF DispatchInv
<1> QED
  BY <1>1, DispatchInit, PTL DEF Spec

\* No variable leaves its type.
THEOREM TypeCorrect == Spec => []TypeOK
BY DispatchInvariant, PTL DEF DispatchInv

\* The wait request belongs to exactly one thread, which is inside waitFor.
THEOREM WaiterUnique == Spec => []OneWaiter
BY DispatchInvariant, PTL DEF DispatchInv

\* waitFor never returns a message of another peer or another kind, or one
\* that was dispatched before the call.
THEOREM ReplyCorrect == Spec => []ReplyFits
<1>1. DispatchInv => ReplyFits
  BY DEF DispatchInv, AnswerInv
<1> QED
  BY <1>1, DispatchInvariant, PTL

\* No reply is stored past a sleeping thread without waking it.
THEOREM NoMissedReply == Spec => []NotSleptOver
<1>1. DispatchInv => NotSleptOver
  BY DEF DispatchInv, WakeInv
<1> QED
  BY <1>1, DispatchInvariant, PTL

\* The handler sees messages in the order they were dispatched.
THEOREM OrderCorrect == Spec => []HandlerOrder
<1>1. DispatchInv => HandlerOrder
  <2> SUFFICES ASSUME DispatchInv
               PROVE  HandlerOrder
    OBVIOUS
  <2>1. /\ messages \in Seq(Message) /\ handled \in Seq(Message)
        /\ inHand \in Message \cup {NULL}
        /\ OrderInv
    BY DEF DispatchInv, TypeOK
  <2>2. /\ InHandSeq \in Seq(Message) /\ SeqRange(InHandSeq) = InHand
        /\ Increasing(InHandSeq)
    <3>1. CASE inHand = NULL
      <4>1. InHandSeq = << >> /\ InHand = {}
        BY <3>1 DEF InHandSeq, InHand
      <4> QED
        BY <4>1, EmptySeq DEF SeqRange, Increasing
    <3>2. CASE inHand # NULL
      <4>1. /\ InHandSeq = <<inHand>> /\ InHand = {inHand} /\ inHand \in Message
        BY <2>1, <3>2 DEF InHandSeq, InHand
      <4>2. /\ InHandSeq \in Seq(Message) /\ Len(InHandSeq) = 1
            /\ InHandSeq[1] = inHand
        BY <4>1
      <4>3. SeqRange(InHandSeq) = InHand
        BY <4>1, <4>2 DEF SeqRange
      <4> QED
        BY <4>2, <4>3 DEF Increasing
    <3> QED
      BY <3>1, <3>2
  <2>3. /\ handled \o InHandSeq \in Seq(Message)
        /\ Increasing(handled \o InHandSeq)
        /\ SeqRange(handled \o InHandSeq) = SeqRange(handled) \cup InHand
    BY <2>1, <2>2, ConcatProperties, ConcatIncreasing DEF OrderInv
  <2>4. Increasing((handled \o InHandSeq) \o messages)
    BY <2>1, <2>3, ConcatIncreasing DEF OrderInv
  <2> QED
    BY <2>4 DEF HandlerOrder
<1> QED
  BY <1>1, DispatchInvariant, PTL

-----------------------------------------------------------------------------
(* Conservation.  A[i] are the numbers of the messages in the i-th place.    *)

Partition(A, N) ==
  /\ \A n \in 1..N : \E i \in 1..7 : \A j \in 1..7 : n \in A[j] <=> i = j
  /\ \A i \in 1..7 : A[i] \subseteq 1..N

\* Some numbers go from one place to another.
LEMMA Moves ==
  ASSUME NEW N \in Nat, NEW A, NEW B, Partition(A, N),
         NEW i \in 1..7, NEW j \in 1..7, i # j, NEW M \in SUBSET A[i],
         B[i] = A[i] \ M, B[j] = A[j] \cup M,
         \A k \in 1..7 : k # i /\ k # j => B[k] = A[k]
  PROVE  Partition(B, N)
<1>1. ASSUME NEW n \in 1..N
      PROVE  \E k \in 1..7 : \A l \in 1..7 : n \in B[l] <=> k = l
  <2>1. PICK k \in 1..7 : \A l \in 1..7 : n \in A[l] <=> k = l
    BY DEF Partition
  <2>2. CASE n \in M
    <3>1. k = i
      BY <2>1, <2>2
    <3>2. \A l \in 1..7 : n \in B[l] <=> j = l
      BY <2>1, <2>2, <3>1
    <3> QED
      BY <3>2
  <2>3. CASE n \notin M
    <3>1. \A l \in 1..7 : n \in B[l] <=> n \in A[l]
      BY <2>3
    <3> QED
      BY <2>1, <3>1
  <2> QED
    BY <2>2, <2>3
<1>2. \A k \in 1..7 : B[k] \subseteq 1..N
  BY DEF Partition
<1> QED
  BY <1>1, <1>2 DEF Partition

\* A new number comes to one place.
LEMMA Comes ==
  ASSUME NEW N \in Nat, NEW A, NEW B, Partition(A, N), NEW i \in 1..7,
         B[i] = A[i] \cup {N + 1}, \A k \in 1..7 : k # i => B[k] = A[k]
  PROVE  Partition(B, N + 1)
<1>1. \A k \in 1..7 : N + 1 \notin A[k] /\ A[k] \subseteq 1..N + 1
  BY DEF Partition
<1>2. ASSUME NEW n \in 1..N + 1
      PROVE  \E k \in 1..7 : \A l \in 1..7 : n \in B[l] <=> k = l
  <2>1. CASE n = N + 1
    BY <1>1, <2>1
  <2>2. CASE n # N + 1
    <3>1. n \in 1..N
      BY <2>2
    <3>2. PICK k \in 1..7 : \A l \in 1..7 : n \in A[l] <=> k = l
      BY <3>1 DEF Partition
    <3>3. \A l \in 1..7 : n \in B[l] <=> n \in A[l]
      BY <2>2
    <3> QED
      BY <3>2, <3>3
  <2> QED
    BY <2>1, <2>2
<1>3. \A k \in 1..7 : B[k] \subseteq 1..N + 1
  BY <1>1
<1> QED
  BY <1>2, <1>3 DEF Partition

Numbers(S) == {m.seq : m \in S}

Replies == {r.reply : r \in returned}

Where == [i \in 1..7 |-> Numbers(Places[i])]

PlacedInv == Partition(Where, arrived)

LEMMA WhereIs ==
  /\ Where[1] = Numbers(SeqRange(messages)) /\ Where[2] = Numbers(InHand)
  /\ Where[3] = Numbers(SeqRange(handled)) /\ Where[4] = Numbers(dropped)
  /\ Where[5] = Numbers(Slot) /\ Where[6] = Numbers(Replies)
  /\ Where[7] = Numbers(lost)
BY DEF Where, Places, Replies

LEMMA WhereNext ==
  /\ Where'[1] = Numbers(SeqRange(messages))' /\ Where'[2] = Numbers(InHand)'
  /\ Where'[3] = Numbers(SeqRange(handled))' /\ Where'[4] = Numbers(dropped)'
  /\ Where'[5] = Numbers(Slot)' /\ Where'[6] = Numbers(Replies)'
  /\ Where'[7] = Numbers(lost)'
BY DEF Where, Places, Replies

\* What stays where it is.
LEMMA Stays ==
  /\ messages' = messages => Where'[1] = Where[1]
  /\ inHand' = inHand => Where'[2] = Where[2]
  /\ handled' = handled => Where'[3] = Where[3]
  /\ dropped' = dropped => Where'[4] = Where[4]
  /\ amWaitingFor' = amWaitingFor => Where'[5] = Where[5]
  /\ returned' = returned => Where'[6] = Where[6]
  /\ lost' = lost => Where'[7] = Where[7]
<1>1. messages' = messages => Numbers(SeqRange(messages))' = Numbers(SeqRange(messages))
  BY DEF Numbers, SeqRange
<1>2. inHand' = inHand => Numbers(InHand)' = Numbers(InHand)
  BY DEF Numbers, InHand
<1>3. handled' = handled => Numbers(SeqRange(handled))' = Numbers(SeqRange(handled))
  BY DEF Numbers, SeqRange
<1>4. dropped' = dropped => Numbers(dropped)' = Numbers(dropped)
  BY DEF Numbers
<1>5. amWaitingFor' = amWaitingFor => Numbers(Slot)' = Numbers(Slot)
  BY DEF Numbers, Slot
<1>6. returned' = returned => Numbers(Replies)' = Numbers(Replies)
  BY DEF Numbers, Replies
<1>7. lost' = lost => Numbers(lost)' = Numbers(lost)
  BY DEF Numbers
<1> QED
  BY <1>1, <1>2, <1>3, <1>4, <1>5, <1>6, <1>7, WhereIs, WhereNext

LEMMA Union == \A S, T : Numbers(S \cup T) = Numbers(S) \cup Numbers(T)
BY DEF Numbers

LEMMA PlacedStep ==
  ASSUME DispatchInv, PlacedInv, [Next]_vars
  PROVE  PlacedInv'
<1>0. TypeOK /\ HandInv /\ arrived \in Nat /\ PlacedInv
  BY DEF DispatchInv, TypeOK
<1>s. ASSUME UNCHANGED <<arrived, messages, inHand, handled, dropped, amWaitingFor,
                         returned, lost>>
      PROVE  PlacedInv'
  <2>1. Where' = Where
    BY <1>s DEF Where, Places, SeqRange, InHand, Slot
  <2> QED
    BY <1>s, <1>0, <2>1 DEF PlacedInv, Partition
<1>1. ASSUME NEW p \in Peers, NEW k \in Kinds, Receive(p, k)
      PROVE  PlacedInv'
  <2> DEFINE m == [from |-> p, kind |-> k, seq |-> arrived + 1]
  <2>1. /\ m \in Message /\ m.seq = arrived + 1 /\ arrived' = arrived + 1
        /\ m # NULL
        /\ UNCHANGED <<inHand, handled, dropped, returned>>
    BY <1>0, <1>1, MaxMsgsAssumption, NullAssumption DEF Receive, Message
  <2> HIDE DEF m
  <2>2. CASE ReceiveReply(m)
    <3> DEFINE B == [i \in 1..7 |-> IF i = 5 THEN {} ELSE
                                    IF i = 7 THEN Where[7] \cup Where[5] ELSE Where[i]]
    <3>1. Partition(B, arrived)
      <4>1. B[5] = Where[5] \ Where[5] /\ B[7] = Where[7] \cup Where[5]
            /\ \A i \in 1..7 : i # 5 /\ i # 7 => B[i] = Where[i]
        OBVIOUS
      <4> HIDE DEF B
      <4> QED
        BY <1>0, <4>1, Moves DEF PlacedInv
    <3>2. Slot' = {m}
      <4>1. amWaitingFor \in WaitRequest
        BY <1>0, <2>2 DEF ReceiveReply, isWaitResponse, TypeOK
      <4>2. amWaitingFor' # NULL /\ amWaitingFor'.jsonReply = m
        BY <2>1, <2>2, <4>1, NullAssumption DEF ReceiveReply, WaitRequest
      <4> QED
        BY <2>1, <4>2 DEF Slot
    <3>3. Where'[5] = B[5] \cup {arrived + 1}
      BY <2>1, <3>2, WhereNext DEF Numbers
    <3>4. \A i \in 1..7 : i # 5 => Where'[i] = B[i]
      <4>1. Where'[7] = B[7]
        BY <2>2, WhereIs, WhereNext, Union DEF ReceiveReply
      <4>2. Where'[1] = B[1] /\ Where'[2] = B[2] /\ Where'[3] = B[3] /\ Where'[4] = B[4]
            /\ Where'[6] = B[6]
        BY <2>1, <2>2, Stays DEF ReceiveReply
      <4> QED
        BY <4>1, <4>2
    <3> HIDE DEF B
    <3> QED
      BY <1>0, <2>1, <3>1, <3>3, <3>4, Comes DEF PlacedInv
  <2>3. CASE ReceiveOther(m)
    <3>1. SeqRange(messages)' = SeqRange(messages) \cup {m}
      BY <1>0, <2>1, <2>3, AppendRange DEF ReceiveOther, TypeOK
    <3>2. Where'[1] = Where[1] \cup {arrived + 1}
      BY <2>1, <3>1, WhereIs, WhereNext DEF Numbers
    <3>3. /\ Where'[2] = Where[2] /\ Where'[3] = Where[3] /\ Where'[4] = Where[4]
          /\ Where'[5] = Where[5] /\ Where'[6] = Where[6] /\ Where'[7] = Where[7]
      BY <2>1, <2>3, Stays DEF ReceiveOther
    <3>4. \A i \in 1..7 : i # 1 => Where'[i] = Where[i]
      BY <3>3
    <3> QED
      BY <1>0, <2>1, <3>2, <3>4, Comes DEF PlacedInv
  <2> QED
    BY <1>1, <2>2, <2>3 DEF Receive, m
<1>2. ASSUME NEW t \in Threads, WaitStep(t)
      PROVE  PlacedInv'
  <2>1. ASSUME NEW p \in Peers, NEW k \in Kinds, WaitForClaim(t, p, k)
        PROVE  PlacedInv'
    <3>1. Slot' = Slot
      BY <2>1 DEF WaitForClaim, requestFree, Slot
    <3>2. UNCHANGED <<arrived, messages, inHand, handled, dropped, returned, lost>>
      BY <2>1 DEF WaitForClaim
    <3>3. Where' = Where
      BY <3>1, <3>2 DEF Where, Places, SeqRange, InHand
    <3> QED
      BY <1>0, <3>2, <3>3 DEF PlacedInv
  <2>2. CASE Elapse(t) \/ LoopTop(t) \/ WakeInVain(t)
    BY <1>s, <2>2 DEF Elapse, LoopTop, WakeInVain
  <2>3. CASE TakeReply(t)
    <3>1. /\ Slot = {amWaitingFor.jsonReply} /\ Slot' = {}
          /\ UNCHANGED <<arrived, messages, inHand, handled, dropped, lost>>
      BY <2>3 DEF TakeReply, Slot
    <3>2. Replies' = Replies \cup Slot
      <4> DEFINE r == [to |-> t, fromUri |-> amWaitingFor.fromUri, val |-> amWaitingFor.val,
                       since |-> since[t], reply |-> amWaitingFor.jsonReply]
      <4>1. returned' = returned \cup {r} /\ r.reply = amWaitingFor.jsonReply
        BY <2>3 DEF TakeReply
      <4> HIDE DEF r
      <4> QED
        BY <3>1, <4>1 DEF Replies
    <3>3. Where'[5] = Where[5] \ Where[5]
      BY <3>1, WhereNext DEF Numbers
    <3>4. Where'[6] = Where[6] \cup Where[5]
      BY <3>2, WhereIs, WhereNext, Union
    <3>5. /\ Where'[1] = Where[1] /\ Where'[2] = Where[2] /\ Where'[3] = Where[3]
          /\ Where'[4] = Where[4] /\ Where'[7] = Where[7]
      BY <3>1, Stays
    <3>6. \A i \in 1..7 : i # 5 /\ i # 6 => Where'[i] = Where[i]
      BY <3>5
    <3> QED
      BY <1>0, <3>1, <3>3, <3>4, <3>6, Moves DEF PlacedInv
  <2>4. CASE GiveUp(t)
    <3>1. /\ Slot' = {} /\ lost' = lost \cup Slot
          /\ UNCHANGED <<arrived, messages, inHand, handled, dropped, returned>>
      BY <2>4 DEF GiveUp, Slot
    <3>2. Where'[5] = Where[5] \ Where[5]
      BY <3>1, WhereNext DEF Numbers
    <3>3. Where'[7] = Where[7] \cup Where[5]
      BY <3>1, WhereIs, WhereNext, Union
    <3>4. /\ Where'[1] = Where[1] /\ Where'[2] = Where[2] /\ Where'[3] = Where[3]
          /\ Where'[4] = Where[4] /\ Where'[6] = Where[6]
      BY <3>1, Stays
    <3>5. \A i \in 1..7 : i # 5 /\ i # 7 => Where'[i] = Where[i]
      BY <3>4
    <3> QED
      BY <1>0, <3>1, <3>2, <3>3, <3>5, Moves DEF PlacedInv
  <2> QED
    BY <1>2, <2>1, <2>2, <2>3, <2>4 DEF WaitStep
<1>3. CASE PopMessage
  <2> DEFINE m == Head(messages)
  <2>1. /\ messages \in Seq(Message) /\ messages # << >> /\ Increasing(messages)
        /\ inHand = NULL /\ inHand' = m /\ messages' = Tail(messages)
        /\ UNCHANGED <<arrived, amWaitingFor, handled, dropped, returned, lost>>
    BY <1>0, <1>3 DEF PopMessage, DispatchInv, OrderInv, HandInv, TypeOK
  <2>2. m \in Message /\ m # NULL
    BY <2>1, HeadTailProperties, NullAssumption
  <2>3. /\ SeqRange(messages) = SeqRange(Tail(messages)) \cup {m}
        /\ \A x \in SeqRange(Tail(messages)) : x.seq # m.seq
    BY <2>1, HeadAndTail
  <2> HIDE DEF m
  <2>4. InHand = {} /\ InHand' = {m}
    BY <2>1, <2>2 DEF InHand
  <2>5. Where[2] = {} /\ Where'[2] = {m.seq}
    BY <2>4, WhereIs, WhereNext DEF Numbers
  <2>6. /\ Where[1] = Numbers(SeqRange(Tail(messages))) \cup {m.seq}
        /\ Where'[1] = Numbers(SeqRange(Tail(messages)))
    <3>1. SeqRange(messages)' = SeqRange(Tail(messages))
      BY <2>1 DEF SeqRange
    <3>2. Numbers(SeqRange(Tail(messages)) \cup {m})
            = Numbers(SeqRange(Tail(messages))) \cup {m.seq}
      BY DEF Numbers
    <3>3. Numbers(SeqRange(messages))' = Numbers(SeqRange(Tail(messages)))
      BY <3>1 DEF Numbers
    <3> QED
      BY <2>3, <3>2, <3>3, WhereIs, WhereNext
  <2>7. m.seq \notin Numbers(SeqRange(Tail(messages)))
    BY <2>3 DEF Numbers
  <2>8. Where'[1] = Where[1] \ {m.seq} /\ Where'[2] = Where[2] \cup {m.seq} /\ m.seq \in Where[1]
    BY <2>5, <2>6, <2>7
  <2>9. /\ Where'[3] = Where[3] /\ Where'[4] = Where[4] /\ Where'[5] = Where[5]
        /\ Where'[6] = Where[6] /\ Where'[7] = Where[7]
    BY <2>1, Stays
  <2>10. \A i \in 1..7 : i # 1 /\ i # 2 => Where'[i] = Where[i]
    BY <2>9
  <2> QED
    <3> DEFINE M == {m.seq}
    <3>1. /\ M \in SUBSET Where[1]
          /\ Where'[1] = Where[1] \ M /\ Where'[2] = Where[2] \cup M
      BY <2>8
    <3> HIDE DEF M
    <3>2. Partition(Where', arrived)
      <4>1. 1 \in 1..7 /\ 2 \in 1..7 /\ 1 # 2
        OBVIOUS
      <4>2. Partition(Where, arrived)
        BY <1>0 DEF PlacedInv
      <4> QED
        BY <1>0, <2>10, <3>1, <4>1, <4>2, Moves
    <3> QED
      BY <2>1, <3>2 DEF PlacedInv
<1>4. CASE HandOver
  <2>1. /\ inHand \in Message /\ inHand # NULL /\ inHand' = NULL
        /\ handled' = Append(handled, inHand) /\ handled \in Seq(Message)
        /\ UNCHANGED <<arrived, messages, amWaitingFor, dropped, returned, lost>>
    BY <1>0, <1>4 DEF HandOver, HandInv, TypeOK
  <2>2. InHand = {inHand} /\ InHand' = {} /\ SeqRange(handled)' = SeqRange(handled) \cup InHand
    BY <2>1, AppendRange DEF InHand
  <2>3. Where'[2] = Where[2] \ Where[2]
    BY <2>2, WhereNext DEF Numbers
  <2>4. Where'[3] = Where[3] \cup Where[2]
    BY <2>2, WhereIs, WhereNext, Union
  <2>5. /\ Where'[1] = Where[1] /\ Where'[4] = Where[4] /\ Where'[5] = Where[5]
        /\ Where'[6] = Where[6] /\ Where'[7] = Where[7]
    BY <2>1, Stays
  <2>6. \A i \in 1..7 : i # 2 /\ i # 3 => Where'[i] = Where[i]
    BY <2>5
  <2> QED
    <3>1. Partition(Where', arrived)
      BY <1>0, <2>3, <2>4, <2>6, Moves DEF PlacedInv
    <3> QED
      BY <2>1, <3>1 DEF PlacedInv
<1>5. CASE Drop
  <2>1. /\ inHand # NULL /\ inHand' = NULL /\ dropped' = dropped \cup {inHand}
        /\ UNCHANGED <<arrived, messages, amWaitingFor, handled, returned, lost>>
    BY <1>0, <1>5 DEF Drop, HandInv
  <2>2. InHand = {inHand} /\ InHand' = {}
    BY <2>1 DEF InHand
  <2>3. Where'[2] = Where[2] \ Where[2]
    BY <2>2, WhereNext DEF Numbers
  <2>4. Where'[4] = Where[4] \cup Where[2]
    BY <2>1, <2>2, WhereIs, WhereNext, Union
  <2>5. /\ Where'[1] = Where[1] /\ Where'[3] = Where[3] /\ Where'[5] = Where[5]
        /\ Where'[6] = Where[6] /\ Where'[7] = Where[7]
    BY <2>1, Stays
  <2>6. \A i \in 1..7 : i # 2 /\ i # 4 => Where'[i] = Where[i]
    BY <2>5
  <2> QED
    <3>1. Partition(Where', arrived)
      BY <1>0, <2>3, <2>4, <2>6, Moves DEF PlacedInv
    <3> QED
      BY <2>1, <3>1 DEF PlacedInv
<1>6. CASE SetJsonHandler \/ setJsonHandler \/ EndHandler \/ UNCHANGED vars
  BY <1>s, <1>6 DEF SetJsonHandler, setJsonHandler, EndHandler
<1> QED
  BY <1>1, <1>2, <1>3, <1>4, <1>5, <1>6 DEF Next, HandlerStep

\* No message is handled twice, handled and returned to a waiter as well, or
\* forgotten without being dropped or lost (PeerManager.cpp:210-222, 340-355).
THEOREM NothingTwice == Spec => []Conservation
<1>1. Init => PlacedInv
  <2> SUFFICES ASSUME Init PROVE PlacedInv
    OBVIOUS
  <2>1. arrived = 0 /\ 1..arrived = {}
    BY DEF Init
  <2>2. \A i \in 1..7 : Where[i] = {}
    <3>1. /\ SeqRange(messages) = {} /\ InHand = {} /\ SeqRange(handled) = {} /\ dropped = {}
          /\ Slot = {} /\ Replies = {} /\ lost = {}
      <4>1. Len(messages) = 0 /\ Len(handled) = 0
        BY EmptySeq DEF Init
      <4> QED
        BY <4>1 DEF Init, SeqRange, InHand, Slot, Replies
    <3>2. Numbers({}) = {}
      BY DEF Numbers
    <3> QED
      BY <3>1, <3>2, WhereIs
  <2> QED
    BY <2>1, <2>2 DEF PlacedInv, Partition
<1>2. PlacedInv => Conservation
  <2> SUFFICES ASSUME PlacedInv, NEW n \in 1..arrived
               PROVE  \E i \in DOMAIN Places : \A j \in DOMAIN Places :
                         (\E m \in Places[j] : m.seq = n) <=> i = j
    BY DEF Conservation
  <2>1. DOMAIN Places = 1..7
    BY DEF Places
  <2>2. \A j \in 1..7 : n \in Where[j] <=> \E m \in Places[j] : m.seq = n
    BY DEF Where, Numbers
  <2>3. PICK i \in 1..7 : \A j \in 1..7 : n \in Where[j] <=> i = j
    BY DEF PlacedInv, Partition
  <2> QED
    BY <2>1, <2>2, <2>3
<1>3. DispatchInv /\ PlacedInv /\ [Next]_vars => PlacedInv'
  BY PlacedStep
<1> QED
  BY <1>1, <1>2, <1>3, DispatchInvariant, PTL DEF Spec

-----------------------------------------------------------------------------
(* Refinement of Mailbox.                                                   *)

LEMMA WaiterIs ==
  ASSUME OneWaiter, NEW t \in Threads, InWait(t)
  PROVE  Waiter = t /\ amWaitingFor # NULL
BY DEF OneWaiter, Waiter

\* A step that leaves the request and its owner alone is invisible in Asking.
LEMMA AskingStays ==
  ASSUME OneWaiter, OneWaiter', amWaitingFor' = amWaitingFor,
         \A t \in Threads : InWait(t)' <=> InWait(t)
  PROVE  Asking' = Asking
<1>1. CASE amWaitingFor = NULL
  BY <1>1 DEF Asking
<1>2. CASE amWaitingFor # NULL
  <2>1. PICK t \in Threads : InWait(t)
    BY <1>2 DEF OneWaiter
  <2>2. Waiter = t
    BY <2>1, WaiterIs
  <2>3. Waiter' = t
    BY <2>1 DEF OneWaiter, Waiter
  <2> QED
    BY <2>2, <2>3 DEF Asking
<1> QED
  BY <1>1, <1>2

LEMMA InHandSeqType ==
  ASSUME TypeOK
  PROVE  InHandSeq \in Seq(Message)
<1>1. CASE inHand = NULL
  BY <1>1, EmptySeq DEF InHandSeq
<1>2. CASE inHand # NULL
  <2>1. inHand \in Message
    BY <1>2 DEF TypeOK
  <2> QED
    BY <1>2, <2>1 DEF InHandSeq
<1> QED
  BY <1>1, <1>2

LEMMA ConcatAppend ==
  ASSUME NEW s \in Seq(Message), NEW u \in Seq(Message), NEW m \in Message
  PROVE  s \o Append(u, m) = Append(s \o u, m)
<1>1. /\ <<m>> \in Seq(Message) /\ Append(u, m) = u \o <<m>>
      /\ s \o u \in Seq(Message)
      /\ Append(s \o u, m) = (s \o u) \o <<m>>
  BY AppendIsConcat, ConcatProperties
<1> QED
  BY <1>1, ConcatAssociative

LEMMA ConsHeadTail ==
  ASSUME NEW m \in Message, NEW s \in Seq(Message)
  PROVE  /\ <<m>> \o s # << >>
         /\ Head(<<m>> \o s) = m
         /\ Tail(<<m>> \o s) = s
<1>1. <<m>> \in Seq(Message) /\ Len(<<m>>) = 1 /\ <<m>>[1] = m
  OBVIOUS
<1>2. /\ <<m>> \o s \in Seq(Message) /\ Len(<<m>> \o s) = 1 + Len(s)
      /\ \A i \in 1..1 + Len(s) : (<<m>> \o s)[i] = IF i <= 1 THEN <<m>>[i] ELSE s[i - 1]
  BY <1>1, ConcatProperties
<1>3. Len(s) \in Nat
  BY LenProperties
<1>4. <<m>> \o s # << >>
  BY <1>2, <1>3, EmptySeq
<1>5. Head(<<m>> \o s) = m
  BY <1>1, <1>2, <1>3, <1>4
<1>6. /\ Tail(<<m>> \o s) \in Seq(Message) /\ Len(Tail(<<m>> \o s)) = Len(s)
      /\ \A i \in 1..Len(s) : Tail(<<m>> \o s)[i] = s[i]
  BY <1>2, <1>3, <1>4, HeadTailProperties
<1> QED
  BY <1>4, <1>5, <1>6, SeqEqual

LEMMA HeadThenTail ==
  ASSUME NEW s \in Seq(Message), s # << >>
  PROVE  <<Head(s)>> \o Tail(s) = s
<1>1. /\ Head(s) \in Message /\ Tail(s) \in Seq(Message)
      /\ Len(Tail(s)) = Len(s) - 1 /\ Len(s) \in Nat /\ Len(s) > 0
      /\ \A i \in 1..Len(Tail(s)) : Tail(s)[i] = s[i + 1]
  BY HeadTailProperties, LenProperties, EmptySeq
<1>2. <<Head(s)>> \in Seq(Message) /\ Len(<<Head(s)>>) = 1 /\ <<Head(s)>>[1] = s[1]
  BY <1>1
<1>3. /\ <<Head(s)>> \o Tail(s) \in Seq(Message)
      /\ Len(<<Head(s)>> \o Tail(s)) = Len(s)
      /\ \A i \in 1..Len(s) : (<<Head(s)>> \o Tail(s))[i] =
             IF i <= 1 THEN <<Head(s)>>[i] ELSE Tail(s)[i - 1]
  BY <1>1, <1>2, ConcatProperties
<1>4. \A i \in 1..Len(s) : (<<Head(s)>> \o Tail(s))[i] = s[i]
  <2> SUFFICES ASSUME NEW i \in 1..Len(s)
               PROVE  (<<Head(s)>> \o Tail(s))[i] = s[i]
    OBVIOUS
  <2>1. CASE i = 1
    BY <1>1, <1>2, <1>3, <2>1
  <2>2. CASE i # 1
    <3>1. i - 1 \in 1..Len(Tail(s)) /\ (i - 1) + 1 = i /\ ~(i <= 1)
      BY <1>1, <2>2
    <3> QED
      BY <1>1, <1>3, <3>1
  <2> QED
    BY <2>1, <2>2
<1> QED
  BY <1>3, <1>4, SeqEqual

\* Mailbox sees a request exactly while there is one.
LEMMA AskingType ==
  ASSUME TypeOK, OneWaiter, amWaitingFor # NULL
  PROVE  /\ Asking # NULL /\ Waiter \in Threads /\ InWait(Waiter)
         /\ Asking = [by |-> Waiter, from |-> amWaitingFor.fromUri,
                      kind |-> amWaitingFor.val, answer |-> amWaitingFor.jsonReply]
<1>1. PICK t \in Threads : InWait(t)
  BY DEF OneWaiter
<1>2. Waiter = t
  BY <1>1, WaiterIs
<1>3. amWaitingFor \in WaitRequest
  BY DEF TypeOK
<1>4. [by |-> Waiter, from |-> amWaitingFor.fromUri, kind |-> amWaitingFor.val,
       answer |-> amWaitingFor.jsonReply]
        \in [by : Threads, from : Peers, kind : Kinds, answer : Message \cup {NULL}]
  BY <1>2, <1>3 DEF WaitRequest
<1> QED
  BY <1>1, <1>2, <1>4, NullAssumption DEF Asking

\* One step of the threads is one step of Mailbox or none.
LEMMA BoxStep ==
  ASSUME DispatchInv, DispatchInv', [Next]_vars
  PROVE  [Box!MNext]_(Box!mvars)
<1> USE DEF DispatchInv
<1>t. /\ messages \in Seq(Message) /\ inHand \in Message \cup {NULL}
      /\ amWaitingFor \in WaitRequest \cup {NULL}
      /\ InHandSeq \in Seq(Message)
  BY InHandSeqType DEF TypeOK
<1>1. ASSUME UNCHANGED <<inHand, messages, handled, amWaitingFor>>,
             \A t \in Threads : InWait(t)' <=> InWait(t)
      PROVE  UNCHANGED Box!mvars
  BY <1>1, AskingStays DEF Box!mvars, InHandSeq
<1>2. ASSUME NEW p \in Peers, NEW k \in Kinds, Receive(p, k)
      PROVE  Box!MNext
  <2> DEFINE m == [from |-> p, kind |-> k, seq |-> arrived + 1]
  <2>1. m \in Message
    BY <1>2, MaxMsgsAssumption DEF Receive, Message, TypeOK
  <2>2. \A t \in Threads : InWait(t)' <=> InWait(t)
    BY <1>2 DEF Receive, InWait, NotifyAll, TypeOK
  <2>3. InHandSeq' = InHandSeq /\ handled' = handled
    BY <1>2 DEF Receive, InHandSeq
  <2> HIDE DEF m
  <2>4. isWaitResponse(m) <=> Box!Fits(m)
    <3>1. CASE amWaitingFor = NULL
      BY <3>1 DEF isWaitResponse, Box!Fits, Asking
    <3>2. CASE amWaitingFor # NULL
      BY <3>2, AskingType DEF isWaitResponse, Box!Fits
    <3> QED
      BY <3>1, <3>2
  <2>5. CASE ReceiveReply(m)
    <3>1. amWaitingFor \in WaitRequest /\ amWaitingFor # NULL /\ messages' = messages
      BY <1>t, <2>5 DEF ReceiveReply, isWaitResponse
    <3>2. /\ amWaitingFor' = [amWaitingFor EXCEPT !.jsonReply = m]
          /\ amWaitingFor' \in WaitRequest
      BY <2>1, <2>5, <3>1 DEF ReceiveReply, WaitRequest
    <3>3. amWaitingFor' # NULL
      BY <3>2, NullAssumption
    <3>4. PICK t \in Threads : InWait(t)
      BY <3>1 DEF OneWaiter
    <3>5. Waiter = t /\ Waiter' = t
      BY <2>2, <3>4 DEF OneWaiter, Waiter
    <3>6. Asking' = [by |-> Waiter, from |-> amWaitingFor.fromUri,
                     kind |-> amWaitingFor.val, answer |-> m]
      BY <3>1, <3>2, <3>3, <3>5 DEF Asking, WaitRequest
    <3>7. Asking' = [Asking EXCEPT !.answer = m]
      BY <3>1, <3>6, AskingType
    <3>8. Box!Fits(m)
      BY <2>4, <2>5 DEF ReceiveReply
    <3> QED
      BY <2>1, <2>3, <3>1, <3>7, <3>8 DEF Box!MNext, Box!Arrive
  <2>6. CASE ReceiveOther(m)
    <3>1. ~Box!Fits(m) /\ messages' = Append(messages, m) /\ amWaitingFor' = amWaitingFor
      BY <2>4, <2>6 DEF ReceiveOther
    <3>2. Asking' = Asking
      BY <2>2, <3>1, AskingStays
    <3>3. InHandSeq' \o messages' = Append(InHandSeq \o messages, m)
      BY <1>t, <2>1, <2>3, <3>1, ConcatAppend
    <3> QED
      BY <2>1, <2>3, <3>1, <3>2, <3>3 DEF Box!MNext, Box!Arrive
  <2> QED
    BY <1>2, <2>5, <2>6 DEF Receive, m
<1>3. ASSUME NEW t \in Threads, NEW p \in Peers, NEW k \in Kinds, WaitForClaim(t, p, k)
      PROVE  Box!MNext
  <2>1. /\ amWaitingFor = NULL
        /\ amWaitingFor' = [fromUri |-> p, val |-> k, jsonReply |-> NULL]
        /\ UNCHANGED <<inHand, messages, handled>>
    BY <1>3 DEF WaitForClaim, requestFree
  <2>2. amWaitingFor' # NULL
    BY <2>1, NullAssumption DEF WaitRequest
  <2>3. InWait(t)'
    BY <1>3 DEF WaitForClaim, InWait, TypeOK
  <2>4. Waiter' = t
    BY <2>3 DEF OneWaiter, Waiter
  <2>5. Asking' = [by |-> t, from |-> p, kind |-> k, answer |-> NULL]
    BY <2>1, <2>2, <2>4 DEF Asking
  <2> QED
    BY <2>1, <2>5 DEF Box!MNext, Box!Ask, Asking, InHandSeq
<1>4. ASSUME NEW t \in Threads, TakeReply(t) \/ GiveUp(t)
      PROVE  Box!MNext
  <2>1. InWait(t) /\ amWaitingFor' = NULL /\ UNCHANGED <<inHand, messages, handled>>
    BY <1>4 DEF TakeReply, GiveUp, InWait
  <2>2. Asking # NULL /\ Asking' = NULL
    BY <2>1, WaiterIs, AskingType DEF Asking
  <2> QED
    BY <2>1, <2>2 DEF Box!MNext, Box!EndAsk, InHandSeq
<1>5. ASSUME NEW t \in Threads, Elapse(t) \/ LoopTop(t) \/ WakeInVain(t)
      PROVE  UNCHANGED Box!mvars
  <2>1. UNCHANGED <<inHand, messages, handled, amWaitingFor>>
    BY <1>5 DEF Elapse, LoopTop, WakeInVain
  <2>2. \A u \in Threads : InWait(u)' <=> InWait(u)
    BY <1>5 DEF Elapse, LoopTop, WakeInVain, InWait, TypeOK
  <2> QED
    BY <1>1, <2>1, <2>2
<1>6. CASE PopMessage
  <2>1. /\ inHand = NULL /\ inHand' = Head(messages) /\ messages' = Tail(messages)
        /\ inHand' # NULL /\ messages # << >>
        /\ UNCHANGED <<handled, amWaitingFor, pc>>
    BY <1>6 DEF PopMessage, HandInv
  <2>2. InHandSeq = << >> /\ InHandSeq' = <<Head(messages)>>
    BY <2>1 DEF InHandSeq
  <2>3. InHandSeq \o messages = messages
    BY <1>t, <2>2, ConcatEmptySeq
  <2>4. InHandSeq' \o messages' = messages
    BY <1>t, <2>1, <2>2, HeadThenTail
  <2>5. Asking' = Asking
    BY <2>1, AskingStays DEF InWait
  <2> QED
    BY <2>1, <2>3, <2>4, <2>5 DEF Box!mvars
<1>7. CASE HandOver \/ Drop
  <2>1. /\ inHand \in Message /\ inHand # NULL /\ inHand' = NULL
        /\ UNCHANGED <<messages, amWaitingFor, pc>>
        /\ handled' \in {handled, Append(handled, inHand)}
    BY <1>7, <1>t DEF HandOver, Drop, HandInv
  <2>2. InHandSeq = <<inHand>> /\ InHandSeq' = << >>
    BY <2>1 DEF InHandSeq
  <2>3. InHandSeq' \o messages' = messages
    BY <1>t, <2>1, <2>2, ConcatEmptySeq
  <2>4. /\ InHandSeq \o messages # << >>
        /\ Head(InHandSeq \o messages) = inHand
        /\ Tail(InHandSeq \o messages) = messages
    BY <1>t, <2>1, <2>2, ConsHeadTail
  <2>5. Asking' = Asking
    BY <2>1, AskingStays DEF InWait
  <2> QED
    BY <2>1, <2>3, <2>4, <2>5 DEF Box!MNext, Box!Deliver
<1>8. ASSUME EndHandler \/ SetJsonHandler \/ setJsonHandler \/ UNCHANGED vars
      PROVE  UNCHANGED Box!mvars
  <2>1. UNCHANGED <<inHand, messages, handled, amWaitingFor, pc>>
    BY <1>8 DEF EndHandler, SetJsonHandler, setJsonHandler
  <2> QED
    BY <1>1, <2>1 DEF InWait
<1> QED
  BY <1>2, <1>3, <1>4, <1>5, <1>6, <1>7, <1>8 DEF Next, WaitStep, HandlerStep

\* Every behaviour of the threads is a behaviour of Mailbox.
THEOREM Refinement == Spec => ImplementsMailbox
<1>1. Init => Box!MInit
  <2> SUFFICES ASSUME Init
               PROVE  Box!MInit
    OBVIOUS
  <2>1. InHandSeq = << >> /\ messages = << >> /\ handled = << >> /\ Asking = NULL
    BY DEF Init, InHandSeq, Asking
  <2>2. InHandSeq \o messages = << >>
    BY <2>1, ConcatEmptySeq, EmptySeq
  <2> QED
    BY <2>1, <2>2 DEF Box!MInit
<1>2. DispatchInv /\ DispatchInv' /\ [Next]_vars => [Box!MNext]_(Box!mvars)
  BY BoxStep
<1> QED
  BY <1>1, <1>2, DispatchInvariant, PTL DEF Spec, ImplementsMailbox, Box!MSpec
=============================================================================
