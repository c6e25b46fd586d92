--------------------------- MODULE Library_proofs ---------------------------
(* Proofs about parts of the library that have no threads of their own:      *)
(* MessageQueue, for any threads, messages and bound; ModuleUri, for any     *)
(* names, numbers and junk; SavedPages with FileServer and HTTPClient, for   *)
(* any threads, bodies, paths and URLs.  They share no state.                *)
EXTENDS MessageQueue, ModuleUri, SavedPages, StringModifier,
        SequenceTheorems, FiniteSetTheorems, TLAPS

-----------------------------------------------------------------------------
(* MessageQueue.                                                             *)

\* The mutex is kept only by a pop that found nothing, and nothing comes in
\* while it is kept.
KeptWhenEmpty == p_mutex # None => mq = << >> /\ lock = "works"

QueueInv == TypeOK /\ FirstInFirstOut /\ KeptWhenEmpty

LEMMA AppendLast ==
  ASSUME NEW s \in Seq(Messages), NEW u \in Seq(Messages), NEW x \in Messages
  PROVE  Append(s \o u, x) = s \o Append(u, x)
<1>1. <<x>> \in Seq(Messages) /\ s \o u \in Seq(Messages)
  BY ConcatProperties
<1>2. Append(s \o u, x) = (s \o u) \o <<x>> /\ Append(u, x) = u \o <<x>>
  BY <1>1, AppendIsConcat
<1> QED
  BY <1>1, <1>2, ConcatAssociative

\* Taking the first element of the second sequence to the end of the first.
LEMMA MoveFirst ==
  ASSUME NEW S, NEW s \in Seq(S), NEW u \in Seq(S), NEW x \in S
  PROVE  s \o (<<x>> \o u) = Append(s, x) \o u
<1>1. <<x>> \in Seq(S)
  OBVIOUS
<1>2. Append(s, x) = s \o <<x>>
  BY AppendIsConcat
<1> QED
  BY <1>1, <1>2, ConcatAssociative

\* Every call moves messages from one end to the other and loses none.
LEMMA QueueStep == QueueInv /\ [Next]_vars => QueueInv'
<1> SUFFICES ASSUME QueueInv, [Next]_vars
             PROVE  QueueInv'
  OBVIOUS
<1> USE DEF QueueInv, TypeOK, FirstInFirstOut, KeptWhenEmpty
<1>1. CASE UNCHANGED vars
  BY <1>1 DEF vars
<1>2. ASSUME NEW t \in Threads, NEW c \in Calls, Call(t, c), UNCHANGED <<lock, spoilt>>, ~spoilt
      PROVE  QueueInv'
  BY <1>2 DEF Call
<1>3. ASSUME NEW t \in Threads, pushToEnd(t), UNCHANGED <<lock, spoilt>>, ~spoilt
      PROVE  QueueInv'
  <2> DEFINE m == waiting[t][2]
  <2>1. waiting[t] \in Calls /\ m \in Messages
    BY <1>3 DEF pushToEnd, Locked, Calls
  <2> HIDE DEF m
  <2>2. mq' = Append(mq, m) /\ pushed' = Append(pushed, m)
    BY <1>3 DEF pushToEnd, m
  <2>3. UNCHANGED <<p_mutex, size, popped>> /\ p_mutex = None
    BY <1>3 DEF pushToEnd, Locked
  <2>4. waiting' \in [Threads -> Calls \cup {<< >>}]
    BY <1>3 DEF pushToEnd, Locked
  <2>5. mq' \in Seq(Messages) /\ pushed' \in Seq(Messages)
    BY <2>1, <2>2, AppendProperties
  <2>6. Append(popped \o mq, m) = popped \o Append(mq, m)
    <3>1. popped \in Seq(Messages) /\ mq \in Seq(Messages)
      OBVIOUS
    <3> QED
      BY <2>1, <3>1, AppendLast
  <2> QED
    BY <1>3, <2>2, <2>3, <2>4, <2>5, <2>6
<1>4. ASSUME NEW t \in Threads, popFromBegin(t), UNCHANGED <<lock, spoilt>>, ~spoilt
      PROVE  QueueInv'
  <2> DEFINE m == Head(mq)
  <2>1. m \in Messages /\ Tail(mq) \in Seq(Messages) /\ mq = <<m>> \o Tail(mq)
    BY <1>4 DEF popFromBegin
  <2> HIDE DEF m
  <2>2. mq' = Tail(mq) /\ popped' = Append(popped, m)
    BY <1>4 DEF popFromBegin, m
  <2>3. UNCHANGED <<p_mutex, size, pushed>> /\ p_mutex = None
    BY <1>4 DEF popFromBegin, Locked
  <2>4. waiting' \in [Threads -> Calls \cup {<< >>}]
    BY <1>4 DEF popFromBegin, Locked
  <2>5. popped' \in Seq(Messages)
    BY <2>1, <2>2, AppendProperties
  <2>6. popped \o mq = Append(popped, m) \o Tail(mq)
    BY <2>1, MoveFirst
  <2> QED
    BY <1>4, <2>1, <2>2, <2>3, <2>4, <2>5, <2>6
<1>5. ASSUME NEW t \in Threads, popFromEmpty(t), UNCHANGED <<lock, spoilt>>, ~spoilt
      PROVE  QueueInv'
  BY <1>5 DEF popFromEmpty, Locked
<1>6. ASSUME NEW t \in Threads, QueueToString(t), UNCHANGED <<lock, spoilt>>, ~spoilt
      PROVE  QueueInv'
  BY <1>6 DEF QueueToString, Locked
<1>7. ASSUME NEW t \in Threads, GetSize(t), UNCHANGED <<lock, spoilt>>, ~spoilt
      PROVE  QueueInv'
  <2>1. Len(mq) \in Nat
    OBVIOUS
  <2> QED
    BY <1>7, <2>1 DEF GetSize
<1>8. ASSUME NEW t \in Threads, NEW other \in Threads, Overlap(t, other)
      PROVE  QueueInv'
  BY <1>8 DEF Overlap
<1> QED
  BY <1>1, <1>2, <1>3, <1>4, <1>5, <1>6, <1>7, <1>8 DEF Next, CallStep, Proceed

LEMMA QueueInit == Init => QueueInv
<1>1. << >> \in Seq(Messages) /\ << >> = << >> \o << >>
  OBVIOUS
<1>2. ASSUME Init
      PROVE  TypeOK
  <2>1. /\ mq \in Seq(Messages) /\ pushed \in Seq(Messages) /\ popped \in Seq(Messages)
        /\ p_mutex \in Threads \cup {None} /\ spoilt \in BOOLEAN
        /\ lock \in {"works", "stuck", "absent"}
    BY <1>1, <1>2 DEF Init
  <2>2. << >> \in Calls \cup {<< >>}
    BY Zenon
  <2>3. PICK calls, x : calls = Calls \cup {<< >>} /\ x = << >> /\ x \in calls
    BY <2>2, Zenon
  <2>4. waiting = [t \in Threads |-> x]
    BY <1>2, <2>3, Zenon DEF Init
  <2>5. waiting \in [Threads -> calls]
    BY <2>3, <2>4
  <2>6. size \in [Threads -> Nat]
    BY <1>2 DEF Init
  <2> QED
    BY <2>1, <2>3, <2>5, <2>6, Zenon DEF TypeOK
<1>3. Init => FirstInFirstOut /\ KeptWhenEmpty
  BY <1>1 DEF Init, FirstInFirstOut, KeptWhenEmpty
<1> QED
  BY <1>2, <1>3 DEF QueueInv

\* Types, order, and an empty list while a finished pop keeps the mutex,
\* whatever the uninitialised p_mutex does (MessageQueue.cpp:10-48).
THEOREM QueueInvariant == Spec => []QueueInv
<1> QED
  BY QueueInit, QueueStep, PTL DEF Spec

\* popFromBegin hands out what pushToEnd put in, in that order and each message
\* once, whatever the threads do, as long as no two calls are inside at once:
\* which happens only if p_mutex keeps nobody out (MessageQueue.cpp:10-48).
THEOREM FifoCorrect == Spec => []FirstInFirstOut
<1>1. QueueInv => FirstInFirstOut
  BY DEF QueueInv
<1> QED
  BY <1>1, QueueInvariant, PTL

\* While the mutex is kept no step changes the queue: the early return of
\* popFromBegin ends the life of the queue.
LEMMA KeptStep ==
  ASSUME QueueInv, [Next]_vars, p_mutex # None
  PROVE  UNCHANGED <<mq, pushed, popped>> /\ p_mutex' = p_mutex /\ mq = << >> /\ lock = "works"
<1>1. mq = << >> /\ lock = "works"
  BY DEF QueueInv, KeptWhenEmpty
<1>2. CASE UNCHANGED vars
  BY <1>1, <1>2 DEF vars
<1>3. ASSUME NEW t \in Threads, Proceed(t)
      PROVE  FALSE
  BY <1>3 DEF Proceed, pushToEnd, popFromBegin, popFromEmpty, QueueToString, Locked
<1>4. ASSUME NEW t \in Threads, GetSize(t) \/ (\E c \in Calls : Call(t, c))
      PROVE  UNCHANGED <<mq, pushed, popped, p_mutex>>
  BY <1>4 DEF GetSize, Call
<1>5. ASSUME NEW t \in Threads, NEW other \in Threads, Overlap(t, other)
      PROVE  FALSE
  BY <1>1, <1>5 DEF Overlap
<1> QED
  BY <1>1, <1>2, <1>3, <1>4, <1>5 DEF Next, CallStep

\* Where the mutex works, an empty pop is the last step that the queue itself
\* takes, for all threads (MessageQueue.cpp:40-42).
THEOREM EmptyPopCorrect == Spec => EmptyPopIsLast
<1>1. QueueInv /\ [Next]_vars =>
        [p_mutex # None => /\ UNCHANGED <<mq, pushed, popped>>
                           /\ p_mutex' = p_mutex /\ mq = << >> /\ lock = "works"]_vars
  BY KeptStep
<1> QED
  BY <1>1, QueueInvariant, PTL DEF Spec, EmptyPopIsLast
-----------------------------------------------------------------------------
(* ModuleUri: the places of the symbols in a text.                           *)

\* s is a, and b after it.
JoinedAs(a, b, s) ==
  /\ Len(s) = Len(a) + Len(b)
  /\ \A i \in 1..Len(a) : s[i] = a[i]
  /\ \A i \in 1..Len(b) : s[Len(a) + i] = b[i]

\* What \o makes, place by place.
LEMMA Joined ==
  ASSUME NEW S, NEW a \in Seq(S), NEW b \in Seq(S)
  PROVE  a \o b \in Seq(S) /\ JoinedAs(a, b, a \o b)
<1>1. Len(a) \in Nat /\ Len(b) \in Nat
  OBVIOUS
<1>2. /\ a \o b \in Seq(S) /\ Len(a \o b) = Len(a) + Len(b)
      /\ \A i \in 1..Len(a) + Len(b) :
            (a \o b)[i] = IF i <= Len(a) THEN a[i] ELSE b[i - Len(a)]
  BY ConcatProperties
<1>3. ASSUME NEW i \in 1..Len(b)
      PROVE  (a \o b)[Len(a) + i] = b[i]
  <2>1. Len(a) + i \in 1..Len(a) + Len(b) /\ ~(Len(a) + i <= Len(a)) /\ (Len(a) + i) - Len(a) = i
    BY <1>1
  <2> QED
    BY <1>2, <2>1
<1>4. \A i \in 1..Len(a) : (a \o b)[i] = a[i]
  BY <1>1, <1>2
<1> QED
  BY <1>2, <1>3, <1>4 DEF JoinedAs

\* find finds the first place.
LEMMA FindAt ==
  ASSUME NEW S, NEW s \in Seq(S), NEW c, NEW k \in 1..Len(s),
         s[k] = c, \A j \in 1..k - 1 : s[j] # c
  PROVE  Contains(s, c) /\ find(s, c) = k - 1
<1>1. Contains(s, c)
  BY Zenon DEF Contains
<1>2. Len(s) \in Nat
  OBVIOUS
<1>3. \A n \in 1..Len(s) : s[n] = c /\ (\A j \in 1..n - 1 : s[j] # c) => n = k
  BY <1>2
<1>4. (CHOOSE n \in 1..Len(s) : s[n] = c /\ \A j \in 1..n - 1 : s[j] # c) = k
  BY <1>3
<1>5. find(s, c) = (CHOOSE n \in 1..Len(s) : s[n] = c /\ \A j \in 1..n - 1 : s[j] # c) - 1
  BY <1>1, Zenon DEF find
<1> QED
  BY <1>1, <1>4, <1>5

\* t is what follows place k + 1 of s.
Follows(t, s, k) ==
  /\ Len(t) = Len(s) - (k + 1)
  /\ \A i \in 1..Len(s) - (k + 1) : t[i] = s[k + 1 + i]

\* substr(k + 1).
LEMMA AfterAt ==
  ASSUME NEW S, NEW s \in Seq(S), NEW k \in 0..Len(s) - 1
  PROVE  After(s, k) \in Seq(S) /\ Follows(After(s, k), s, k)
<1>1. Len(s) \in Nat
  OBVIOUS
<1> QED
  BY <1>1 DEF After, Follows

\* t is the first k symbols of s.
Begins(t, s, k) == Len(t) = k /\ \A i \in 1..k : t[i] = s[i]

\* substr(0, k).
LEMMA BeginAt ==
  ASSUME NEW S, NEW s \in Seq(S), NEW k \in 0..Len(s)
  PROVE  SubSeq(s, 1, k) \in Seq(S) /\ Begins(SubSeq(s, 1, k), s, k)
<1>1. Len(s) \in Nat
  OBVIOUS
<1> QED
  BY <1>1 DEF Begins

\* substr(0, 1) of a text that is not empty.
LEMMA FirstAt ==
  ASSUME NEW S, NEW s \in Seq(S), s # << >>
  PROVE  Before(s, 1) \in Seq(S) /\ Before(s, 1) # << >> /\ Before(s, 1)[1] = s[1]
<1>1. Len(s) \in Nat /\ Len(s) >= 1
  OBVIOUS
<1>2. SubSeq(s, 1, 1) \in Seq(S)
  BY <1>1
<1>3. Len(SubSeq(s, 1, 1)) = 1
  BY <1>1
<1>4. 1 \in 1..1 /\ SubSeq(s, 1, 1)[1] = s[1]
  BY <1>1
<1>5. SubSeq(s, 1, 1) # << >>
  BY <1>3
<1> QED
  BY <1>2, <1>4, <1>5 DEF Before

\* The two and five symbols that arrangeFullStr puts between the names.
IsPair(t, a, b) == Len(t) = 2 /\ t[1] = a /\ t[2] = b

\* The end of a text.
LEMMA Pair ==
  ASSUME NEW S, NEW a \in S, NEW b \in S
  PROVE  <<a, b>> \in Seq(S) /\ IsPair(<<a, b>>, a, b)
<1>1. <<a, b>> \in Seq(S)
  OBVIOUS
<1>2. IsPair(<<a, b>>, a, b)
  BY DEF IsPair
<1> QED
  BY <1>1, <1>2

IsFive(t, a, b, c, d, e) ==
  Len(t) = 5 /\ t[1] = a /\ t[2] = b /\ t[3] = c /\ t[4] = d /\ t[5] = e

\* The middle of a text.
LEMMA Five ==
  ASSUME NEW S, NEW a \in S, NEW b \in S, NEW c \in S, NEW d \in S, NEW e \in S
  PROVE  <<a, b, c, d, e>> \in Seq(S) /\ IsFive(<<a, b, c, d, e>>, a, b, c, d, e)
<1>1. <<a, b, c, d, e>> \in Seq(S)
  OBVIOUS
<1>2. IsFive(<<a, b, c, d, e>>, a, b, c, d, e)
  BY DEF IsFive
<1> QED
  BY <1>1, <1>2

\* s is the text of an address with these fields.
TextAs(s, h, x, y, e, n) ==
  /\ Len(s) = Len(h) + (7 + Len(e))
  /\ \A i \in 1..Len(h) : s[i] = h[i]
  /\ s[Len(h) + 1] = ":" /\ s[Len(h) + 2] = x /\ s[Len(h) + 3] = ":"
  /\ s[Len(h) + 4] = y /\ s[Len(h) + 5] = "|"
  /\ \A i \in 1..Len(e) : s[Len(h) + (5 + i)] = e[i]
  /\ s[Len(h) + (6 + Len(e))] = "|" /\ s[Len(h) + (7 + Len(e))] = n

\* Four pieces after each other make such a text.
LEMMA TextPlaces ==
  ASSUME NEW S, NEW h \in Seq(S), NEW e \in Seq(S), NEW a \in Seq(S), NEW b \in Seq(S),
         NEW x, NEW y, NEW n, IsFive(a, ":", x, ":", y, "|"), IsPair(b, "|", n),
         NEW s, s = ((h \o a) \o e) \o b
  PROVE  s \in Seq(S) /\ TextAs(s, h, x, y, e, n)
<1>0. /\ Len(a) = 5 /\ Len(b) = 2 /\ b[1] = "|" /\ b[2] = n
      /\ a[1] = ":" /\ a[2] = x /\ a[3] = ":" /\ a[4] = y /\ a[5] = "|"
  BY DEF IsFive, IsPair
<1>1. PICK l \in Nat, m \in Nat : l = Len(h) /\ m = Len(e)
  OBVIOUS
<1>2. PICK u \in Seq(S) : u = h \o a /\ JoinedAs(h, a, u)
  BY Joined
<1>3. PICK v \in Seq(S) : v = u \o e /\ JoinedAs(u, e, v)
  BY Joined
<1>4. s \in Seq(S) /\ JoinedAs(v, b, s)
  BY <1>2, <1>3, Joined
<1>5. PICK lu \in Nat :
         /\ lu = l + 5 /\ Len(u) = lu
         /\ \A i \in 1..l : u[i] = h[i]
         /\ \A i \in 1..5 : u[l + i] = a[i]
  BY <1>0, <1>1, <1>2 DEF JoinedAs
<1>6. PICK lv \in Nat :
         /\ lv = lu + m /\ Len(v) = lv
         /\ \A i \in 1..lu : v[i] = u[i]
         /\ \A i \in 1..m : v[lu + i] = e[i]
  <2>1. /\ Len(v) = Len(u) + Len(e)
        /\ \A i \in 1..Len(u) : v[i] = u[i]
        /\ \A i \in 1..Len(e) : v[Len(u) + i] = e[i]
    BY <1>3, Zenon DEF JoinedAs
  <2>2. Len(u) = lu /\ Len(e) = m /\ lu + m \in Nat
    BY <1>1, <1>5
  <2> QED
    BY <2>1, <2>2
<1>7. /\ Len(s) = lv + 2
      /\ \A i \in 1..lv : s[i] = v[i]
      /\ \A i \in 1..2 : s[lv + i] = b[i]
  BY <1>0, <1>4, <1>6 DEF JoinedAs
<1>14a. lu = l + 5 /\ lv = lu + m
  BY <1>5, <1>6, Zenon
<1>8. ASSUME NEW i \in 1..l
      PROVE  s[i] = h[i]
  <2>1. i \in 1..lu /\ i \in 1..lv
    BY <1>14a
  <2> QED
    BY <1>5, <1>6, <1>7, <2>1, Zenon
<1>9. ASSUME NEW i \in 1..5
      PROVE  s[l + i] = a[i]
  <2>1. l + i \in 1..lu /\ l + i \in 1..lv
    BY <1>14a
  <2> QED
    BY <1>5, <1>6, <1>7, <2>1, Zenon
<1>10. ASSUME NEW i \in 1..m
      PROVE  s[l + (5 + i)] = e[i]
  <2>1. l + (5 + i) = lu + i /\ lu + i \in 1..lv
    BY <1>14a
  <2> QED
    BY <1>6, <1>7, <2>1, Zenon
<1>11. s[l + (6 + m)] = b[1] /\ s[l + (7 + m)] = b[2]
  <2>1. l + (6 + m) = lv + 1 /\ l + (7 + m) = lv + 2 /\ 1 \in 1..2 /\ 2 \in 1..2
    BY <1>14a
  <2> QED
    BY <1>7, <2>1, Zenon
<1>12. Len(s) = l + (7 + m)
  BY <1>1, <1>5, <1>6, <1>7
<1>13. 1 \in 1..5 /\ 2 \in 1..5 /\ 3 \in 1..5 /\ 4 \in 1..5 /\ 5 \in 1..5
  OBVIOUS
<1>14. TextAs(s, h, x, y, e, n)
  BY <1>0, <1>1, <1>8, <1>9, <1>10, <1>11, <1>12, <1>13, Zenon DEF TextAs
<1> QED
  BY <1>4, <1>14

\* arrangeFullStr makes such a text.
LEMMA ArrangedText ==
  ASSUME NEW S, NEW u, u.hostName \in Seq(S), u.exeName \in Seq(S), u.httpPort \in S,
         u.tcpPort \in S, u.processId \in S, ":" \in S, "|" \in S
  PROVE  /\ arrangeFullStr(u) \in Seq(S)
         /\ TextAs(arrangeFullStr(u), u.hostName, u.httpPort, u.tcpPort, u.exeName, u.processId)
<1>1. PICK h \in Seq(S), e \in Seq(S), x \in S, y \in S, n \in S :
         h = u.hostName /\ e = u.exeName /\ x = u.httpPort /\ y = u.tcpPort /\ n = u.processId
  OBVIOUS
<1>2. PICK a \in Seq(S) : a = <<":", x, ":", y, "|">> /\ IsFive(a, ":", x, ":", y, "|")
  BY Five
<1>3. PICK b \in Seq(S) : b = <<"|", n>> /\ IsPair(b, "|", n)
  BY Pair
<1>4. PICK s : s = ((h \o a) \o e) \o b
  OBVIOUS
<1>5. arrangeFullStr(u) = s
  BY <1>1, <1>2, <1>3, <1>4, Zenon DEF arrangeFullStr
<1>6. s \in Seq(S) /\ TextAs(s, h, x, y, e, n)
  BY <1>2, <1>3, <1>4, TextPlaces
<1> QED
  BY <1>1, <1>5, <1>6, Zenon

\* The reader of such a text finds the first ":" behind the host, the next
\* behind the first number, the first "|" behind the second, and the last
\* behind the program: the fields, and the program without its last letter.
LEMMA ParsedText ==
  ASSUME NEW S, NEW s \in Seq(S), NEW h \in Seq(S), NEW e \in Seq(S),
         NEW x \in AllNumbers, NEW y \in AllNumbers, NEW n \in AllNumbers,
         x # ":", y # "|", ~Contains(h, ":"), ~Contains(e, "|"), TextAs(s, h, x, y, e, n)
  PROVE  /\ Parses(s) /\ Parsed(s).hostName = h
         /\ Parsed(s).httpPort = x /\ Parsed(s).tcpPort = y /\ Parsed(s).processId = n
         /\ e # << >> => Parsed(s).exeName = Front(e)
<1>1. PICK l \in Nat, m \in Nat : l = Len(h) /\ m = Len(e)
  OBVIOUS
<1>2. /\ Len(s) = l + (7 + m)
      /\ \A i \in 1..l : s[i] = h[i]
      /\ s[l + 1] = ":" /\ s[l + 2] = x /\ s[l + 3] = ":" /\ s[l + 4] = y /\ s[l + 5] = "|"
      /\ \A i \in 1..m : s[l + (5 + i)] = e[i]
      /\ s[l + (6 + m)] = "|" /\ s[l + (7 + m)] = n
  BY <1>1, Zenon DEF TextAs
<1>3. Contains(s, ":") /\ find(s, ":") = l
  <2>1. \A j \in 1..l : s[j] # ":"
    BY <1>1, <1>2, Zenon DEF Contains
  <2>2. PICK k \in 1..Len(s) : k = l + 1 /\ k - 1 = l
    BY <1>2
  <2>3. s[k] = ":" /\ \A j \in 1..k - 1 : s[j] # ":"
    BY <1>2, <2>1, <2>2, Zenon
  <2>4. Contains(s, ":") /\ find(s, ":") = k - 1
    BY <2>3, FindAt
  <2> QED
    BY <2>2, <2>4
<1>4. Before(s, l) = h
  BY <1>1, <1>2 DEF Before
<1>5. PICK r \in Seq(S) :
         /\ r = Rest1(s) /\ Len(r) = 6 + m
         /\ r[1] = x /\ r[2] = ":" /\ r[3] = y /\ r[4] = "|"
         /\ \A i \in 1..m : r[4 + i] = e[i]
         /\ r[5 + m] = "|" /\ r[6 + m] = n
  <2>1. PICK r \in Seq(S) : r = After(s, l) /\ Follows(r, s, l)
    <3>1. l \in 0..Len(s) - 1
      BY <1>2
    <3> QED
      BY <3>1, AfterAt
  <2>2. Len(r) = 6 + m /\ \A i \in 1..6 + m : r[i] = s[l + (1 + i)]
    BY <1>2, <2>1 DEF Follows
  <2>3. /\ r[1] = s[l + 2] /\ r[2] = s[l + 3] /\ r[3] = s[l + 4] /\ r[4] = s[l + 5]
        /\ r[5 + m] = s[l + (6 + m)] /\ r[6 + m] = s[l + (7 + m)]
    <3>1. /\ 1 \in 1..6 + m /\ 2 \in 1..6 + m /\ 3 \in 1..6 + m /\ 4 \in 1..6 + m
          /\ 5 + m \in 1..6 + m /\ 6 + m \in 1..6 + m
      OBVIOUS
    <3>2. 1 + 1 = 2 /\ 1 + 2 = 3 /\ 1 + 3 = 4 /\ 1 + 4 = 5
      OBVIOUS
    <3>3. 1 + (5 + m) = 6 + m /\ 1 + (6 + m) = 7 + m
      OBVIOUS
    <3> QED
      BY <2>2, <3>1, <3>2, <3>3, Zenon
  <2>4. ASSUME NEW i \in 1..m
        PROVE  r[4 + i] = s[l + (5 + i)]
    <3>1. 4 + i \in 1..6 + m /\ 1 + (4 + i) = 5 + i
      OBVIOUS
    <3> QED
      BY <2>2, <3>1, Zenon
  <2>5. r = Rest1(s)
    BY <1>3, <2>1, Zenon DEF Rest1
  <2> QED
    BY <1>2, <2>2, <2>3, <2>4, <2>5, SMTT(30)
<1>6. Contains(r, ":") /\ find(r, ":") = 1
  <2>1. PICK k \in 1..Len(r) : k = 2 /\ k - 1 = 1
    BY <1>5
  <2>2. r[k] = ":" /\ \A j \in 1..k - 1 : r[j] # ":"
    BY <1>5, <2>1
  <2>3. Contains(r, ":") /\ find(r, ":") = k - 1
    BY <2>2, FindAt
  <2> QED
    BY <2>1, <2>3
<1>7. PICK q \in Seq(S) :
         /\ q = Rest2(s) /\ Len(q) = 4 + m
         /\ q[1] = y /\ q[2] = "|"
         /\ \A i \in 1..m : q[2 + i] = e[i]
         /\ q[3 + m] = "|" /\ q[4 + m] = n
  <2>1. PICK q \in Seq(S) : q = After(r, 1) /\ Follows(q, r, 1)
    <3>1. 1 \in 0..Len(r) - 1
      BY <1>5
    <3> QED
      BY <3>1, AfterAt
  <2>2. Len(q) = 4 + m /\ \A i \in 1..4 + m : q[i] = r[2 + i]
    BY <1>5, <2>1 DEF Follows
  <2>3. q[1] = r[3] /\ q[2] = r[4] /\ q[3 + m] = r[5 + m] /\ q[4 + m] = r[6 + m]
    BY <2>2
  <2>4. \A i \in 1..m : q[2 + i] = r[4 + i]
    BY <2>2, SMTT(30)
  <2>5. q = Rest2(s)
    BY <1>5, <1>6, <2>1, Zenon DEF Rest2
  <2> QED
    BY <1>5, <2>2, <2>3, <2>4, <2>5
<1>8. Contains(q, "|") /\ find(q, "|") = 1
  <2>1. PICK k \in 1..Len(q) : k = 2 /\ k - 1 = 1
    BY <1>7
  <2>2. q[k] = "|" /\ \A j \in 1..k - 1 : q[j] # "|"
    BY <1>7, <2>1
  <2>3. Contains(q, "|") /\ find(q, "|") = k - 1
    BY <2>2, FindAt
  <2> QED
    BY <2>1, <2>3
<1>9. PICK p \in Seq(S) :
         /\ p = Rest3(s) /\ Len(p) = 2 + m
         /\ \A i \in 1..m : p[i] = e[i]
         /\ p[1 + m] = "|" /\ p[2 + m] = n
  <2>1. PICK p \in Seq(S) : p = After(q, 1) /\ Follows(p, q, 1)
    <3>1. 1 \in 0..Len(q) - 1
      BY <1>7
    <3> QED
      BY <3>1, AfterAt
  <2>2. Len(p) = 2 + m /\ \A i \in 1..2 + m : p[i] = q[2 + i]
    BY <1>7, <2>1 DEF Follows
  <2>3. p[1 + m] = q[3 + m] /\ p[2 + m] = q[4 + m]
    BY <2>2
  <2>4. p = Rest3(s)
    BY <1>7, <1>8, <2>1, Zenon DEF Rest3
  <2> QED
    BY <1>7, <2>2, <2>3, <2>4
<1>10. Contains(p, "|") /\ find(p, "|") = m
  <2>1. \A j \in 1..m : p[j] # "|"
    BY <1>1, <1>9, Zenon DEF Contains
  <2>2. PICK k \in 1..Len(p) : k = 1 + m /\ k - 1 = m
    BY <1>9
  <2>3. p[k] = "|" /\ \A j \in 1..k - 1 : p[j] # "|"
    BY <1>9, <2>1, <2>2, Zenon
  <2>4. Contains(p, "|") /\ find(p, "|") = k - 1
    BY <2>3, FindAt
  <2> QED
    BY <2>2, <2>4
<1>11. Parses(s)
  BY <1>3, <1>5, <1>6, <1>7, <1>8, <1>9, <1>10, Zenon DEF Parses
<1>12. ASSUME NEW v \in Seq(S), v # << >>, v[1] \in AllNumbers
       PROVE  atoi(v) = v[1]
  BY <1>12, Zenon DEF atoi
<1>13. atoi(Before(r, 1)) = x
  <2>1. r # << >>
    BY <1>5
  <2>2. Before(r, 1) \in Seq(S) /\ Before(r, 1) # << >> /\ Before(r, 1)[1] = x
    BY <1>5, <2>1, FirstAt
  <2> QED
    BY <1>12, <2>2
<1>14. atoi(Before(q, 1)) = y
  <2>1. q # << >>
    BY <1>7
  <2>2. Before(q, 1) \in Seq(S) /\ Before(q, 1) # << >> /\ Before(q, 1)[1] = y
    BY <1>7, <2>1, FirstAt
  <2> QED
    BY <1>12, <2>2
<1>15. atoi(After(p, m)) = n
  <2>1. m \in 0..Len(p) - 1
    BY <1>9
  <2>2. PICK v \in Seq(S) : v = After(p, m) /\ Follows(v, p, m)
    BY <2>1, AfterAt
  <2>3. v[1] = p[m + 1 + 1]
    BY <1>9, <2>2 DEF Follows
  <2>6. Len(v) = 1
    BY <1>9, <2>2 DEF Follows
  <2>4. m + 1 + 1 = 2 + m
    BY <1>1
  <2>5. v # << >>
    <3> SUFFICES ASSUME v = << >>
                 PROVE  FALSE
      OBVIOUS
    <3>1. Len(v) = 0
      OBVIOUS
    <3> QED
      BY <2>6, <3>1
  <2> QED
    BY <1>9, <1>12, <2>2, <2>3, <2>4, <2>5
<1>16. e # << >> => exeNameIn(p) = Front(e)
  <2> SUFFICES ASSUME e # << >>
               PROVE  exeNameIn(p) = Front(e)
    OBVIOUS
  <2>1. m # 0
    BY <1>1
  <2>2. exeNameIn(p) = Before(p, m - 1)
    BY <1>10, <2>1, Zenon DEF exeNameIn
  <2>3. Before(p, m - 1) = Front(e)
    <3>1. Before(p, m - 1) = SubSeq(p, 1, m - 1) /\ Front(e) = SubSeq(e, 1, m - 1)
      BY <1>1, Zenon DEF Before, Front
    <3>2. PICK k \in Nat : k = m - 1
      BY <2>1
    <3>3. PICK u \in Seq(S) : u = SubSeq(p, 1, k) /\ Begins(u, p, k)
      <4>1. k \in 0..Len(p)
        BY <1>9, <3>2
      <4> QED
        BY <4>1, BeginAt
    <3>4. PICK w \in Seq(S) : w = SubSeq(e, 1, k) /\ Begins(w, e, k)
      <4>1. k \in 0..Len(e)
        BY <1>1, <3>2
      <4> QED
        BY <4>1, BeginAt
    <3>5. u = w
      <4>1. \A i \in 1..k : i \in 1..m
        BY <3>2
      <4>2. \A i \in 1..k : u[i] = w[i]
        BY <1>9, <3>3, <3>4, <4>1, Zenon DEF Begins
      <4>3. Len(u) = k /\ Len(w) = k
        BY <3>3, <3>4 DEF Begins
      <4> QED
        BY <4>2, <4>3, SeqEqual
    <3> QED
      BY <3>1, <3>2, <3>3, <3>4, <3>5
  <2> QED
    BY <2>2, <2>3
<1>17. /\ Parsed(s).hostName = Before(s, find(s, ":"))
       /\ Parsed(s).httpPort = atoi(Before(Rest1(s), find(Rest1(s), ":")))
       /\ Parsed(s).tcpPort = atoi(Before(Rest2(s), find(Rest2(s), "|")))
       /\ Parsed(s).exeName = exeNameIn(Rest3(s))
       /\ Parsed(s).processId = atoi(After(Rest3(s), find(Rest3(s), "|")))
  <2>1. PICK v1, v2, v3, v4, v5 :
           /\ v1 = Before(s, find(s, ":"))
           /\ v2 = atoi(Before(Rest1(s), find(Rest1(s), ":")))
           /\ v3 = atoi(Before(Rest2(s), find(Rest2(s), "|")))
           /\ v4 = exeNameIn(Rest3(s))
           /\ v5 = atoi(After(Rest3(s), find(Rest3(s), "|")))
    OBVIOUS
  <2>2. PICK f : f = Parsed(s)
    OBVIOUS
  <2>3. f = [hostName |-> v1, httpPort |-> v2, tcpPort |-> v3, exeName |-> v4, processId |-> v5]
    BY <2>1, <2>2, Zenon DEF Parsed
  <2>4. /\ f.hostName = v1 /\ f.httpPort = v2 /\ f.tcpPort = v3
        /\ f.exeName = v4 /\ f.processId = v5
    BY <2>3
  <2> QED
    BY <2>1, <2>2, <2>4, Zenon
<1>18. Parsed(s).hostName = h
  BY <1>3, <1>4, <1>17, Zenon
<1>19. Parsed(s).httpPort = x
  BY <1>5, <1>6, <1>13, <1>17, Zenon
<1>20. Parsed(s).tcpPort = y
  BY <1>7, <1>8, <1>14, <1>17, Zenon
<1>21. Parsed(s).processId = n
  BY <1>9, <1>10, <1>15, <1>17, Zenon
<1>22. e # << >> => Parsed(s).exeName = Front(e)
  BY <1>9, <1>16, <1>17, Zenon
<1> QED
  BY <1>11, <1>18, <1>19, <1>20, <1>21, <1>22

-----------------------------------------------------------------------------
(* The invariant of ModuleUri.                                               *)

\* The names that the separators do not break.
HostNames == {h \in Seq(Symbols) : ~Contains(h, ":")}
ExeNames  == {e \in Seq(Symbols) : ~Contains(e, "|")}

Uris == [hostName : HostNames, httpPort : AllNumbers, tcpPort : AllNumbers,
         exeName : ExeNames, processId : AllNumbers]

\* The text is that of u, which has the host and the ports of the module.
ShownAs(u) == /\ fullString = arrangeFullStr(u)
              /\ u.hostName = uri.hostName
              /\ u.httpPort = uri.httpPort /\ u.tcpPort = uri.tcpPort
              /\ renewed => u = uri

\* The text is that of the address, or of one that differs in its process id
\* and program only.
TextInv == \E u \in Uris : ShownAs(u)

UriInv == uri \in Uris /\ renewed \in BOOLEAN /\ TextInv

\* No number is a separator.
LEMMA Separators ==
  /\ ":" \in Symbols /\ "|" \in Symbols /\ AllNumbers \subseteq Symbols
  /\ ":" \notin AllNumbers /\ "|" \notin AllNumbers
<1>1. {":", "|"} \cap Numbers = {}
  BY NamesAssumption
<1>2. ":" \notin {"-101", "-9999"} /\ "|" \notin {"-101", "-9999"}
  OBVIOUS
<1> QED
  BY <1>1, <1>2 DEF Symbols, AllNumbers, INVALID_PORT_NUM, INVALID_PROC_ID

\* A peer reads an address whose text was just made.
LEMMA PeerReads ==
  ASSUME NEW u \in Uris
  PROVE  LET s == arrangeFullStr(u)
         IN  /\ s \in Seq(Symbols) /\ Parses(s) /\ Parsed(s).hostName = u.hostName
             /\ Parsed(s).httpPort = u.httpPort /\ Parsed(s).tcpPort = u.tcpPort
             /\ Parsed(s).processId = u.processId
             /\ u.exeName # << >> => Parsed(s).exeName = Front(u.exeName)
<1>1. PICK h \in HostNames, e \in ExeNames, x \in AllNumbers, y \in AllNumbers, n \in AllNumbers :
         h = u.hostName /\ e = u.exeName /\ x = u.httpPort /\ y = u.tcpPort /\ n = u.processId
  BY DEF Uris
<1>2. /\ h \in Seq(Symbols) /\ e \in Seq(Symbols) /\ x \in Symbols /\ y \in Symbols /\ n \in Symbols
      /\ ~Contains(h, ":") /\ ~Contains(e, "|") /\ x # ":" /\ y # "|"
  BY Separators DEF HostNames, ExeNames
<1>3. PICK s \in Seq(Symbols) : s = arrangeFullStr(u) /\ TextAs(s, h, x, y, e, n)
  BY <1>1, <1>2, Separators, ArrangedText
<1>4. /\ Parses(s) /\ Parsed(s).hostName = h
      /\ Parsed(s).httpPort = x /\ Parsed(s).tcpPort = y /\ Parsed(s).processId = n
      /\ e # << >> => Parsed(s).exeName = Front(e)
  BY <1>2, <1>3, ParsedText
<1> QED
  BY <1>1, <1>3, <1>4, Zenon

\* The address of a module that nothing was told.
LEMMA UriInitial == UriInit => UriInv
<1> SUFFICES ASSUME UriInit
             PROVE  UriInv
  OBVIOUS
<1>1. PICK h \in Seq(Symbols) : h = <<"UNKNOWN">> /\ ~Contains(h, ":")
  <2>1. "UNKNOWN" \in Symbols
    <3>1. "UNKNOWN" \in ToSet(<<"UNKNOWN">>)
      BY DEF ToSet
    <3> QED
      BY <3>1 DEF Symbols, INVALID_HOST_NAME
  <2>2. <<"UNKNOWN">> \in Seq(Symbols)
    BY <2>1
  <2>3. ~Contains(<<"UNKNOWN">>, ":")
    BY DEF Contains
  <2> QED
    BY <2>2, <2>3
<1>2. PICK e \in Seq(Symbols) : e = <<".", "out">> /\ ~Contains(e, "|")
  <2>1. "." \in Symbols /\ "out" \in Symbols
    <3>1. "." \in ToSet(<<".", "out">>) /\ "out" \in ToSet(<<".", "out">>)
      <4>1. 1 \in DOMAIN <<".", "out">> /\ 2 \in DOMAIN <<".", "out">>
        OBVIOUS
      <4> QED
        BY <4>1 DEF ToSet
    <3> QED
      BY <3>1 DEF Symbols, INVALID_EXE_NAME
  <2>2. <<".", "out">> \in Seq(Symbols)
    BY <2>1
  <2>3. ~Contains(<<".", "out">>, "|")
    BY DEF Contains
  <2> QED
    BY <2>2, <2>3
<1>3. INVALID_PORT_NUM \in AllNumbers /\ INVALID_PROC_ID \in AllNumbers
  BY DEF AllNumbers
<1>4. DefaultUri \in Uris
  BY <1>1, <1>2, <1>3
     DEF DefaultUri, Uris, HostNames, ExeNames, INVALID_HOST_NAME, INVALID_EXE_NAME
<1> QED
  BY <1>4 DEF UriInit, UriInv, TextInv, ShownAs

\* A setter that renews the text.
LEMMA ArrangedKeeps ==
  ASSUME NEW u \in Uris, Arranged(u)
  PROVE  UriInv'
BY DEF Arranged, UriInv, TextInv, ShownAs

\* assign keeps to names without separators: those of another module, the
\* program's without its last letter; other texts do not parse.
LEMMA AssignKeeps ==
  ASSUME UriInv, NEW s \in Texts, assign(s)
  PROVE  UriInv'
<1>1. CASE ~Parses(s)
  BY <1>1 DEF assign, uriVars, UriInv, TextInv, ShownAs
<1>2. CASE Parses(s)
  <2>1. PICK h \in Hosts, p \in AllNumbers, q \in AllNumbers, e \in Exes, n \in AllNumbers :
           s = arrangeFullStr([hostName |-> h, httpPort |-> p, tcpPort |-> q,
                               exeName |-> e, processId |-> n])
    <3>1. s \notin Junk
      BY <1>2, JunkAssumption
    <3>2. PICK u \in Others : s = arrangeFullStr(u)
      BY <3>1 DEF Texts
    <3>3. /\ u = [hostName |-> u.hostName, httpPort |-> u.httpPort, tcpPort |-> u.tcpPort,
                  exeName |-> u.exeName, processId |-> u.processId]
          /\ u.hostName \in Hosts /\ u.exeName \in Exes
          /\ {u.httpPort, u.tcpPort, u.processId} \subseteq AllNumbers
      BY DEF Others, AllNumbers
    <3> QED
      BY <3>2, <3>3, Zenon
  <2>2. PICK u \in Uris : u = [hostName |-> h, httpPort |-> p, tcpPort |-> q,
                               exeName |-> e, processId |-> n]
    <3>1. h \in HostNames /\ e \in ExeNames
      BY NamesAssumption DEF HostNames, ExeNames
    <3> QED
      BY <3>1 DEF Uris
  <2>3. e # << >> /\ e \in Seq(Symbols) /\ ~Contains(e, "|")
    BY NamesAssumption
  <2>4. /\ Parsed(s).hostName = h /\ Parsed(s).httpPort = p /\ Parsed(s).tcpPort = q
        /\ Parsed(s).processId = n /\ Parsed(s).exeName = Front(e)
    BY <2>1, <2>2, <2>3, PeerReads
  <2>5. Front(e) \in ExeNames
    <3>1. PICK f \in Seq(Symbols) : /\ f = Front(e) /\ Len(f) = Len(e) - 1
                                    /\ \A i \in 1..Len(f) : f[i] = e[i]
      <4>1. PICK k \in Nat : k = Len(e) - 1
        BY <2>3
      <4>2. SubSeq(e, 1, k) \in Seq(Symbols)
        BY <2>3, <4>1
      <4>3. Len(SubSeq(e, 1, k)) = k
        BY <2>3, <4>1
      <4>4. \A i \in 1..k : SubSeq(e, 1, k)[i] = e[i]
        BY <2>3, <4>1
      <4> QED
        BY <4>1, <4>2, <4>3, <4>4, Zenon DEF Front
    <3>2. ~Contains(f, "|")
      BY <2>3, <3>1 DEF Contains
    <3> QED
      BY <3>1, <3>2 DEF ExeNames
  <2>6. h \in HostNames
    BY NamesAssumption DEF HostNames
  <2>7. Parsed(s) = [hostName |-> Parsed(s).hostName, httpPort |-> Parsed(s).httpPort,
                     tcpPort |-> Parsed(s).tcpPort, exeName |-> Parsed(s).exeName,
                     processId |-> Parsed(s).processId]
    BY DEF Parsed
  <2>8. Parsed(s) \in Uris
    BY <2>4, <2>5, <2>6, <2>7 DEF Uris
  <2>9. Arranged(Parsed(s))
    BY <1>2 DEF assign
  <2> QED
    BY <2>8, <2>9, ArrangedKeeps
<1> QED
  BY <1>1, <1>2

\* Every setter keeps the text as close to the address.
LEMMA UriStep == UriInv /\ [UriNext]_uriVars => UriInv'
<1> SUFFICES ASSUME UriInv, [UriNext]_uriVars
             PROVE  UriInv'
  OBVIOUS
<1>0. /\ uri \in Uris /\ Numbers \subseteq AllNumbers
      /\ Hosts \subseteq HostNames /\ Exes \subseteq ExeNames
  BY NamesAssumption DEF UriInv, AllNumbers, HostNames, ExeNames
<1>1. CASE UNCHANGED uriVars
  BY <1>1 DEF uriVars, UriInv, TextInv, ShownAs
<1>2. ASSUME NEW h \in Hosts, SetHostName(h)
      PROVE  UriInv'
  <2>1. [uri EXCEPT !.hostName = h] \in Uris
    BY <1>0 DEF Uris
  <2> QED
    BY <1>2, <2>1, ArrangedKeeps DEF SetHostName
<1>3. ASSUME NEW p \in Numbers, SetHttpPort(p) \/ SetTcpPort(p)
      PROVE  UriInv'
  <2>1. [uri EXCEPT !.httpPort = p] \in Uris /\ [uri EXCEPT !.tcpPort = p] \in Uris
    BY <1>0 DEF Uris
  <2> QED
    BY <1>3, <2>1, ArrangedKeeps DEF SetHttpPort, SetTcpPort
<1>4. ASSUME NEW p \in Numbers, SetProcessId(p)
      PROVE  UriInv'
  <2>1. uri' = [uri EXCEPT !.processId = p] /\ renewed' = FALSE /\ fullString' = fullString
    BY <1>4 DEF SetProcessId
  <2>2. /\ uri' \in Uris /\ uri'.hostName = uri.hostName
        /\ uri'.httpPort = uri.httpPort /\ uri'.tcpPort = uri.tcpPort
    BY <1>0, <2>1 DEF Uris
  <2> QED
    BY <2>1, <2>2 DEF UriInv, TextInv, ShownAs
<1>5. ASSUME NEW e \in Exes, SetExeName(e)
      PROVE  UriInv'
  <2>1. uri' = [uri EXCEPT !.exeName = e] /\ renewed' = FALSE /\ fullString' = fullString
    BY <1>5 DEF SetExeName
  <2>2. /\ uri' \in Uris /\ uri'.hostName = uri.hostName
        /\ uri'.httpPort = uri.httpPort /\ uri'.tcpPort = uri.tcpPort
    BY <1>0, <2>1 DEF Uris
  <2> QED
    BY <2>1, <2>2 DEF UriInv, TextInv, ShownAs
<1>6. ASSUME NEW h \in Hosts, NEW e \in Exes, NEW n \in Numbers, SetOwnUri(h, e, n)
      PROVE  UriInv'
  <2>1. PICK u \in Uris : u = [uri EXCEPT !.exeName = e, !.hostName = h]
    BY <1>0 DEF Uris
  <2>2. uri' = [u EXCEPT !.processId = n] /\ renewed' = FALSE /\ fullString' = arrangeFullStr(u)
    BY <1>6, <2>1 DEF SetOwnUri
  <2>3. /\ uri' \in Uris /\ uri'.hostName = u.hostName
        /\ uri'.httpPort = u.httpPort /\ uri'.tcpPort = u.tcpPort
    BY <1>0, <2>2 DEF Uris
  <2> QED
    BY <2>2, <2>3 DEF UriInv, TextInv, ShownAs
<1>7. ASSUME NEW s \in Texts, assign(s)
      PROVE  UriInv'
  BY <1>7, AssignKeeps
<1> QED
  BY <1>1, <1>2, <1>3, <1>4, <1>5, <1>6, <1>7 DEF UriNext

\* Whatever is set and assigned, in any order, the text is that of an address
\* with the module's host and ports (ModuleUri.cpp:53-92, 115-140).
THEOREM AddressInvariant == UriSpec => []UriInv
  BY UriInitial, UriStep, PTL DEF UriSpec

\* A peer that parses the text learns the host and the ports, and, once they
\* were set last, the process id and the program without its last letter.
THEOREM PeerLearnsCorrect == UriSpec => []PeerLearnsUri
<1>1. UriInv => PeerLearnsUri
  <2> SUFFICES ASSUME UriInv
               PROVE  PeerLearnsUri
    OBVIOUS
  <2>1. PICK u \in Uris : ShownAs(u)
    BY DEF UriInv, TextInv
  <2>2. LET s == arrangeFullStr(u)
        IN  /\ s \in Seq(Symbols) /\ Parses(s) /\ Parsed(s).hostName = u.hostName
            /\ Parsed(s).httpPort = u.httpPort /\ Parsed(s).tcpPort = u.tcpPort
            /\ Parsed(s).processId = u.processId
            /\ u.exeName # << >> => Parsed(s).exeName = Front(u.exeName)
    BY PeerReads
  <2> QED
    BY <2>1, <2>2, Zenon DEF PeerLearnsUri, ShownAs
<1> QED
  BY <1>1, AddressInvariant, PTL

-----------------------------------------------------------------------------
(* SavedPages: the files, and what is on its way to them.                    *)

\* The types.
Kinds == {"none", "dir", "file"}
Nodes == [kind : Kinds, data : Seq(Parts)]
Ends  == {"CURLE_OK", "CURLE_OPERATION_TIMEDOUT", "other error"}
Saves == [curlRc : Ends, alone : BOOLEAN]

PagesTypeOK == /\ node \in [Paths -> Nodes]
               /\ writing \in [Savers -> Writing \cup {Nil}]
               /\ transfer \in [Savers -> Transfers \cup {Nil}]
               /\ saved \in [SavedAs -> Saves \cup {Nil}]

\* What a download may leave in a file, by the way it ended.
Good(curlRc, r) == /\ \E b \in Bodies : IsPrefix(r, b)
                   /\ curlRc = "CURLE_OK" => r \in Bodies
                   /\ curlRc = "CURLE_OPERATION_TIMEDOUT" => r = << >>

\* A transfer has brought the beginning of a body, and its thread does not
\* write.
TransferInv == \A t \in Savers : transfer[t] # Nil =>
                 /\ writing[t] = Nil
                 /\ transfer[t].resBuffer \o transfer[t].left \in Bodies

\* What exists is in a directory; a file was saved there; what is written to
\* is a file.
TreeInv ==
  /\ node[rootPath].kind = "dir"
  /\ \A p \in Paths : node[p].kind # "none" => p = rootPath \/ Node(Parent(p)).kind = "dir"
  /\ \A p \in Paths : node[p].kind = "file" => p \in SavedAs /\ saved[p] \in Saves
  /\ \A t \in Savers, p \in Paths : Writes(t, p) => node[p].kind = "file"

\* One writer, who goes on at the end.
AloneAt(p) ==
  node[p].kind = "file" /\ saved[p].alone =>
     /\ Writers(p) = {} => Good(saved[p].curlRc, node[p].data)
     /\ \A t \in Savers : Writes(t, p) =>
           /\ \A u \in Savers : Writes(u, p) => u = t
           /\ writing[t].next = Len(node[p].data) + 1
           /\ Good(saved[p].curlRc, node[p].data \o writing[t].left)

SavesInv == PagesTypeOK /\ TransferInv /\ TreeInv /\ \A p \in Paths : AloneAt(p)

\* A sequence is a prefix of one that goes on.
LEMMA Prefix ==
  ASSUME NEW S, NEW s \in Seq(S), NEW t \in Seq(S)
  PROVE  IsPrefix(s, s \o t)
<1>1. PICK k \in Nat, l \in Nat : k = Len(s) /\ l = Len(t)
  OBVIOUS
<1>2. PICK w \in Seq(S) : w = s \o t
  BY ConcatProperties
<1>3. Len(w) = k + l /\ \A i \in 1..k : w[i] = s[i]
  <2>1. \A i \in 1..k : i \in 1..k + l /\ i <= k
    BY <1>1
  <2> QED
    BY <1>1, <1>2, <2>1, ConcatProperties
<1>4. SubSeq(s, 1, k) \in Seq(S) /\ Begins(SubSeq(s, 1, k), s, k)
  BY <1>1, BeginAt
<1>5. SubSeq(w, 1, k) \in Seq(S) /\ Begins(SubSeq(w, 1, k), w, k)
  <2>1. k \in 0..Len(w)
    BY <1>3
  <2> QED
    BY <2>1, BeginAt
<1>6. SubSeq(s, 1, k) = SubSeq(w, 1, k)
  <2>1. Len(SubSeq(s, 1, k)) = k /\ Len(SubSeq(w, 1, k)) = k
    BY <1>4, <1>5 DEF Begins
  <2>2. \A i \in 1..k : SubSeq(s, 1, k)[i] = SubSeq(w, 1, k)[i]
    BY <1>3, <1>4, <1>5, Zenon DEF Begins
  <2> QED
    BY <1>4, <1>5, <2>1, <2>2, SeqEqual
<1> QED
  BY <1>1, <1>2, <1>3, <1>6 DEF IsPrefix

\* A written piece leaves a sequence, and goes to its end if it is the next.
LEMMA PutAtPlace ==
  ASSUME NEW S, NEW data \in Seq(S), "hole" \in S, NEW k \in Nat, NEW x \in S
  PROVE  /\ PutAt(data, k, x) \in Seq(S)
         /\ k = Len(data) + 1 => PutAt(data, k, x) = Append(data, x)
<1>1. PICK l \in Nat : l = Len(data)
  OBVIOUS
<1>2. PICK n \in Nat : n = IF k > l THEN k ELSE l
  OBVIOUS
<1>3. PICK w : w = [j \in 1..n |-> IF j = k THEN x ELSE IF j <= l THEN data[j] ELSE "hole"]
  OBVIOUS
<1>4. w = PutAt(data, k, x)
  BY <1>1, <1>2, <1>3, Zenon DEF PutAt
<1>5. w \in [1..n -> S]
  BY <1>1, <1>3
<1>6. w \in Seq(S) /\ Len(w) = n
  BY <1>5
<1>7. ASSUME k = l + 1
      PROVE  w = Append(data, x)
  <2>1. n = l + 1
    BY <1>2, <1>7
  <2>2. PICK a \in Seq(S) : a = Append(data, x) /\ Len(a) = l + 1
    BY <1>1, AppendProperties
  <2>3. ASSUME NEW i \in 1..l + 1
        PROVE  w[i] = a[i]
    <3>1. w[i] = IF i = k THEN x ELSE IF i <= l THEN data[i] ELSE "hole"
      BY <1>3, <2>1
    <3>2. a[i] = IF i <= l THEN data[i] ELSE x
      BY <1>1, <2>2
    <3> QED
      BY <1>7, <3>1, <3>2
  <2> QED
    BY <1>6, <2>1, <2>2, <2>3, SeqEqual
<1> QED
  BY <1>1, <1>4, <1>6, <1>7

LEMMA PutAtEnd ==
  ASSUME NEW S, NEW data \in Seq(S), "hole" \in S, NEW x \in S
  PROVE  PutAt(data, Len(data) + 1, x) = Append(data, x)
<1>1. PICK k \in Nat : k = Len(data) + 1
  OBVIOUS
<1>2. PutAt(data, k, x) = Append(data, x)
  BY <1>1, PutAtPlace
<1> QED
  BY <1>1, <1>2, Zenon

\* Taking the first element of what is left to the end of what is there.
LEMMA NextPiece ==
  ASSUME NEW S, NEW data \in Seq(S), NEW left \in Seq(S), left # << >>
  PROVE  /\ Head(left) \in S /\ Tail(left) \in Seq(S)
         /\ Append(data, Head(left)) \o Tail(left) = data \o left
<1>1. PICK x \in S, u \in Seq(S) : x = Head(left) /\ u = Tail(left)
  BY HeadTailProperties
<1>3. left = <<x>> \o u
  BY <1>1
<1>2. data \o (<<x>> \o u) = Append(data, x) \o u
  BY MoveFirst
<1> QED
  BY <1>1, <1>2

-----------------------------------------------------------------------------
(* The steps of the transfers and of the files.                              *)

\* What the assumptions are used for.
LEMMA PagesFacts ==
  /\ rootPath \in Paths /\ SavedAs \subseteq Paths /\ Nil \notin Paths
  /\ Nil \notin Seq(Parts) /\ Nil \notin Writing /\ Nil \notin Transfers
  /\ "hole" \in Parts /\ Seq(Pieces) \subseteq Seq(Parts) /\ Bodies \subseteq Seq(Pieces)
<1>1. Pieces \subseteq Parts
  BY DEF Parts
<1>2. Seq(Pieces) \subseteq Seq(Parts)
  BY <1>1, SeqMonotonic
<1> QED
  BY <1>2, PagesAssumption DEF Parts

\* Nothing is saved yet.
LEMMA SavesInitial ==
  ASSUME PagesInit
  PROVE  SavesInv
<1>1. PagesTypeOK
  <2>1. Dir \in Nodes /\ Nothing \in Nodes
    BY DEF Dir, Nothing, Nodes, Kinds
  <2> QED
    BY <2>1 DEF PagesInit, FileServerInit, C!Init, PagesTypeOK
<1>2. TransferInv
  BY DEF PagesInit, C!Init, TransferInv
<1>3. TreeInv
  BY PagesFacts DEF PagesInit, FileServerInit, TreeInv, Dir, Nothing, Writes
<1>4. \A p \in Paths : AloneAt(p)
  BY DEF PagesInit, FileServerInit, Dir, Nothing, AloneAt
<1> QED
  BY <1>1, <1>2, <1>3, <1>4 DEF SavesInv

\* Steps of the transfers leave the files alone.
LEMMA FilesKept ==
  ASSUME SavesInv, UNCHANGED <<node, writing, saved>>,
         transfer' \in [Savers -> Transfers \cup {Nil}], TransferInv'
  PROVE  SavesInv'
<1>1. PagesTypeOK'
  BY DEF SavesInv, PagesTypeOK
<1>2. TreeInv'
  BY DEF SavesInv, TreeInv, Node, Writes
<1>3. \A p \in Paths : AloneAt(p)'
  BY DEF SavesInv, AloneAt, Writers, Writes
<1> QED
  BY <1>1, <1>2, <1>3 DEF SavesInv

\* Everything of the body is left.
LEMMA DownloadStep ==
  ASSUME SavesInv, NEW t \in Savers, Download(t)
  PROVE  SavesInv'
<1>1. PICK body \in Bodies :
         transfer' = [transfer EXCEPT ![t] = [left |-> body, resBuffer |-> << >>]]
  BY DEF Download, C!postRequest
<1>2. writing[t] = Nil /\ UNCHANGED <<node, writing, saved>>
  BY DEF Download
<1>3. body \in Seq(Pieces) /\ << >> \o body = body
  BY PagesFacts, ConcatEmptySeq
<1>4. transfer' \in [Savers -> Transfers \cup {Nil}]
  BY <1>1, <1>3 DEF SavesInv, PagesTypeOK, Transfers
<1>5. TransferInv'
  BY <1>1, <1>2, <1>3 DEF SavesInv, PagesTypeOK, TransferInv
<1> QED
  BY <1>2, <1>4, <1>5, FilesKept

\* A piece moves from what is left to resBuffer.
LEMMA CallbackStep ==
  ASSUME SavesInv, NEW t \in Savers, C!WriteCallback(t),
         UNCHANGED <<node, writing, saved>>
  PROVE  SavesInv'
<1>1. transfer[t] \in Transfers /\ transfer[t] # Nil
  BY DEF SavesInv, PagesTypeOK, C!WriteCallback
<1>2. PICK l \in Seq(Pieces), r \in Seq(Pieces) : l = transfer[t].left /\ r = transfer[t].resBuffer
  BY <1>1 DEF Transfers
<1>3. l # << >>
  BY <1>2 DEF C!WriteCallback
<1>4. PICK tl \in Seq(Pieces), ra \in Seq(Pieces) :
         tl = Tail(l) /\ ra = Append(r, Head(l)) /\ ra \o tl = r \o l
  <2>1. Head(l) \in Pieces /\ Tail(l) \in Seq(Pieces) /\ Append(r, Head(l)) \o Tail(l) = r \o l
    BY <1>3, NextPiece
  <2>2. Append(r, Head(l)) \in Seq(Pieces)
    BY <2>1, AppendProperties
  <2> QED
    BY <2>1, <2>2
<1>5. transfer' = [transfer EXCEPT ![t] = [left |-> tl, resBuffer |-> ra]]
  BY <1>2, <1>4 DEF C!WriteCallback
<1>6. r \o l \in Bodies
  BY <1>1, <1>2 DEF SavesInv, TransferInv
<1>7. transfer' \in [Savers -> Transfers \cup {Nil}]
  BY <1>5 DEF SavesInv, PagesTypeOK, Transfers
<1>8. TransferInv'
  BY <1>1, <1>4, <1>5, <1>6 DEF SavesInv, PagesTypeOK, TransferInv
<1> QED
  BY <1>7, <1>8, FilesKept

\* The end of a transfer.
LEMMA ReturnFacts ==
  ASSUME SavesInv, NEW t \in Savers, NEW curlRc, C!Return(t, curlRc)
  PROVE  /\ transfer' = [transfer EXCEPT ![t] = Nil]
         /\ transfer' \in [Savers -> Transfers \cup {Nil}]
         /\ curlRc \in Ends /\ writing[t] = Nil
         /\ C!Result(t, curlRc) \in Seq(Pieces) /\ Good(curlRc, C!Result(t, curlRc))
<1>1. /\ transfer' = [transfer EXCEPT ![t] = Nil] /\ transfer[t] # Nil
      /\ curlRc \in Ends /\ (curlRc = "CURLE_OK" => transfer[t].left = << >>)
  BY DEF C!Return, C!PerformReturns, Ends
<1>2. transfer[t] \in Transfers /\ writing[t] = Nil
  BY <1>1 DEF SavesInv, PagesTypeOK, TransferInv
<1>3. PICK l \in Seq(Pieces), r \in Seq(Pieces) : l = transfer[t].left /\ r = transfer[t].resBuffer
  BY <1>2 DEF Transfers
<1>4. r \o l \in Bodies
  BY <1>1, <1>3 DEF SavesInv, TransferInv
<1>5. IsPrefix(r, r \o l)
  BY Prefix
<1>6. l = << >> => r \in Bodies
  BY <1>4, ConcatEmptySeq
<1>7. CASE curlRc = "CURLE_OPERATION_TIMEDOUT"
  <2>1. C!Result(t, curlRc) = << >>
    BY <1>7 DEF C!Result
  <2>2. PICK e \in Seq(Pieces) : e = << >> /\ e \o (r \o l) = r \o l
    <3>1. PICK v \in Seq(Pieces) : v = r \o l
      BY ConcatProperties
    <3>2. << >> \o v = v /\ << >> \in Seq(Pieces)
      BY ConcatEmptySeq, EmptySeq
    <3> QED
      BY <3>1, <3>2, Zenon
  <2>3. IsPrefix(<< >>, r \o l)
    BY <2>2, Prefix, ConcatProperties
  <2> QED
    <3>1. Good(curlRc, << >>)
      BY <1>4, <1>7, <2>3 DEF Good
    <3> QED
      BY <1>1, <1>2, <2>1, <2>2, <3>1 DEF SavesInv, PagesTypeOK
<1>8. CASE curlRc # "CURLE_OPERATION_TIMEDOUT"
  <2>1. C!Result(t, curlRc) = r
    BY <1>3, <1>8 DEF C!Result
  <2> QED
    <3>1. Good(curlRc, r)
      BY <1>1, <1>3, <1>4, <1>5, <1>6, <1>8 DEF Good
    <3> QED
      BY <1>1, <1>2, <2>1, <3>1 DEF SavesInv, PagesTypeOK
<1> QED
  BY <1>7, <1>8

\* The page is only returned.
LEMMA ReturnStep ==
  ASSUME SavesInv, NEW t \in Savers, NEW curlRc, ReturnPage(t, curlRc)
  PROVE  SavesInv'
<1>1. C!Return(t, curlRc) /\ UNCHANGED <<node, writing, saved>>
  BY DEF ReturnPage
<1>2. /\ transfer' = [transfer EXCEPT ![t] = Nil]
      /\ transfer' \in [Savers -> Transfers \cup {Nil}]
  BY <1>1, ReturnFacts
<1>3. TransferInv'
  BY <1>1, <1>2 DEF SavesInv, PagesTypeOK, TransferInv
<1> QED
  BY <1>1, <1>2, <1>3, FilesKept

\* A thread that ends its transfer may start to write.
LEMMA SavePageStep ==
  ASSUME SavesInv, NEW t \in Savers, NEW curlRc, NEW p \in SavedAs,
         SavePage(t, curlRc, p)
  PROVE  SavesInv'
<1>0. p \in Paths
  BY PagesFacts
<1>1. PICK content \in Seq(Pieces) :
         /\ content = C!Result(t, curlRc) /\ Good(curlRc, content)
         /\ curlRc \in Ends /\ writing[t] = Nil
  BY ReturnFacts DEF SavePage
<1>2. transfer' = [transfer EXCEPT ![t] = Nil] /\ transfer' \in [Savers -> Transfers \cup {Nil}]
  BY ReturnFacts DEF SavePage
<1>3. PICK s \in Saves : s = [curlRc |-> curlRc, alone |-> Writers(p) = {}]
  <2>1. (Writers(p) = {}) \in BOOLEAN
    OBVIOUS
  <2> QED
    BY <1>1, <2>1 DEF Saves
<1>4. saved' = [saved EXCEPT ![p] = s] /\ openStream(t, p, content)
  BY <1>1, <1>3 DEF SavePage
<1>5. CASE ~(Accessible(p) /\ node[p].kind # "dir")
  <2>1. UNCHANGED <<node, writing>>
    BY <1>4, <1>5 DEF openStream
  <2>2. node[p].kind # "file"
    BY <1>0, <1>5 DEF SavesInv, TreeInv, Accessible
  <2>3. PagesTypeOK'
    BY <1>2, <1>4, <2>1 DEF SavesInv, PagesTypeOK
  <2>4. TransferInv'
    BY <1>2, <2>1 DEF SavesInv, PagesTypeOK, TransferInv
  <2>5. TreeInv'
    BY <1>4, <2>1, <2>2 DEF SavesInv, PagesTypeOK, TreeInv, Node, Writes
  <2>6. ASSUME NEW q \in Paths
        PROVE  AloneAt(q)'
    <3>1. CASE q = p
      BY <2>1, <2>2, <3>1 DEF AloneAt
    <3>2. CASE q # p
      <4>1. saved'[q] = saved[q] \/ node[q].kind # "file"
        BY <1>4, <3>2 DEF SavesInv, PagesTypeOK, TreeInv
      <4> QED
        BY <2>1, <4>1 DEF SavesInv, AloneAt, Writers, Writes
    <3> QED
      BY <3>1, <3>2
  <2> QED
    BY <2>3, <2>4, <2>5, <2>6 DEF SavesInv
<1>6. CASE Accessible(p) /\ node[p].kind # "dir"
  <2>1. PICK w \in Writing : w = [path |-> p, left |-> content, next |-> 1]
    BY <1>0 DEF Writing
  <2>2. PICK f \in Nodes : f = [kind |-> "file", data |-> << >>]
    <3>1. << >> \in Seq(Parts)
      BY EmptySeq
    <3> QED
      BY <3>1 DEF Nodes, Kinds
  <2>3. node' = [node EXCEPT ![p] = f] /\ writing' = [writing EXCEPT ![t] = w]
    BY <1>4, <1>6, <2>1, <2>2 DEF openStream, File
  <2>4. /\ w # Nil /\ w.path = p /\ w.left = content /\ w.next = 1
        /\ f.kind = "file" /\ f.data = << >>
    BY <2>1, <2>2, PagesFacts
  <2>5. /\ node'[p] = f /\ \A q \in Paths : q # p => node'[q] = node[q]
        /\ writing'[t] = w /\ \A u \in Savers : u # t => writing'[u] = writing[u]
        /\ saved'[p] = s /\ \A q \in SavedAs : q # p => saved'[q] = saved[q]
    BY <1>0, <1>4, <2>3 DEF SavesInv, PagesTypeOK
  <2>6. PagesTypeOK'
    BY <1>2, <1>4, <2>3 DEF SavesInv, PagesTypeOK
  <2>7. TransferInv'
    BY <1>2, <2>5 DEF SavesInv, PagesTypeOK, TransferInv
  <2>8. \A u \in Savers, q \in Paths :
           Writes(u, q)' <=> IF u = t THEN q = p ELSE Writes(u, q)
    BY <2>4, <2>5 DEF Writes
  <2>9. ~Writes(t, p)
    BY <1>1 DEF Writes
  <2>10. TreeInv'
    <3>1. p # rootPath
      BY <1>6 DEF Accessible
    <3>2. \A q : Node(q).kind = "dir" => Node(q)'.kind = "dir"
      BY <1>6, <2>5 DEF Node
    <3>3. node'[rootPath].kind = "dir"
      BY <2>5, <3>1, PagesFacts DEF SavesInv, TreeInv
    <3>4. \A q \in Paths : node'[q].kind # "none" => q = rootPath \/ Node(Parent(q))'.kind = "dir"
      BY <1>6, <2>5, <3>2 DEF SavesInv, TreeInv, Accessible
    <3>5. \A q \in Paths : node'[q].kind = "file" => q \in SavedAs /\ saved'[q] \in Saves
      BY <2>5 DEF SavesInv, TreeInv
    <3>6. \A u \in Savers, q \in Paths : Writes(u, q)' => node'[q].kind = "file"
      BY <2>4, <2>5, <2>8 DEF SavesInv, TreeInv
    <3> QED
      BY <3>3, <3>4, <3>5, <3>6 DEF TreeInv
  <2>11. ASSUME NEW q \in Paths
         PROVE  AloneAt(q)'
    <3>1. CASE q = p
      <4>1. << >> \o content = content /\ Len(<< >>) + 1 = 1
        BY ConcatEmptySeq
      <4>2. s.alone => \A u \in Savers : ~Writes(u, p)
        BY <1>3 DEF Writers
      <4>3. Writers(p)' # {}
        BY <2>8, <1>0 DEF Writers
      <4>4. s.curlRc = curlRc
        BY <1>3
      <4>5. ASSUME s.alone, NEW u \in Savers, Writes(u, p)'
            PROVE  /\ \A v \in Savers : Writes(v, p)' => v = u
                   /\ writing'[u].next = Len(node'[p].data) + 1
                   /\ Good(saved'[p].curlRc, node'[p].data \o writing'[u].left)
        <5>1. u = t /\ \A v \in Savers : Writes(v, p)' => v = t
          BY <1>0, <2>8, <4>2, <4>5
        <5> QED
          BY <1>1, <2>4, <2>5, <4>1, <4>4, <5>1
      <4> QED
        BY <2>5, <3>1, <4>3, <4>5 DEF AloneAt
    <3>2. CASE q # p
      <4>1. node'[q] = node[q] /\ (node[q].kind = "file" => saved'[q] = saved[q])
        BY <2>5, <3>2 DEF SavesInv, TreeInv
      <4>2. \A u \in Savers : Writes(u, q)' => u # t /\ Writes(u, q) /\ writing'[u] = writing[u]
        BY <2>5, <2>8, <3>2
      <4>3. Writers(q)' = Writers(q)
        <5>1. ~Writes(t, q)
          BY <1>1 DEF Writes
        <5> QED
          BY <2>8, <3>2, <5>1 DEF Writers
      <4>4. AloneAt(q)
        BY DEF SavesInv
      <4> QED
        BY <4>1, <4>2, <4>3, <4>4 DEF AloneAt
    <3> QED
      BY <3>1, <3>2
  <2> QED
    BY <2>6, <2>7, <2>10, <2>11 DEF SavesInv
<1> QED
  BY <1>5, <1>6

\* A writer after its next piece.
LEMMA WrittenOn ==
  ASSUME NEW v, NEW p, NEW l, NEW k, NEW r, NEW n, v = [path |-> p, left |-> l, next |-> k],
         NEW y, y = [v EXCEPT !.left = r, !.next = n]
  PROVE  y = [path |-> p, left |-> r, next |-> n]
<1>1. PICK u : u = [v EXCEPT !.left = r]
  OBVIOUS
<1>2. u = [path |-> p, left |-> r, next |-> k]
  BY <1>1
<1>3. [u EXCEPT !.next = n] = [path |-> p, left |-> r, next |-> n]
  BY <1>2
<1>4. [v EXCEPT !.left = r, !.next = n] = [u EXCEPT !.next = n]
  BY <1>1
<1> QED
  BY <1>3, <1>4

\* A lone writer goes on at the end; others spoil only files that are not alone.
LEMMA WritePieceStep ==
  ASSUME SavesInv, NEW t \in Savers, WritePiece(t), UNCHANGED <<transfer, saved>>
  PROVE  SavesInv'
<1>1. writing[t] \in Writing /\ writing[t] # Nil
  BY DEF SavesInv, PagesTypeOK, WritePiece
<1>2. PICK p \in Paths \cup {Nil}, left \in Seq(Pieces), k \in Nat :
         p = writing[t].path /\ left = writing[t].left /\ k = writing[t].next
  BY <1>1 DEF Writing
<1>3. left # << >>
  BY <1>2 DEF WritePiece
<1>4. PICK x \in Pieces, rest \in Seq(Pieces) : x = Head(left) /\ rest = Tail(left)
  BY <1>3, HeadTailProperties
<1>5. PICK w \in Writing : w = [path |-> p, left |-> rest, next |-> k + 1]
  <2>1. k + 1 \in Nat
    OBVIOUS
  <2> QED
    BY <2>1, Zenon DEF Writing
<1>6. w # Nil /\ w.path = p /\ w.left = rest /\ w.next = k + 1
  BY <1>5, PagesFacts
<1>7. writing' = [writing EXCEPT ![t] = w]
  <2>1. writing' = [writing EXCEPT ![t] = [writing[t] EXCEPT !.left = rest, !.next = k + 1]]
    BY <1>2, <1>4 DEF WritePiece, SavesInv, PagesTypeOK
  <2>2. [writing[t] EXCEPT !.left = rest, !.next = k + 1] = w
    <3>1. PICK v : v = writing[t]
      OBVIOUS
    <3>2. v = [path |-> p, left |-> left, next |-> k]
      BY <1>1, <1>2, <3>1 DEF Writing
    <3>3. [v EXCEPT !.left = rest, !.next = k + 1] = [path |-> p, left |-> rest, next |-> k + 1]
      <4>1. PICK n : n = k + 1
        OBVIOUS
      <4>2. PICK y : y = [v EXCEPT !.left = rest, !.next = n]
        OBVIOUS
      <4>3. y = [path |-> p, left |-> rest, next |-> n]
        BY <3>2, <4>2, WrittenOn
      <4> QED
        BY <4>1, <4>2, <4>3, Zenon
    <3> QED
      BY <1>5, <3>1, <3>3
  <2> QED
    BY <2>1, <2>2
<1>8. writing'[t] = w /\ \A u \in Savers : u # t => writing'[u] = writing[u]
  BY <1>7 DEF SavesInv, PagesTypeOK
<1>9. \A u \in Savers, q \in Paths : Writes(u, q)' <=> Writes(u, q)
  BY <1>1, <1>2, <1>6, <1>8 DEF Writes
<1>10. writing' \in [Savers -> Writing \cup {Nil}]
  BY <1>7 DEF SavesInv, PagesTypeOK
<1>11. TransferInv'
  BY <1>1, <1>8 DEF SavesInv, PagesTypeOK, TransferInv
<1>12. CASE p = Nil
  <2>1. UNCHANGED node
    BY <1>2, <1>12 DEF WritePiece
  <2>2. PagesTypeOK'
    BY <1>10, <2>1 DEF SavesInv, PagesTypeOK
  <2>3. TreeInv'
    BY <1>9, <2>1 DEF SavesInv, TreeInv, Node
  <2>4. ASSUME NEW q \in Paths
        PROVE  AloneAt(q)'
    <3>1. ~Writes(t, q)
      BY <1>2, <1>12, PagesFacts DEF Writes
    <3>2. AloneAt(q) /\ Writers(q)' = Writers(q)
      BY <1>9 DEF SavesInv, Writers
    <3> QED
      BY <1>8, <1>9, <2>1, <3>1, <3>2 DEF AloneAt
  <2> QED
    BY <1>11, <2>2, <2>3, <2>4 DEF SavesInv
<1>13. CASE p \in Paths
  <2>1. Writes(t, p) /\ p # Nil
    BY <1>1, <1>2, <1>13, PagesFacts DEF Writes
  <2>2. node[p].kind = "file" /\ p \in SavedAs
    BY <1>13, <2>1 DEF SavesInv, TreeInv
  <2>3. PICK data \in Seq(Parts) : data = node[p].data /\ node[p] = [kind |-> "file", data |-> data]
    <3>1. PICK f \in Nodes : f = node[p] /\ f.kind = "file"
      BY <1>13, <2>2 DEF SavesInv, PagesTypeOK
    <3>2. f.data \in Seq(Parts) /\ f = [kind |-> "file", data |-> f.data]
      BY <3>1 DEF Nodes
    <3> QED
      BY <3>1, <3>2
  <2>4. x \in Parts /\ left \in Seq(Parts) /\ rest \in Seq(Parts)
    BY PagesFacts DEF Parts
  <2>5. PICK d \in Seq(Parts) : d = PutAt(data, k, x) /\ (k = Len(data) + 1 => d = Append(data, x))
    <3>1. "hole" \in Parts
      BY PagesFacts
    <3>2. x \in Parts
      BY <2>4
    <3>3. PutAt(data, k, x) \in Seq(Parts)
      BY <3>1, <3>2, PutAtPlace, Zenon
    <3>4. PutAt(data, Len(data) + 1, x) = Append(data, x)
      BY <3>1, <3>2, PutAtEnd, Zenon
    <3> QED
      BY <3>3, <3>4, Zenon
  <2>6. PICK f \in Nodes : f = [kind |-> "file", data |-> d] /\ f.kind = "file" /\ f.data = d
    <3>1. PICK f : f = [kind |-> "file", data |-> d]
      OBVIOUS
    <3>2. f \in Nodes /\ f.kind = "file" /\ f.data = d
      BY <3>1 DEF Nodes, Kinds
    <3> QED
      BY <3>1, <3>2
  <2>7. node' = [node EXCEPT ![p] = f]
    <3>1. node' = [node EXCEPT ![p] = [node[p] EXCEPT !.data = PutAt(data, k, x)]]
      BY <1>2, <1>4, <1>13, <2>1, <2>3 DEF WritePiece, SavesInv, PagesTypeOK
    <3>2. [node[p] EXCEPT !.data = PutAt(data, k, x)] = f
      BY <2>3, <2>5, <2>6
    <3> QED
      BY <3>1, <3>2
  <2>8. /\ node'[p] = f /\ \A q \in Paths : q # p => node'[q] = node[q]
        /\ \A q \in Paths : node'[q].kind = node[q].kind
    BY <1>13, <2>2, <2>6, <2>7 DEF SavesInv, PagesTypeOK
  <2>9. PagesTypeOK'
    BY <1>10, <2>7 DEF SavesInv, PagesTypeOK
  <2>10. TreeInv'
    <3>1. \A q : Node(q)'.kind = Node(q).kind
      BY <2>8 DEF Node
    <3> QED
      BY <1>9, <2>8, <3>1, PagesFacts DEF SavesInv, TreeInv
  <2>11. ASSUME NEW q \in Paths
         PROVE  AloneAt(q)'
    <3>1. CASE q = p
      <4>1. Writers(p)' # {}
        BY <1>9, <1>13, <2>1 DEF Writers
      <4>2. ASSUME saved[p].alone, NEW u \in Savers, Writes(u, p)'
            PROVE  /\ \A v \in Savers : Writes(v, p)' => v = u
                   /\ writing'[u].next = Len(node'[p].data) + 1
                   /\ Good(saved[p].curlRc, node'[p].data \o writing'[u].left)
        <5>1. /\ \A v \in Savers : Writes(v, p) => v = t
              /\ k = Len(data) + 1 /\ Good(saved[p].curlRc, data \o left)
          BY <1>2, <1>13, <2>1, <2>2, <2>3, <4>2 DEF SavesInv, AloneAt
        <5>2. u = t /\ \A v \in Savers : Writes(v, p)' => v = t
          BY <1>9, <1>13, <4>2, <5>1
        <5>3. d = Append(data, x) /\ Len(d) = Len(data) + 1
          BY <2>4, <2>5, <5>1, AppendProperties
        <5>4. d \o rest = data \o left
          BY <1>3, <1>4, <2>4, <5>3, NextPiece
        <5> QED
          BY <1>6, <1>8, <2>6, <2>8, <5>1, <5>2, <5>3, <5>4
      <4> QED
        BY <3>1, <4>1, <4>2 DEF AloneAt
    <3>2. CASE q # p
      <4>1. ~Writes(t, q)
        BY <1>2, <3>2 DEF Writes
      <4>2. AloneAt(q) /\ Writers(q)' = Writers(q) /\ node'[q] = node[q]
        BY <1>9, <2>8, <3>2 DEF SavesInv, Writers
      <4> QED
        BY <1>8, <1>9, <4>1, <4>2 DEF AloneAt
    <3> QED
      BY <3>1, <3>2
  <2> QED
    BY <1>11, <2>9, <2>10, <2>11 DEF SavesInv
<1> QED
  BY <1>12, <1>13

\* The last writer leaves the whole content.
LEMMA CloseStep ==
  ASSUME SavesInv, NEW t \in Savers, CloseStream(t), UNCHANGED <<transfer, saved>>
  PROVE  SavesInv'
<1>1. /\ writing[t] # Nil /\ writing[t].left = << >> /\ UNCHANGED node
      /\ writing' = [writing EXCEPT ![t] = Nil]
  BY DEF CloseStream
<1>2. writing'[t] = Nil /\ \A u \in Savers : u # t => writing'[u] = writing[u]
  BY <1>1 DEF SavesInv, PagesTypeOK
<1>3. \A u \in Savers : \A q : Writes(u, q)' <=> u # t /\ Writes(u, q)
  BY <1>2 DEF Writes
<1>4. PagesTypeOK'
  BY <1>1 DEF SavesInv, PagesTypeOK
<1>5. TransferInv'
  BY <1>2 DEF SavesInv, PagesTypeOK, TransferInv
<1>6. TreeInv'
  BY <1>1, <1>3 DEF SavesInv, TreeInv, Node
<1>7. ASSUME NEW q \in Paths
      PROVE  AloneAt(q)'
  <2>1. AloneAt(q)
    BY DEF SavesInv
  <2>2. node[q].data \in Seq(Parts) /\ node[q].data \o << >> = node[q].data
    <3>1. node[q].data \in Seq(Parts)
      BY DEF SavesInv, PagesTypeOK, Nodes
    <3> QED
      BY <3>1, ConcatEmptySeq
  <2>3. ASSUME node[q].kind = "file", saved[q].alone, Writers(q)' = {}
        PROVE  Good(saved[q].curlRc, node[q].data)
    <3>1. CASE Writers(q) = {}
      BY <2>1, <2>3, <3>1 DEF AloneAt
    <3>2. CASE Writers(q) # {}
      <4>1. Writes(t, q)
        BY <1>3, <2>3, <3>2 DEF Writers
      <4> QED
        BY <1>1, <2>1, <2>2, <2>3, <4>1 DEF AloneAt
    <3> QED
      BY <3>1, <3>2
  <2> QED
    BY <1>1, <1>2, <1>3, <2>1, <2>3 DEF AloneAt
<1> QED
  BY <1>4, <1>5, <1>6, <1>7 DEF SavesInv

\* Only what has no entries is removed, and its writers write to nothing.
LEMMA UnlinkStep ==
  ASSUME SavesInv, NEW p \in Paths, unlink(p), UNCHANGED <<transfer, saved>>
  PROVE  SavesInv'
<1>1. /\ p # rootPath /\ node' = [node EXCEPT ![p] = Nothing]
      /\ \A q \in Paths : q # rootPath /\ Parent(q) = p => node[q].kind = "none"
      /\ writing' = [u \in Savers |-> IF Writes(u, p) THEN [writing[u] EXCEPT !.path = Nil]
                                      ELSE writing[u]]
  BY DEF unlink, Accessible
<1>2. node'[p] = Nothing /\ \A q \in Paths : q # p => node'[q] = node[q]
  BY <1>1 DEF SavesInv, PagesTypeOK
<1>3. Nothing \in Nodes /\ Nothing.kind = "none"
  <2>1. << >> \in Seq(Parts)
    BY EmptySeq
  <2> QED
    BY <2>1 DEF Nothing, Nodes, Kinds
<1>4. ASSUME NEW u \in Savers
      PROVE  /\ writing'[u] \in Writing \cup {Nil} /\ (writing'[u] = Nil <=> writing[u] = Nil)
             /\ \A q \in Paths : Writes(u, q)' <=> q # p /\ Writes(u, q)
             /\ ~Writes(u, p) => writing'[u] = writing[u]
  <2>1. CASE Writes(u, p)
    <3>1. writing[u] \in Writing /\ writing[u] # Nil /\ writing[u].path = p
      BY <2>1 DEF SavesInv, PagesTypeOK, Writes
    <3>2. PICK w \in Writing : w = [writing[u] EXCEPT !.path = Nil] /\ w.path = Nil
      <4>1. PICK v : v = writing[u]
        OBVIOUS
      <4>2. PICK l \in Seq(Pieces), n \in Nat : v = [path |-> p, left |-> l, next |-> n]
        BY <3>1, <4>1 DEF Writing
      <4>3. PICK w : w = [path |-> Nil, left |-> l, next |-> n]
        OBVIOUS
      <4>4. w \in Writing /\ w.path = Nil
        BY <4>3 DEF Writing
      <4>5. [v EXCEPT !.path = Nil] = w
        BY <4>2, <4>3
      <4> QED
        BY <4>1, <4>4, <4>5
    <3>3. writing'[u] = w /\ w # Nil
      BY <1>1, <2>1, <3>2, PagesFacts
    <3> QED
      BY <2>1, <3>1, <3>2, <3>3, PagesFacts DEF Writes
  <2>2. CASE ~Writes(u, p)
    <3>1. writing'[u] = writing[u]
      BY <1>1, <2>2
    <3> QED
      BY <2>2, <3>1 DEF SavesInv, PagesTypeOK, Writes
  <2> QED
    BY <2>1, <2>2
<1>5. PagesTypeOK'
  <2>1. writing' \in [Savers -> Writing \cup {Nil}]
    BY <1>1, <1>4
  <2> QED
    BY <1>1, <1>3, <2>1 DEF SavesInv, PagesTypeOK
<1>6. TransferInv'
  BY <1>4 DEF SavesInv, TransferInv
<1>7. TreeInv'
  <2>1. node'[rootPath].kind = "dir"
    BY <1>1, <1>2, PagesFacts DEF SavesInv, TreeInv
  <2>2. ASSUME NEW q \in Paths, node'[q].kind # "none"
        PROVE  q = rootPath \/ Node(Parent(q))'.kind = "dir"
    <3>1. q # p /\ node[q].kind # "none"
      BY <1>2, <1>3, <2>2
    <3>2. q # rootPath => Parent(q) # p /\ Node(Parent(q)).kind = "dir"
      BY <1>1, <3>1 DEF SavesInv, TreeInv
    <3>3. q # rootPath => Node(Parent(q))' = Node(Parent(q))
      BY <1>2, <3>2 DEF Node
    <3> QED
      BY <3>2, <3>3
  <2>3. \A q \in Paths : node'[q].kind = "file" => q \in SavedAs /\ saved'[q] \in Saves
    BY <1>2, <1>3 DEF SavesInv, TreeInv
  <2>4. \A u \in Savers, q \in Paths : Writes(u, q)' => node'[q].kind = "file"
    BY <1>2, <1>4 DEF SavesInv, TreeInv
  <2> QED
    BY <2>1, <2>2, <2>3, <2>4 DEF TreeInv
<1>8. ASSUME NEW q \in Paths
      PROVE  AloneAt(q)'
  <2>1. CASE q = p
    BY <1>2, <1>3, <2>1 DEF AloneAt
  <2>2. CASE q # p
    <3>1. \A u \in Savers : Writes(u, q)' <=> Writes(u, q)
      BY <1>4, <2>2
    <3>2. \A u \in Savers : Writes(u, q) => ~Writes(u, p)
      BY <2>2 DEF Writes
    <3>3. AloneAt(q) /\ Writers(q)' = Writers(q) /\ node'[q] = node[q]
      BY <1>2, <2>2, <3>1 DEF SavesInv, Writers
    <3>4. \A u \in Savers : Writes(u, q)' => writing'[u] = writing[u]
      BY <1>4, <3>1, <3>2
    <3> QED
      BY <3>1, <3>3, <3>4 DEF AloneAt
  <2> QED
    BY <2>1, <2>2
<1> QED
  BY <1>5, <1>6, <1>7, <1>8 DEF SavesInv

\* A directory is made where nothing was.
LEMMA MkdirStep ==
  ASSUME SavesInv, NEW p \in Paths, mkdir(p), UNCHANGED <<transfer, saved>>
  PROVE  SavesInv'
<1>1. /\ p # rootPath /\ Node(Parent(p)).kind = "dir" /\ node[p].kind = "none"
      /\ node' = [node EXCEPT ![p] = Dir] /\ UNCHANGED writing
  BY DEF mkdir, Accessible
<1>2. node'[p] = Dir /\ \A q \in Paths : q # p => node'[q] = node[q]
  BY <1>1 DEF SavesInv, PagesTypeOK
<1>3. Dir \in Nodes /\ Dir.kind = "dir"
  <2>1. << >> \in Seq(Parts)
    BY EmptySeq
  <2> QED
    BY <2>1 DEF Dir, Nodes, Kinds
<1>4. PagesTypeOK'
  BY <1>1, <1>3 DEF SavesInv, PagesTypeOK
<1>5. TransferInv'
  BY <1>1 DEF SavesInv, TransferInv
<1>6. \A u \in Savers, q \in Paths : Writes(u, q)' <=> Writes(u, q)
  BY <1>1 DEF Writes
<1>7. TreeInv'
  <2>1. \A q : Node(q).kind = "dir" => Node(q)'.kind = "dir"
    BY <1>2, <1>3 DEF Node
  <2>2. node'[rootPath].kind = "dir"
    BY <1>1, <1>2, PagesFacts DEF SavesInv, TreeInv
  <2>3. \A q \in Paths : node'[q].kind # "none" => q = rootPath \/ Node(Parent(q))'.kind = "dir"
    BY <1>1, <1>2, <2>1 DEF SavesInv, TreeInv
  <2>4. \A q \in Paths : node'[q].kind = "file" => q \in SavedAs /\ saved'[q] \in Saves
    BY <1>2, <1>3 DEF SavesInv, TreeInv
  <2>5. \A u \in Savers, q \in Paths : Writes(u, q)' => node'[q].kind = "file"
    BY <1>1, <1>2, <1>6 DEF SavesInv, TreeInv
  <2> QED
    BY <2>2, <2>3, <2>4, <2>5 DEF TreeInv
<1>8. ASSUME NEW q \in Paths
      PROVE  AloneAt(q)'
  <2>1. CASE q = p
    BY <1>2, <1>3, <2>1 DEF AloneAt
  <2>2. CASE q # p
    BY <1>1, <1>2, <2>2 DEF SavesInv, AloneAt, Writers, Writes
  <2> QED
    BY <2>1, <2>2
<1> QED
  BY <1>4, <1>5, <1>7, <1>8 DEF SavesInv

-----------------------------------------------------------------------------
(* The request.                                                              *)

\* r has the fields of a request.
RequestFields(r) ==
  r = [url |-> r.url, stage |-> r.stage, result |-> r.result, list |-> r.list,
       removed |-> r.removed, seen |-> r.seen, disturbed |-> r.disturbed,
       refused |-> r.refused]

\* y is q at another stage.
AtStage(y, q, stage, refused) ==
  /\ RequestFields(y) /\ y.stage = stage /\ y.refused = refused
  /\ y.url = q.url /\ y.result = q.result /\ y.removed = q.removed /\ y.seen = q.seen
  /\ y.disturbed = q.disturbed

Target(r) == PathOf(r.url)

\* What the stages have read and seen.
ReadInv(r) ==
  /\ r.result \in Seq(Parts) /\ r.removed \in Seq(Parts) \cup {Nil}
  /\ r.stage \in {"isDir", "lsDir", "fileExists", "readTextFile"} => r.result = << >>
  /\ r.stage = "reading" /\ r.removed = Nil => Node(Target(r)).kind = "file"

\* What is found at its path.
FoundFor(r) == KindAt(r.url, Node(Target(r)).kind)

SeenInv(r) ==
  /\ r.stage \notin Answers => FoundFor(r) \in r.seen
  /\ r.stage \in {"lsDir", "list"} => "dir" \in r.seen
  /\ r.stage \in {"fileExists", "readTextFile"} => r.seen # {"dir"} \/ r.refused
  /\ r.stage = "NOT_FOUND" => "none" \in r.seen \/ r.refused
  /\ r.stage = "reading" => "file" \in r.seen
  /\ r.stage = "page" => \/ "file" \in r.seen
                         \/ r.result = << >> /\ (r.seen # {"dir"} \/ r.refused)

\* As long as nobody came near the path.
QuietInv(r) ==
  ~r.disturbed =>
     /\ r.seen = {FoundFor(r)} /\ r.removed = Nil
     /\ Target(r) \in Paths => Writers(Target(r)) = {}
     /\ r.stage = "reading" =>
           /\ Len(r.result) <= Len(Node(Target(r)).data)
           /\ Begins(r.result, Node(Target(r)).data, Len(r.result))
     /\ r.stage = "page" /\ r.seen = {"file"} /\ ~r.refused => r.result = Node(Target(r)).data

StageInv(r) == RequestFields(r) /\ ReadInv(r) /\ SeenInv(r) /\ QuietInv(r)

RequestInv == request # Nil => StageInv(request)

PagesInv == SavesInv /\ RequestInv

\* The node of any text.
LEMMA AskedFacts ==
  ASSUME PagesTypeOK
  PROVE  \A q : /\ Node(q) \in Nodes /\ Node(q).data \in Seq(Parts)
                /\ q \in Paths => Node(q) = node[q]
                /\ Node(q).kind = "file" => q \in Paths
<1>1. Nothing \in Nodes /\ Nothing.kind = "none"
  <2>1. << >> \in Seq(Parts)
    BY EmptySeq
  <2> QED
    BY <2>1 DEF Nothing, Nodes, Kinds
<1> TAKE q
<1>2. Node(q) \in Nodes
  BY <1>1 DEF Node, PagesTypeOK
<1> QED
  BY <1>1, <1>2 DEF Node, Nodes

\* A look finds what is there, or nothing for a file with a slash at its end.
LEMMA KindFacts ==
  \A url, kind : /\ KindAt(url, kind) = "file" => kind = "file"
                 /\ KindAt(url, kind) = "dir" => kind = "dir"
                 /\ kind # "file" => KindAt(url, kind) = kind
BY DEF KindAt

\* A request goes on to another stage, and a look may have been refused.
LEMMA NextStage ==
  ASSUME RequestInv, request # Nil, NEW stage, NEW kinds
  PROVE  /\ Goto(stage) => AtStage(request', request, stage, request.refused)
         /\ Denied(kinds, stage) => /\ AtStage(request', request, stage, TRUE)
                                    /\ Found \in kinds
<1>1. PICK q : q = request /\ RequestFields(q)
  BY DEF RequestInv, StageInv
<1>2. PICK y : y = [q EXCEPT !.stage = stage]
  OBVIOUS
<1>3. AtStage(y, q, stage, q.refused)
  BY <1>1, <1>2 DEF RequestFields, AtStage
<1>4. PICK z : z = [q EXCEPT !.stage = stage, !.refused = TRUE]
  OBVIOUS
<1>5. z = [y EXCEPT !.refused = TRUE]
  BY <1>2, <1>4
<1>6. AtStage(z, q, stage, TRUE)
  BY <1>3, <1>5 DEF RequestFields, AtStage
<1>7. Goto(stage) => request' = y
  BY <1>1, <1>2, Zenon DEF Goto
<1>8. Denied(kinds, stage) => request' = z /\ Found \in kinds
  BY <1>1, <1>4, Zenon DEF Denied
<1> QED
  BY <1>1, <1>3, <1>6, <1>7, <1>8, Zenon

\* A step that changes the request only.
LEMMA OnlyRequest ==
  ASSUME UNCHANGED <<node, writing>>, request' # Nil => StageInv(request')
  PROVE  RequestInv'
<1> SUFFICES ASSUME request' # Nil
             PROVE  StageInv(request)'
  BY DEF RequestInv
<1>1. PICK y : y = request'
  OBVIOUS
<1>2. StageInv(y)
  BY <1>1
<1>3. StageInv(y)'
  BY <1>2 DEF StageInv, ReadInv, SeenInv, QuietInv, FoundFor, Node, Writers, Writes
<1> QED
  BY <1>1, <1>3 DEF StageInv, ReadInv, SeenInv, QuietInv, FoundFor, Target, RequestFields

\* A request starts with what it sees.
LEMMA RequestMade ==
  ASSUME NEW url, handleGetRequest(url)
  PROVE  RequestInv'
<1>1. PICK p : p = PathOf(url)
  OBVIOUS
<1>2. PICK y : y = request'
  OBVIOUS
<1>3. y = [url |-> url, stage |-> "isDir", result |-> << >>, list |-> {}, removed |-> Nil,
           seen |-> {KindAt(url, Node(p).kind)}, disturbed |-> Writers(p) # {}, refused |-> FALSE]
  BY <1>1, <1>2 DEF handleGetRequest
<1>4. /\ y.url = url /\ y.stage = "isDir" /\ y.result = << >> /\ y.removed = Nil
      /\ y.seen = {KindAt(url, Node(p).kind)} /\ y.disturbed = (Writers(p) # {})
      /\ RequestFields(y)
  BY <1>3 DEF RequestFields
<1>5. << >> \in Seq(Parts) /\ Target(y) = p /\ y.seen = {FoundFor(y)}
  BY <1>1, <1>4, EmptySeq DEF Target, FoundFor
<1>6. ReadInv(y)
  BY <1>4, <1>5 DEF ReadInv
<1>7. SeenInv(y)
  BY <1>4, <1>5 DEF SeenInv, Answers
<1>8. QuietInv(y)
  BY <1>4, <1>5 DEF QuietInv
<1> QED
  BY <1>2, <1>4, <1>6, <1>7, <1>8, OnlyRequest DEF handleGetRequest, StageInv

\* Each look at the path keeps what it has seen.
LEMMA IsDirStep ==
  ASSUME PagesTypeOK, RequestInv, isDir
  PROVE  RequestInv'
<1>1. PICK q : q = request /\ q # Nil /\ q.stage = "isDir" /\ StageInv(q)
  BY DEF isDir, At, RequestInv
<1>2. PICK p : p = Target(q) /\ p = Asked
  BY <1>1 DEF Target, Asked
<1>3. PICK y, stage, refused :
         /\ y = request' /\ AtStage(y, q, stage, refused) /\ UNCHANGED <<node, writing>>
         /\ \/ Found = "dir" /\ stage = "lsDir" /\ refused = q.refused
            \/ Found # "dir" /\ stage = "fileExists" /\ refused = q.refused
            \/ stage = "fileExists" /\ refused = TRUE
  <2>1. UNCHANGED <<node, writing>> /\ (Goto(IF Found = "dir" THEN "lsDir" ELSE "fileExists") \/ Denied({"dir"}, "fileExists"))
    BY DEF isDir, Goto, Denied
  <2> QED
    BY <1>1, <2>1, NextStage
<1>4. Target(y) = p /\ FoundFor(q) = Found /\ FoundFor(y) = Found
  BY <1>1, <1>2, <1>3 DEF Target, AtStage, FoundFor, Found
<1>6. ReadInv(y)
  BY <1>1, <1>2, <1>3, <1>4 DEF StageInv, ReadInv, AtStage
<1>7. SeenInv(y)
  BY <1>1, <1>2, <1>3, <1>4 DEF StageInv, SeenInv, AtStage, Answers
<1>8. QuietInv(y)
  BY <1>1, <1>2, <1>3, <1>4 DEF StageInv, QuietInv, AtStage
<1> QED
  BY <1>3, <1>6, <1>7, <1>8, OnlyRequest DEF StageInv, AtStage

\* It was a directory.
LEMMA LsDirStep ==
  ASSUME PagesTypeOK, RequestInv, lsDir \/ lsDirRefused
  PROVE  RequestInv'
<1>1. PICK q : q = request /\ q # Nil /\ q.stage = "lsDir" /\ StageInv(q)
  BY DEF lsDir, lsDirRefused, At, RequestInv
<1>2. PICK y, refused : y = request' /\ AtStage(y, q, "list", refused)
  <2>1. RequestFields(q)
    BY <1>1 DEF StageInv
  <2>2. CASE lsDirRefused
    BY <1>1, <2>2, NextStage DEF lsDirRefused
  <2>3. CASE lsDir
    <3>1. PICK y, l : y = request' /\ y = [q EXCEPT !.stage = "list", !.list = l]
      BY <1>1, <2>3, Zenon DEF lsDir
    <3>2. AtStage(y, q, "list", q.refused)
      BY <2>1, <3>1 DEF RequestFields, AtStage
    <3> QED
      BY <3>1, <3>2
  <2> QED
    BY <2>2, <2>3
<1>3. /\ RequestFields(y) /\ y.url = q.url /\ y.result = q.result /\ y.removed = q.removed
      /\ y.seen = q.seen /\ y.disturbed = q.disturbed /\ y.stage = "list"
  BY <1>2 DEF AtStage
<1>4. Target(y) = Target(q) /\ FoundFor(y) = FoundFor(q)
  BY <1>3 DEF Target, FoundFor
<1>5. ReadInv(y)
  BY <1>1, <1>3, <1>4 DEF StageInv, ReadInv
<1>6. SeenInv(y)
  BY <1>1, <1>3, <1>4 DEF StageInv, SeenInv, Answers
<1>7. QuietInv(y)
  BY <1>1, <1>3, <1>4 DEF StageInv, QuietInv
<1> QED
  BY <1>2, <1>3, <1>5, <1>6, <1>7, OnlyRequest DEF lsDir, lsDirRefused, Denied, StageInv

\* It is missing, or was something else than a directory.
LEMMA FileExistsStep ==
  ASSUME PagesTypeOK, RequestInv, fileExists
  PROVE  RequestInv'
<1>1. PICK q : q = request /\ q # Nil /\ q.stage = "fileExists" /\ StageInv(q)
  BY DEF fileExists, At, RequestInv
<1>2. PICK p : p = Target(q) /\ p = Asked
  BY <1>1 DEF Target, Asked
<1>3. PICK y, stage, refused :
         /\ y = request' /\ AtStage(y, q, stage, refused) /\ UNCHANGED <<node, writing>>
         /\ \/ Found = "none" /\ stage = "NOT_FOUND" /\ refused = q.refused
            \/ stage = "readTextFile" /\ refused = q.refused
            \/ stage = "NOT_FOUND" /\ refused = TRUE
  <2>1. UNCHANGED <<node, writing>> /\ (Goto(IF Found = "none" THEN "NOT_FOUND" ELSE "readTextFile") \/ Denied({"file", "dir"}, "NOT_FOUND"))
    BY DEF fileExists, Goto, Denied
  <2> QED
    BY <1>1, <2>1, NextStage
<1>4. Target(y) = p /\ FoundFor(q) = Found /\ FoundFor(y) = Found
  BY <1>1, <1>2, <1>3 DEF Target, AtStage, FoundFor, Found
<1>6. ReadInv(y)
  BY <1>1, <1>2, <1>3, <1>4 DEF StageInv, ReadInv, AtStage
<1>7. SeenInv(y)
  BY <1>1, <1>2, <1>3, <1>4 DEF StageInv, SeenInv, AtStage, Answers
<1>8. QuietInv(y)
  BY <1>1, <1>2, <1>3, <1>4 DEF StageInv, QuietInv, AtStage
<1> QED
  BY <1>3, <1>6, <1>7, <1>8, OnlyRequest DEF StageInv, AtStage

\* A file is opened, or nothing is read.
LEMMA ReadTextStep ==
  ASSUME PagesTypeOK, RequestInv, readTextFile
  PROVE  RequestInv'
<1>1. PICK q : q = request /\ q # Nil /\ q.stage = "readTextFile" /\ StageInv(q)
  BY DEF readTextFile, At, RequestInv
<1>2. PICK p : p = Target(q) /\ p = Asked
  BY <1>1 DEF Target, Asked
<1>3. PICK y, stage, refused :
         /\ y = request' /\ AtStage(y, q, stage, refused) /\ UNCHANGED <<node, writing>>
         /\ \/ Found = "file" /\ stage = "reading" /\ refused = q.refused
            \/ Found # "file" /\ stage = "page" /\ refused = q.refused
            \/ Found = "file" /\ stage = "page" /\ refused = TRUE
  <2>1. UNCHANGED <<node, writing>> /\ (Goto(IF Found = "file" THEN "reading" ELSE "page") \/ Denied({"file"}, "page"))
    BY DEF readTextFile, Goto, Denied
  <2>2. PICK stage : stage = IF Found = "file" THEN "reading" ELSE "page"
    OBVIOUS
  <2>3. CASE Goto(stage)
    <3>1. AtStage(request', q, stage, q.refused)
      BY <1>1, <2>3, NextStage
    <3> QED
      BY <2>1, <2>2, <3>1
  <2>4. CASE Denied({"file"}, "page")
    <3>1. PICK kinds : kinds = {"file"}
      OBVIOUS
    <3>2. AtStage(request', q, "page", TRUE) /\ Found \in kinds
      BY <1>1, <2>4, <3>1, NextStage
    <3> QED
      BY <2>1, <3>1, <3>2
  <2> QED
    BY <2>1, <2>2, <2>3, <2>4
<1>4. /\ Target(y) = p /\ FoundFor(q) = Found /\ FoundFor(y) = Found
      /\ Found = "file" => Node(p).kind = "file"
  <2>1. Target(y) = p /\ FoundFor(q) = Found /\ FoundFor(y) = Found
    BY <1>1, <1>2, <1>3 DEF Target, AtStage, FoundFor, Found
  <2>2. Found = KindAt(request.url, Node(p).kind)
    BY <1>2 DEF Found
  <2> QED
    BY <2>1, <2>2, KindFacts
<1>5. q.result = << >>
  BY <1>1 DEF StageInv, ReadInv
<1>6. ReadInv(y)
  BY <1>1, <1>2, <1>3, <1>4 DEF StageInv, ReadInv, AtStage
<1>7. SeenInv(y)
  BY <1>1, <1>2, <1>3, <1>4, <1>5 DEF StageInv, SeenInv, AtStage, Answers
<1>8. QuietInv(y)
  <2>1. Len(<< >>) = 0 /\ Node(p).data \in Seq(Parts)
    BY AskedFacts
  <2>2. Len(<< >>) <= Len(Node(p).data) /\ Begins(<< >>, Node(p).data, Len(<< >>))
    BY <2>1 DEF Begins
  <2> QED
    BY <1>1, <1>2, <1>3, <1>4, <1>5, <2>2 DEF StageInv, QuietInv, AtStage
<1> QED
  BY <1>3, <1>6, <1>7, <1>8, OnlyRequest DEF StageInv, AtStage

\* What was read begins the data, and is all of it at its end.
LEMMA ReadPieceStep ==
  ASSUME PagesTypeOK, RequestInv, ReadPiece
  PROVE  RequestInv'
<1>1. PICK q : q = request /\ q # Nil /\ q.stage = "reading" /\ StageInv(q)
  BY DEF ReadPiece, At, RequestInv
<1>2. PICK p : p = Target(q) /\ p = Asked
  BY <1>1 DEF Target, Asked
<1>3. PICK res \in Seq(Parts), k \in Nat : res = q.result /\ k = Len(res)
  BY <1>1 DEF StageInv, ReadInv
<1>4. PICK data \in Seq(Parts) : /\ data = IF q.removed # Nil THEN q.removed ELSE node[p].data
                                 /\ q.removed = Nil => data = Node(p).data
  <2>1. q.removed = Nil => Node(p).kind = "file"
    BY <1>1, <1>2 DEF StageInv, ReadInv
  <2>2. q.removed = Nil => Node(p) = node[p] /\ Node(p).data \in Seq(Parts)
    BY <2>1, AskedFacts
  <2> QED
    BY <1>1, <2>2 DEF StageInv, ReadInv
<1>5. ~q.disturbed => q.removed = Nil /\ k <= Len(data) /\ Begins(res, data, k)
  BY <1>1, <1>2, <1>3, <1>4 DEF StageInv, QuietInv
<1>6. CASE k + 1 <= Len(data)
  <2>1. k + 1 \in 1..Len(data) /\ data[k + 1] \in Parts
    BY <1>6
  <2>2. PICK r \in Seq(Parts) : /\ r = Append(res, data[k + 1]) /\ Len(r) = k + 1
                                /\ r[k + 1] = data[k + 1] /\ \A i \in 1..k : r[i] = res[i]
    <3>1. PICK r \in Seq(Parts) : r = Append(res, data[k + 1])
      BY <2>1, AppendProperties
    <3>2. Len(r) = k + 1 /\ r[k + 1] = data[k + 1] /\ \A i \in 1..k : r[i] = res[i]
      BY <1>3, <2>1, <3>1, AppendProperties
    <3> QED
      BY <3>1, <3>2
  <2>3. PICK y : y = request' /\ y = [q EXCEPT !.result = r]
    BY <1>1, <1>2, <1>3, <1>4, <1>6, <2>2 DEF ReadPiece
  <2>4. /\ RequestFields(y) /\ y.stage = q.stage /\ y.url = q.url /\ y.result = r
        /\ y.removed = q.removed /\ y.seen = q.seen /\ y.disturbed = q.disturbed
        /\ y.refused = q.refused
    <3>1. RequestFields(q)
      BY <1>1 DEF StageInv
    <3> QED
      BY <2>3, <3>1 DEF RequestFields
  <2>5. Target(y) = p /\ FoundFor(y) = FoundFor(q)
    BY <1>2, <2>4 DEF Target, FoundFor
  <2>6. ReadInv(y)
    BY <1>1, <1>2, <2>4, <2>5 DEF StageInv, ReadInv
  <2>7. SeenInv(y)
    BY <1>1, <1>2, <2>4, <2>5 DEF StageInv, SeenInv, Answers
  <2>8. Begins(res, data, k) => Begins(r, data, Len(r))
    BY <2>2 DEF Begins
  <2>9. QuietInv(y)
    BY <1>1, <1>2, <1>4, <1>5, <1>6, <2>2, <2>4, <2>5, <2>8 DEF StageInv, QuietInv
  <2>10. UNCHANGED <<node, writing>>
    BY <1>1, <1>2, <1>3, <1>4, <1>6 DEF ReadPiece
  <2> QED
    BY <2>3, <2>4, <2>6, <2>7, <2>9, <2>10, OnlyRequest DEF StageInv
<1>7. CASE ~(k + 1 <= Len(data))
  <2>1. PICK y : y = request' /\ y = [q EXCEPT !.stage = "page"]
    BY <1>1, <1>2, <1>3, <1>4, <1>7 DEF ReadPiece, Goto
  <2>2. /\ RequestFields(y) /\ y.stage = "page" /\ y.url = q.url /\ y.result = q.result
        /\ y.removed = q.removed /\ y.seen = q.seen /\ y.disturbed = q.disturbed
        /\ y.refused = q.refused
    <3>1. RequestFields(q)
      BY <1>1 DEF StageInv
    <3> QED
      BY <2>1, <3>1 DEF RequestFields
  <2>3. Target(y) = p /\ FoundFor(y) = FoundFor(q)
    BY <1>2, <2>2 DEF Target, FoundFor
  <2>4. ReadInv(y)
    BY <1>1, <1>2, <2>2, <2>3 DEF StageInv, ReadInv
  <2>5. SeenInv(y)
    BY <1>1, <1>2, <2>2, <2>3 DEF StageInv, SeenInv, Answers
  <2>6. k <= Len(data) /\ Begins(res, data, k) => res = data
    <3>1. SUFFICES ASSUME k <= Len(data), Begins(res, data, k)
                   PROVE  res = data
      OBVIOUS
    <3>2. Len(res) = Len(data) /\ k = Len(data)
      BY <1>3, <1>7, <3>1
    <3> QED
      BY <1>3, <3>1, <3>2, SeqEqual DEF Begins
  <2>7. QuietInv(y)
    BY <1>1, <1>2, <1>3, <1>4, <1>5, <2>2, <2>3, <2>6 DEF StageInv, QuietInv
  <2>8. UNCHANGED <<node, writing>>
    BY <1>1, <1>2, <1>3, <1>4, <1>7 DEF ReadPiece, Goto
  <2> QED
    BY <2>1, <2>2, <2>4, <2>5, <2>7, <2>8, OnlyRequest DEF StageInv
<1> QED
  BY <1>6, <1>7

\* Every step of a request.
LEMMA RequestSteps ==
  ASSUME PagesTypeOK, RequestInv, RequestStep
  PROVE  RequestInv'
<1>1. ASSUME NEW url \in FileUrls, handleGetRequest(url)
      PROVE  RequestInv'
  BY <1>1, RequestMade
<1>2. ASSUME Respond
      PROVE  RequestInv'
  BY <1>2 DEF Respond, RequestInv
<1> QED
  BY <1>1, <1>2, IsDirStep, LsDirStep, FileExistsStep, ReadTextStep, ReadPieceStep DEF RequestStep

\* Others change the path p, the request notices it if it is about p, and keeps
\* the data of a file that it reads and that is removed.
LEMMA NoticedKeeps ==
  ASSUME PagesTypeOK, RequestInv, NEW p \in Paths, NEW kind, NEW m \in Seq(Parts),
         \A q : q # p => Node(q)' = Node(q),
         \A q \in Paths : q # p => Writers(q)' \subseteq Writers(q),
         Node(p)'.kind = kind,
         request' = IF /\ request # Nil /\ request.stage = "reading" /\ p = Asked
                       /\ request.removed = Nil /\ kind # "file"
                    THEN [Noticed(p, kind) EXCEPT !.removed = m] ELSE Noticed(p, kind)
  PROVE  RequestInv'
<1>1. CASE request = Nil
  BY <1>1 DEF Noticed, RequestInv
<1>2. CASE request # Nil
  <2>1. PICK q : q = request /\ StageInv(q) /\ Target(q) = Asked
    BY <1>2 DEF RequestInv, Target, Asked
  <2>2. PICK y : y = request'
    OBVIOUS
  <2>3. CASE p # Asked
    <3>1. y = q
      BY <2>1, <2>2, <2>3 DEF Noticed
    <3>2. /\ Node(Target(q))' = Node(Target(q))
          /\ Target(q) \in Paths => Writers(Target(q))' \subseteq Writers(Target(q))
      <4>1. PICK a : a = Target(q) /\ a # p
        BY <2>1, <2>3
      <4>2. Node(a)' = Node(a) /\ (a \in Paths => Writers(a)' \subseteq Writers(a))
        BY <4>1
      <4>3. (Target(q))' = Target(q)
        BY DEF Target
      <4> QED
        BY <4>1, <4>2, <4>3
    <3>3. StageInv(q)'
      BY <2>1, <3>2 DEF StageInv, ReadInv, SeenInv, QuietInv, FoundFor
    <3> QED
      BY <2>2, <3>1, <3>3 DEF RequestInv
  <2>4. CASE p = Asked
    <3>1. PICK seen : seen = IF q.stage \in Answers THEN q.seen
                             ELSE q.seen \cup {KindAt(q.url, kind)}
      OBVIOUS
    <3>2. PICK z : z = [q EXCEPT !.disturbed = TRUE, !.seen = seen]
      OBVIOUS
    <3>3. Noticed(p, kind) = z
      BY <1>2, <2>1, <2>4, <3>1, <3>2 DEF Noticed
    <3>4. PICK lost \in BOOLEAN : lost <=> q.stage = "reading" /\ q.removed = Nil /\ kind # "file"
      OBVIOUS
    <3>5. y = IF lost THEN [z EXCEPT !.removed = m] ELSE z
      BY <1>2, <2>1, <2>2, <2>4, <3>3, <3>4
    <3>6. RequestFields(q)
      BY <2>1 DEF StageInv
    <3>7. /\ RequestFields(z) /\ z.stage = q.stage /\ z.url = q.url /\ z.result = q.result
          /\ z.removed = q.removed /\ z.seen = seen /\ z.disturbed = TRUE /\ z.refused = q.refused
      BY <3>2, <3>6 DEF RequestFields
    <3>8. /\ RequestFields(y) /\ y.stage = q.stage /\ y.url = q.url /\ y.result = q.result
          /\ y.removed = (IF lost THEN m ELSE q.removed) /\ y.seen = seen /\ y.disturbed = TRUE
          /\ y.refused = q.refused
      BY <3>5, <3>7 DEF RequestFields
    <3>9. Target(y) = p /\ Node(p).kind \in Kinds
      <4>1. Node(p) \in Nodes
        BY AskedFacts
      <4> QED
        BY <2>1, <2>4, <3>8, <4>1 DEF Target, Nodes
    <3>10. ReadInv(y)'
      <4>1. q.result \in Seq(Parts) /\ q.removed \in Seq(Parts) \cup {Nil} /\ m # Nil
        BY <2>1, PagesFacts DEF StageInv, ReadInv
      <4>2. q.stage \in {"isDir", "lsDir", "fileExists", "readTextFile"} => q.result = << >>
        BY <2>1 DEF StageInv, ReadInv
      <4> QED
        BY <3>4, <3>8, <3>9, <4>1, <4>2 DEF ReadInv
    <3>11. SeenInv(y)'
      <4>1. SeenInv(q) /\ FoundFor(q) \in Kinds
        BY <2>1, <2>4, <3>9 DEF StageInv, FoundFor, KindAt, Kinds
      <4>2. FoundFor(y)' = KindAt(q.url, kind)
        BY <3>8, <3>9 DEF FoundFor, Target
      <4> QED
        BY <3>1, <3>8, <4>1, <4>2 DEF SeenInv, Answers
    <3>12. QuietInv(y)'
      BY <3>8 DEF QuietInv
    <3> QED
      BY <2>2, <3>8, <3>10, <3>11, <3>12 DEF StageInv, RequestInv
  <2> QED
    BY <2>3, <2>4
<1> QED
  BY <1>1, <1>2

\* A step that changes neither the request nor the files, and adds no writer.
LEMMA OnlyWriters ==
  ASSUME RequestInv, UNCHANGED <<node, request>>,
         \A q \in Paths : Writers(q)' \subseteq Writers(q)
  PROVE  RequestInv'
<1> SUFFICES ASSUME request # Nil
             PROVE  StageInv(request)'
  BY DEF RequestInv
<1>1. PICK y : y = request /\ StageInv(y)
  BY DEF RequestInv
<1>2. PICK a : a = Target(y)
  OBVIOUS
<1>3. Node(a)' = Node(a) /\ (a \in Paths => Writers(a)' \subseteq Writers(a))
  BY DEF Node
<1>4. StageInv(y)'
  BY <1>1, <1>2, <1>3 DEF StageInv, ReadInv, SeenInv, QuietInv, FoundFor
<1> QED
  BY <1>1, <1>4 DEF StageInv, ReadInv, SeenInv, QuietInv, FoundFor, Target, RequestFields

\* How a request notices that a file is opened to be written, ...
LEMMA SavePageNoticed ==
  ASSUME SavesInv, RequestInv, NEW t \in Savers, NEW curlRc, NEW p \in SavedAs,
         SavePage(t, curlRc, p)
  PROVE  RequestInv'
<1>0. p \in Paths /\ PagesTypeOK
  BY PagesFacts DEF SavesInv
<1>1. writing[t] = Nil
  BY ReturnFacts DEF SavePage
<1>2. PICK content : openStream(t, p, content)
  BY DEF SavePage
<1>3. CASE ~(Accessible(p) /\ node[p].kind # "dir")
  BY <1>2, <1>3, OnlyWriters DEF openStream, Writers, Writes
<1>4. CASE Accessible(p) /\ node[p].kind # "dir"
  <2>1. PICK w : w = [path |-> p, left |-> content, next |-> 1]
    OBVIOUS
  <2>1a. PICK f : f = File(<< >>)
    OBVIOUS
  <2>1b. w.path = p /\ f.kind = "file"
    BY <2>1, <2>1a DEF File
  <2>2. /\ node' = [node EXCEPT ![p] = f] /\ writing' = [writing EXCEPT ![t] = w]
        /\ request' = Noticed(p, "file")
    BY <1>2, <1>4, <2>1, <2>1a DEF openStream
  <2>3. /\ node'[p] = f /\ \A q \in Paths : q # p => node'[q] = node[q]
        /\ writing'[t] = w /\ \A u \in Savers : u # t => writing'[u] = writing[u]
    BY <1>0, <2>2 DEF PagesTypeOK
  <2>4. \A q : q # p => Node(q)' = Node(q)
    BY <2>3 DEF Node
  <2>5. Node(p)'.kind = "file"
    BY <1>0, <2>3, <2>1b DEF Node
  <2>6. \A q \in Paths : q # p => Writers(q)' \subseteq Writers(q)
    BY <2>3, <2>1b DEF Writers, Writes
  <2>7. << >> \in Seq(Parts)
    BY EmptySeq
  <2> QED
    BY <1>0, <2>2, <2>4, <2>5, <2>6, <2>7, NoticedKeeps
<1> QED
  BY <1>3, <1>4

\* ... written, ...
LEMMA WritePieceNoticed ==
  ASSUME SavesInv, RequestInv, NEW t \in Savers, WritePiece(t)
  PROVE  RequestInv'
<1>0. PagesTypeOK
  BY DEF SavesInv
<1>1. writing[t] \in Writing /\ writing[t] # Nil
  BY <1>0 DEF PagesTypeOK, WritePiece
<1>2. PICK p \in Paths \cup {Nil} : p = writing[t].path
  BY <1>1 DEF Writing
<1>3. PICK w : w = [writing[t] EXCEPT !.left = Tail(@), !.next = @ + 1] /\ w.path = p
  <2>1. PICK v : v = writing[t]
    OBVIOUS
  <2>2. PICK l, k : v = [path |-> p, left |-> l, next |-> k]
    BY <1>1, <1>2, <2>1 DEF Writing
  <2>3. PICK r, n : r = Tail(v.left) /\ n = v.next + 1
    OBVIOUS
  <2>4. PICK w : w = [v EXCEPT !.left = r, !.next = n]
    OBVIOUS
  <2>5. w = [path |-> p, left |-> r, next |-> n]
    BY <2>2, <2>4, WrittenOn, Zenon
  <2>6. w = [writing[t] EXCEPT !.left = Tail(@), !.next = @ + 1]
    BY <2>1, <2>3, <2>4, Zenon
  <2>7. w.path = p
    BY <2>5
  <2> QED
    BY <2>6, <2>7, Zenon
<1>4. writing' = [writing EXCEPT ![t] = w]
  BY <1>0, <1>3 DEF WritePiece, PagesTypeOK
<1>5. writing'[t] = w /\ \A u \in Savers : u # t => writing'[u] = writing[u]
  BY <1>0, <1>4 DEF PagesTypeOK
<1>6. \A q \in Paths : Writers(q)' \subseteq Writers(q)
  BY <1>1, <1>2, <1>3, <1>5 DEF Writers, Writes
<1>7. CASE p = Nil
  BY <1>2, <1>6, <1>7, OnlyWriters DEF WritePiece
<1>8. CASE p \in Paths
  <2>1. p # Nil /\ node[p].kind = "file"
    BY <1>1, <1>2, <1>8, PagesFacts DEF SavesInv, TreeInv, Writes
  <2>2. PICK d : node' = [node EXCEPT ![p].data = d]
    BY <1>2, <2>1 DEF WritePiece
  <2>3. request' = Noticed(p, "file")
    BY <1>2, <2>1 DEF WritePiece
  <2>4. /\ \A q \in Paths : q # p => node'[q] = node[q]
        /\ node'[p].kind = "file"
    BY <1>0, <1>8, <2>1, <2>2 DEF PagesTypeOK, Nodes
  <2>5. \A q : q # p => Node(q)' = Node(q)
    BY <2>4 DEF Node
  <2>6. Node(p)'.kind = "file"
    BY <1>8, <2>4 DEF Node
  <2>7. << >> \in Seq(Parts)
    BY EmptySeq
  <2> QED
    BY <1>0, <1>6, <1>8, <2>3, <2>5, <2>6, <2>7, NoticedKeeps
<1> QED
  BY <1>7, <1>8

\* ... removed, ...
LEMMA UnlinkNoticed ==
  ASSUME SavesInv, RequestInv, NEW p \in Paths, unlink(p)
  PROVE  RequestInv'
<1>0. PagesTypeOK
  BY DEF SavesInv
<1>1. /\ node' = [node EXCEPT ![p] = Nothing]
      /\ writing' = [u \in Savers |-> IF Writes(u, p) THEN [writing[u] EXCEPT !.path = Nil]
                                      ELSE writing[u]]
  BY DEF unlink
<1>2. node'[p] = Nothing /\ \A q \in Paths : q # p => node'[q] = node[q]
  BY <1>0, <1>1 DEF PagesTypeOK
<1>3. Nothing.kind = "none"
  BY DEF Nothing
<1>4. \A q : q # p => Node(q)' = Node(q)
  BY <1>2 DEF Node
<1>5. Node(p)'.kind = "none"
  BY <1>2, <1>3 DEF Node
<1>6. ASSUME NEW q \in Paths, NEW u \in Savers, Writes(u, q)', q # p
      PROVE  Writes(u, q)
  <2>1. CASE Writes(u, p)
    <3>1. writing[u] \in Writing
      BY <1>0, <2>1 DEF PagesTypeOK, Writes
    <3>2. writing'[u] = [writing[u] EXCEPT !.path = Nil]
      BY <1>1, <2>1
    <3>3. writing'[u].path = Nil
      BY <3>1, <3>2 DEF Writing
    <3> QED
      BY <1>6, <3>3, PagesFacts DEF Writes
  <2>2. CASE ~Writes(u, p)
    BY <1>1, <1>6, <2>2 DEF Writes
  <2> QED
    BY <2>1, <2>2
<1>7. \A q \in Paths : q # p => Writers(q)' \subseteq Writers(q)
  BY <1>6 DEF Writers
<1>8. PICK m \in Seq(Parts) : m = node[p].data
  BY <1>0 DEF PagesTypeOK, Nodes
<1>9. request' = IF /\ request # Nil /\ request.stage = "reading" /\ p = Asked
                    /\ request.removed = Nil /\ "none" # "file"
                 THEN [Noticed(p, "none") EXCEPT !.removed = m] ELSE Noticed(p, "none")
  BY <1>8 DEF unlink, At
<1> QED
  BY <1>0, <1>4, <1>5, <1>7, <1>9, NoticedKeeps

\* ... or that a directory is made.
LEMMA MkdirNoticed ==
  ASSUME SavesInv, RequestInv, NEW p \in Paths, mkdir(p)
  PROVE  RequestInv'
<1>0. PagesTypeOK
  BY DEF SavesInv
<1>1. /\ node' = [node EXCEPT ![p] = Dir] /\ UNCHANGED writing /\ request' = Noticed(p, "dir")
      /\ node[p].kind = "none"
  BY DEF mkdir
<1>2. node'[p] = Dir /\ Dir.kind = "dir" /\ \A q \in Paths : q # p => node'[q] = node[q]
  BY <1>0, <1>1 DEF PagesTypeOK, Dir
<1>3. \A q : q # p => Node(q)' = Node(q)
  BY <1>2 DEF Node
<1>4. Node(p)'.kind = "dir"
  BY <1>2 DEF Node
<1>5. \A q \in Paths : Writers(q)' = Writers(q)
  BY <1>1 DEF Writers, Writes
<1>6. ~(/\ request # Nil /\ request.stage = "reading" /\ p = Asked
        /\ request.removed = Nil /\ "dir" # "file")
  BY <1>1 DEF RequestInv, StageInv, ReadInv, Target, Asked, Node
<1>7. << >> \in Seq(Parts)
  BY EmptySeq
<1> QED
  BY <1>0, <1>1, <1>3, <1>4, <1>5, <1>6, <1>7, NoticedKeeps

-----------------------------------------------------------------------------
(* The invariant and its theorems.                                           *)

\* Every step keeps both parts.
LEMMA PagesStep ==
  ASSUME PagesInv, [PagesNext]_pagesVars
  PROVE  PagesInv'
<1>0. SavesInv /\ RequestInv /\ PagesTypeOK
  BY DEF PagesInv, SavesInv
<1>1. ASSUME UNCHANGED <<node, request, writing>>
      PROVE  RequestInv'
  BY <1>0, <1>1, OnlyWriters DEF Writers, Writes
<1>2. ASSUME UNCHANGED <<node, writing, transfer, saved>>
      PROVE  SavesInv'
  <2>1. transfer' \in [Savers -> Transfers \cup {Nil}]
    BY <1>0, <1>2 DEF PagesTypeOK
  <2>2. TransferInv'
    BY <1>0, <1>2 DEF SavesInv, TransferInv
  <2> QED
    BY <1>0, <1>2, <2>1, <2>2, FilesKept
<1>3. CASE UNCHANGED pagesVars
  BY <1>1, <1>2, <1>3 DEF pagesVars, PagesInv
<1>4. ASSUME NEW t \in Savers, Download(t)
      PROVE  PagesInv'
  BY <1>0, <1>1, <1>4, DownloadStep DEF Download, PagesInv
<1>5. ASSUME NEW t \in Savers, C!WriteCallback(t), UNCHANGED <<node, request, writing, saved>>
      PROVE  PagesInv'
  BY <1>0, <1>1, <1>5, CallbackStep DEF PagesInv
<1>6. ASSUME NEW t \in Savers, NEW curlRc, ReturnPage(t, curlRc)
      PROVE  PagesInv'
  BY <1>0, <1>1, <1>6, ReturnStep DEF ReturnPage, PagesInv
<1>7. ASSUME NEW t \in Savers, NEW curlRc, NEW p \in SavedAs, SavePage(t, curlRc, p)
      PROVE  PagesInv'
  BY <1>0, <1>7, SavePageStep, SavePageNoticed DEF PagesInv
<1>8. ASSUME RequestStep, UNCHANGED <<transfer, saved>>
      PROVE  PagesInv'
  <2>1. UNCHANGED <<node, writing>>
    BY <1>8 DEF RequestStep, handleGetRequest, isDir, lsDir, lsDirRefused, fileExists,
                readTextFile, ReadPiece, Respond, Goto, Denied
  <2> QED
    BY <1>0, <1>2, <1>8, <2>1, RequestSteps DEF PagesInv
<1>9. ASSUME NEW t \in Savers, WritePiece(t), UNCHANGED <<transfer, saved>>
      PROVE  PagesInv'
  BY <1>0, <1>9, WritePieceStep, WritePieceNoticed DEF PagesInv
<1>10. ASSUME NEW t \in Savers, CloseStream(t), UNCHANGED <<transfer, saved>>
       PROVE  PagesInv'
  <2>1. writing' = [writing EXCEPT ![t] = Nil] /\ UNCHANGED <<node, request>>
    BY <1>10 DEF CloseStream
  <2>2. \A q \in Paths : Writers(q)' \subseteq Writers(q)
    BY <1>0, <2>1 DEF PagesTypeOK, Writers, Writes
  <2> QED
    BY <1>0, <1>10, <2>1, <2>2, CloseStep, OnlyWriters DEF PagesInv
<1>11. ASSUME NEW p \in Paths, unlink(p), UNCHANGED <<transfer, saved>>
       PROVE  PagesInv'
  BY <1>0, <1>11, UnlinkStep, UnlinkNoticed DEF PagesInv
<1>12. ASSUME NEW p \in Paths, mkdir(p), UNCHANGED <<transfer, saved>>
       PROVE  PagesInv'
  BY <1>0, <1>12, MkdirStep, MkdirNoticed DEF PagesInv
<1>13. ASSUME PagesNext
       PROVE  PagesInv'
  BY <1>4, <1>5, <1>6, <1>7, <1>8, <1>9, <1>10, <1>11, <1>12, <1>13 DEF PagesNext, FileStep
<1> QED
  BY <1>3, <1>13

\* The inductive invariant: a file that one download at a time was saved to
\* holds, with what its writer has left, what that download brought, and a
\* request knows what it has seen (FileServer.cpp:49-76, HTTPClient.cpp:38-99).
THEOREM PagesInvariant == PagesSpec => []PagesInv
<1>1. PagesInit => PagesInv
  BY SavesInitial DEF PagesInit, FileServerInit, PagesInv, RequestInv
<1>2. PagesInv /\ [PagesNext]_pagesVars => PagesInv'
  BY PagesStep
<1> QED
  BY <1>1, <1>2, PTL DEF PagesSpec

\* An answer tells what its path has been during the request, whatever others
\* do to the file system between the looks (FileServer.cpp:60-72).
THEOREM AnswerTruthfulCorrect == PagesSpec => []AnswerTruthful
<1>1. PagesInv => AnswerTruthful
  BY DEF PagesInv, RequestInv, StageInv, SeenInv, AnswerTruthful, Answers
<1> QED
  BY <1>1, PagesInvariant, PTL

\* An undisturbed file is handed out as the last download left it: whole, empty
\* after a timeout, the beginning of a page after a broken connection
\* (HTTPClient.cpp:38-99, Pagedownloader.cpp:35-42, 63-68).
THEOREM ServedWholeCorrect == PagesSpec => []ServedWhole
<1>1. PagesInv => ServedWhole
  <2> SUFFICES ASSUME PagesInv, At("page"), ~request.disturbed, ~request.refused,
                      request.seen = {"file"}, saved[Asked].alone
               PROVE  /\ \E b \in Bodies : IsPrefix(request.result, b)
                      /\ saved[Asked].curlRc = "CURLE_OK" => request.result \in Bodies
                      /\ saved[Asked].curlRc = "CURLE_OPERATION_TIMEDOUT" => request.result = << >>
    BY DEF ServedWhole
  <2>1. PagesTypeOK /\ QuietInv(request) /\ request.stage = "page" /\ Target(request) = Asked
    BY DEF PagesInv, SavesInv, RequestInv, StageInv, At, Target, Asked
  <2>2. PICK p : p = Asked
    OBVIOUS
  <2>3. Node(p).kind = "file" /\ request.result = Node(p).data /\ (p \in Paths => Writers(p) = {})
    BY <2>1, <2>2, KindFacts DEF QuietInv, FoundFor
  <2>4. p \in Paths /\ Node(p) = node[p]
    BY <2>1, <2>3, AskedFacts
  <2>5. Good(saved[p].curlRc, node[p].data)
    BY <2>2, <2>3, <2>4 DEF PagesInv, SavesInv, AloneAt
  <2> QED
    BY <2>2, <2>3, <2>4, <2>5 DEF Good
<1> QED
  BY <1>1, PagesInvariant, PTL

-----------------------------------------------------------------------------
(* FileServer: the numbers of a set in their order, and what the file       *)
(* system heeds of a text.                                                  *)

\* Every set of numbers that is not empty has a least.
LEMMA Least ==
  ASSUME NEW T, T \subseteq Nat, T # {}
  PROVE  \E m \in T : \A k \in T : m <= k
<1> DEFINE R == OpToRel(<, Nat)
<1>1. IsWellFoundedOn(R, Nat)
  BY NatLessThanWellFounded
<1>2. PICK m \in T : \A k \in T : <<k, m>> \notin R
  <2> HIDE DEF R
  <2> QED BY <1>1, WFMin
<1>3. \A k \in T : k < m => <<k, m>> \in R
  BY DEF OpToRel
<1>4. \A k \in T : ~(k < m)
  <2> HIDE DEF R
  <2> QED BY <1>2, <1>3
<1> HIDE DEF R
<1> QED
  BY <1>4

\* How many of S are at most k.
Rank(S, k) == Cardinality({j \in S : j <= k})

\* The ranks begin at none, end with all, and grow by one at each of S.
Ranked(S, m) ==
  /\ IsFiniteSet(S) /\ Cardinality(S) \in Nat
  /\ \A k \in Nat : Rank(S, k) \in Nat
  /\ Rank(S, 0) = 0 /\ Rank(S, m) = Cardinality(S)
  /\ \A k \in Nat : Rank(S, k + 1) = IF k + 1 \in S THEN Rank(S, k) + 1 ELSE Rank(S, k)
  /\ \A k \in S, l \in S : k < l => Rank(S, k) # Rank(S, l)

\* This is so for the numbers from 1 to m.
LEMMA RankSteps ==
  ASSUME NEW m \in Nat, NEW S \in SUBSET (1..m)
  PROVE  Ranked(S, m)
<1>0. \A j \in S : j \in Nat /\ 1 <= j /\ j <= m
  OBVIOUS
<1>1. IsFiniteSet(S) /\ Cardinality(S) \in Nat
  <2>1. IsFiniteSet(1..m)
    BY FS_Interval
  <2>2. IsFiniteSet(S)
    BY <2>1, FS_Subset
  <2> QED
    BY <2>2, FS_CardinalityType
<1>2. \A k : IsFiniteSet({j \in S : j <= k})
  BY <1>1, FS_Subset
<1>3. \A k \in Nat : Rank(S, k) \in Nat
  BY <1>2, FS_CardinalityType DEF Rank
<1>4. Rank(S, 0) = 0
  <2>0. \A j \in S : ~(j <= 0)
    BY <1>0
  <2>1. {j \in S : j <= 0} = {}
    BY <2>0, Zenon
  <2> QED
    BY <2>1, FS_EmptySet DEF Rank
<1>5. Rank(S, m) = Cardinality(S)
  <2>1. {j \in S : j <= m} = S
    BY <1>0
  <2> QED
    BY <2>1 DEF Rank
<1>6. ASSUME NEW k \in Nat
      PROVE  Rank(S, k + 1) = IF k + 1 \in S THEN Rank(S, k) + 1 ELSE Rank(S, k)
  <2>1. CASE k + 1 \in S
    <3>0. \A j \in S : j <= k + 1 <=> j <= k \/ j = k + 1
      BY <1>0
    <3>1. {j \in S : j <= k + 1} = {j \in S : j <= k} \cup {k + 1}
      BY <2>1, <3>0, Zenon
    <3>2. k + 1 \notin {j \in S : j <= k}
      OBVIOUS
    <3>3. Cardinality({j \in S : j <= k} \cup {k + 1}) = Cardinality({j \in S : j <= k}) + 1
      BY <1>2, <3>2, FS_AddElement
    <3> QED
      BY <2>1, <3>1, <3>3 DEF Rank
  <2>2. CASE k + 1 \notin S
    <3>0. \A j \in S : j <= k + 1 <=> j <= k \/ j = k + 1
      BY <1>0
    <3>1. {j \in S : j <= k + 1} = {j \in S : j <= k}
      BY <2>2, <3>0, Zenon
    <3> QED
      BY <2>2, <3>1 DEF Rank
  <2> QED
    BY <2>1, <2>2
<1>7. ASSUME NEW k \in S, NEW l \in S, k < l
      PROVE  Rank(S, k) # Rank(S, l)
  <2>0. \A j \in S : j <= k => j <= l
    BY <1>0, <1>7
  <2>1. {j \in S : j <= k} \in SUBSET {j \in S : j <= l}
    BY <2>0, Zenon
  <2>2. l \in {j \in S : j <= l} /\ l \notin {j \in S : j <= k}
    BY <1>7
  <2> QED
    BY <1>2, <2>1, <2>2, FS_Subset DEF Rank
<1> QED
  BY <1>1, <1>3, <1>4, <1>5, <1>6, <1>7 DEF Ranked

\* The n-th of S is of rank n, and no other is.
IsNth(S, n) == /\ Nth(S, n) \in S /\ Rank(S, Nth(S, n)) = n
               /\ \A k \in S : Rank(S, k) = n => k = Nth(S, n)

\* The n-th of a set is one of it, and there is no other n-th.
LEMMA NthRanked ==
  ASSUME NEW m \in Nat, NEW S \in SUBSET (1..m), NEW n \in 1..Cardinality(S)
  PROVE  IsNth(S, n)
<1>0. Ranked(S, m)
  BY RankSteps
<1>1. PICK c \in Nat : c = Cardinality(S) /\ n \in 1..c
  BY <1>0 DEF Ranked
<1> DEFINE T == {k \in Nat : Rank(S, k) >= n}
<1>2. m \in T
  BY <1>0, <1>1 DEF Ranked
<1>3. PICK k \in T : \A l \in T : k <= l
  BY <1>2, Least
<1>4. k # 0
  <2>1. k \in Nat /\ Rank(S, k) >= n
    BY <1>3
  <2>2. Rank(S, 0) = 0
    BY <1>0 DEF Ranked
  <2> QED
    BY <1>1, <2>1, <2>2
<1>5. PICK l \in Nat : k = l + 1
  BY <1>3, <1>4
<1>6. ~(Rank(S, l) >= n)
  BY <1>3, <1>5
<1>7. k \in S /\ Rank(S, k) = n
  <2>1. Rank(S, l + 1) >= n
    BY <1>3, <1>5
  <2>2. PICK a \in Nat, b \in Nat : a = Rank(S, l) /\ b = Rank(S, l + 1)
    BY <1>0 DEF Ranked
  <2>3. b = IF l + 1 \in S THEN a + 1 ELSE a
    BY <1>0, <2>2 DEF Ranked
  <2> QED
    BY <1>1, <1>5, <1>6, <2>1, <2>2, <2>3
<1>8. Nth(S, n) \in S /\ Rank(S, Nth(S, n)) = n
  BY <1>7, Zenon DEF Nth, Rank
<1>9. ASSUME NEW i \in S, Rank(S, i) = n
      PROVE  i = Nth(S, n)
  <2>1. PICK j \in S : j = Nth(S, n) /\ Rank(S, j) = n
    BY <1>8
  <2>2. ~(i < j) /\ ~(j < i)
    BY <1>0, <1>9, <2>1 DEF Ranked
  <2> QED
    BY <2>1, <2>2
<1> QED
  BY <1>8, <1>9 DEF IsNth

\* y is x up to m, and then a slash and a name; x may have the slash.
Extends(y, x, m, name) ==
  /\ Len(y) = m + 2 /\ y[m + 1] = "/" /\ y[m + 2] = name
  /\ \A i \in 1..m : y[i] = x[i]
  /\ Len(x) = m \/ (Len(x) = m + 1 /\ x[m + 1] = "/")

\* All of x that is heeded is heeded in y, and the slash and the name are.
LEMMA HeededMore ==
  ASSUME NEW S, NEW x \in Seq(S), NEW y \in Seq(S), NEW m \in Nat, NEW name, name # "/",
         Extends(y, x, m, name)
  PROVE  /\ Heeded(x) \in SUBSET (1..m)
         /\ Heeded(y) = Heeded(x) \cup {m + 1, m + 2}
<1>1. PICK a \in Nat : a = Len(x) /\ (a = m \/ (a = m + 1 /\ x[m + 1] = "/"))
  BY DEF Extends
<1>2. \A k : k \in Heeded(x) <=> k \in 1..a /\ (x[k] = "/" => k < a /\ x[k + 1] # "/")
  BY <1>1 DEF Heeded
<1>3. /\ Len(y) = m + 2 /\ y[m + 1] = "/" /\ y[m + 2] = name
      /\ \A i \in 1..m : y[i] = x[i]
  BY DEF Extends
<1>4. \A k : k \in Heeded(y) <=> k \in 1..m + 2 /\ (y[k] = "/" => k < m + 2 /\ y[k + 1] # "/")
  BY <1>3 DEF Heeded
<1>5. m + 1 \notin Heeded(x)
  BY <1>1, <1>2
<1>6. \A k \in Heeded(x) : k \in 1..m
  BY <1>1, <1>2, <1>5
<1>7. m + 1 \in Heeded(y) /\ m + 2 \in Heeded(y)
  <2>1. m + 1 \in 1..m + 2 /\ m + 1 < m + 2 /\ m + 2 \in 1..m + 2
    OBVIOUS
  <2>2. (m + 1) + 1 = m + 2
    OBVIOUS
  <2> QED
    BY <1>3, <1>4, <2>1, <2>2
<1>8. ASSUME NEW k \in 1..m
      PROVE  k \in Heeded(x) <=> k \in Heeded(y)
  <2>1. k \in Heeded(y) <=> (x[k] = "/" => y[k + 1] # "/")
    BY <1>3, <1>4
  <2>2. CASE k < m
    <3>1. y[k + 1] = x[k + 1]
      BY <1>3, <2>2
    <3> QED
      BY <1>1, <1>2, <2>1, <2>2, <3>1
  <2>3. CASE k = m
    BY <1>1, <1>2, <1>3, <2>1, <2>3
  <2> QED
    BY <2>2, <2>3
<1>9. \A k \in Heeded(y) : k \in 1..m \/ k = m + 1 \/ k = m + 2
  BY <1>4
<1> QED
  <2>1. \A k \in Heeded(y) : k \in Heeded(x) \cup {m + 1, m + 2}
    BY <1>8, <1>9
  <2>2. \A k \in Heeded(x) : k \in Heeded(y)
    BY <1>6, <1>8
  <2> QED
    BY <1>6, <1>7, <2>1, <2>2

\* G is H and two larger numbers, and H has c.
Longer(G, H, m, c) == /\ Cardinality(G) = c + 2
                      /\ \A n \in 1..c : Nth(G, n) = Nth(H, n)
                      /\ Nth(G, c + 1) = m + 1 /\ Nth(G, c + 2) = m + 2

\* The n-th of a set with two larger numbers.
LEMMA NthMore ==
  ASSUME NEW m \in Nat, NEW H \in SUBSET (1..m), NEW c \in Nat, c = Cardinality(H),
         NEW G, G = H \cup {m + 1, m + 2}
  PROVE  Longer(G, H, m, c)
<1>1. PICK m1 \in Nat, m2 \in Nat : m1 = m + 1 /\ m2 = m + 2
  OBVIOUS
<1>2. G \in SUBSET (1..m2)
  BY <1>1
<1>0. Ranked(H, m) /\ Ranked(G, m2)
  BY <1>2, RankSteps
<1>3. \A k \in Nat : k <= m => Rank(G, k) = Rank(H, k)
  <2> SUFFICES ASSUME NEW k \in Nat, k <= m
               PROVE  Rank(G, k) = Rank(H, k)
    OBVIOUS
  <2>1. \A j \in G : j <= k => j \in H
    BY <1>1
  <2>2. H \subseteq G
    OBVIOUS
  <2>3. {j \in G : j <= k} = {j \in H : j <= k}
    BY <2>1, <2>2, Zenon
  <2> QED
    BY <2>3 DEF Rank
<1>4. Rank(G, m) = c
  <2>1. Rank(H, m) = c
    BY <1>0 DEF Ranked
  <2> QED
    BY <1>3, <2>1
<1>5. Rank(G, m + 1) = c + 1 /\ Rank(G, m + 2) = c + 2
  <2>1. Rank(G, m + 1) = c + 1
    <3>1. m + 1 \in G
      OBVIOUS
    <3>2. \A k \in Nat : Rank(G, k + 1) = IF k + 1 \in G THEN Rank(G, k) + 1 ELSE Rank(G, k)
      BY <1>0 DEF Ranked
    <3> QED
      BY <1>4, <3>1, <3>2
  <2>2. PICK b \in Nat : b = m + 1
    OBVIOUS
  <2>3. b + 1 \in G /\ b + 1 = m + 2
    BY <2>2
  <2>4. Rank(G, b + 1) = Rank(G, b) + 1
    BY <1>0, <2>3 DEF Ranked
  <2> QED
    BY <2>1, <2>2, <2>3, <2>4
<1>6. Cardinality(G) = c + 2
  <2>1. Rank(G, m2) = Cardinality(G)
    BY <1>0 DEF Ranked
  <2> QED
    BY <1>1, <1>5, <2>1
<1>7. ASSUME NEW n \in 1..c
      PROVE  Nth(G, n) = Nth(H, n)
  <2>0. n \in 1..Cardinality(H)
    OBVIOUS
  <2>1. IsNth(H, n)
    BY <2>0, NthRanked
  <2>2. PICK k \in H : k = Nth(H, n) /\ Rank(H, k) = n
    BY <2>1 DEF IsNth
  <2>3. k \in G /\ Rank(G, k) = n
    BY <1>3, <2>2
  <2>4. IsNth(G, n)
    <3>1. n \in 1..Cardinality(G)
      BY <1>6
    <3> QED
      BY <1>2, <3>1, NthRanked
  <2> QED
    BY <2>2, <2>3, <2>4 DEF IsNth
<1>8. Nth(G, c + 1) = m + 1
  <2>1. c + 1 \in 1..Cardinality(G)
    BY <1>6
  <2>2. IsNth(G, c + 1)
    BY <1>2, <2>1, NthRanked
  <2> QED
    BY <1>5, <2>2 DEF IsNth
<1>9. Nth(G, c + 2) = m + 2
  <2>1. c + 2 \in 1..Cardinality(G)
    BY <1>6
  <2>2. IsNth(G, c + 2)
    BY <1>2, <2>1, NthRanked
  <2> QED
    BY <1>5, <2>2 DEF IsNth
<1> QED
  BY <1>6, <1>7, <1>8, <1>9 DEF Longer

\* What the file system makes of a path with an entry.
LEMMA NormalEntry ==
  ASSUME NEW S, NEW x \in Seq(S), NEW y \in Seq(S), NEW m \in Nat, NEW name, name # "/",
         Extends(y, x, m, name)
  PROVE  Normal(y) = Entry(Normal(x), name)
<1>1. PICK H \in SUBSET (1..m) : H = Heeded(x)
  BY HeededMore
<1>2. PICK G : G = Heeded(y) /\ G = H \cup {m + 1, m + 2}
  BY <1>1, HeededMore
<1>3. PICK c \in Nat : c = Cardinality(H)
  BY RankSteps DEF Ranked
<1>4. /\ Cardinality(G) = c + 2
      /\ \A n \in 1..c : Nth(G, n) = Nth(H, n)
      /\ Nth(G, c + 1) = m + 1 /\ Nth(G, c + 2) = m + 2
  <2>1. Longer(G, H, m, c)
    BY <1>2, <1>3, NthMore, Zenon
  <2> QED
    BY <2>1 DEF Longer
<1>5. \A n \in 1..c : Nth(H, n) \in 1..m
  BY <1>1, <1>3, NthRanked DEF IsNth
<1> DEFINE U == S \cup {"/", name}
<1>6. PICK nx : nx = Normal(x) /\ nx = [n \in 1..c |-> x[Nth(H, n)]]
  BY <1>1, <1>3, Zenon DEF Normal
<1>7. PICK ny : ny = Normal(y) /\ ny = [n \in 1..c + 2 |-> y[Nth(G, n)]]
  BY <1>2, <1>4, Zenon DEF Normal
<1>8. /\ Len(y) = m + 2 /\ y[m + 1] = "/" /\ y[m + 2] = name
      /\ \A i \in 1..m : y[i] = x[i] /\ y[i] \in S
  <2>1. \A i \in 1..m : i \in 1..Len(y)
    BY DEF Extends
  <2> QED
    BY <2>1, ElementOfSeq DEF Extends
<1>9. nx \in Seq(U) /\ Len(nx) = c
  <2>1. \A n \in 1..c : x[Nth(H, n)] \in S
    BY <1>5, <1>8, Zenon
  <2>2. nx \in [1..c -> U]
    BY <1>6, <2>1
  <2> QED
    BY <2>2
<1>10. \A n \in 1..c : ny[n] = nx[n]
  <2> SUFFICES ASSUME NEW n \in 1..c
               PROVE  ny[n] = nx[n]
    OBVIOUS
  <2>1. n \in 1..c + 2
    OBVIOUS
  <2>2. ny[n] = y[Nth(H, n)] /\ nx[n] = x[Nth(H, n)]
    BY <1>4, <1>6, <1>7, <2>1, Zenon
  <2> QED
    BY <1>5, <1>8, <2>2, Zenon
<1>11. ny[c + 1] = "/" /\ ny[c + 2] = name
  <2>1. c + 1 \in 1..c + 2 /\ c + 2 \in 1..c + 2
    OBVIOUS
  <2> QED
    BY <1>4, <1>7, <1>8, <2>1, ZenonT(60)
<1>12. ny \in Seq(U) /\ Len(ny) = c + 2
  <2>1. \A n \in 1..c + 2 : n \in 1..c \/ n = c + 1 \/ n = c + 2
    OBVIOUS
  <2>2. \A n \in 1..c : nx[n] \in U
    BY <1>9
  <2>3. \A n \in 1..c + 2 : ny[n] \in U
    BY <1>10, <1>11, <2>1, <2>2
  <2>4. ny \in [1..c + 2 -> U]
    BY <1>7, <2>3
  <2> QED
    BY <2>4
<1>13. PICK t \in Seq(U) : t = <<"/", name>> /\ Len(t) = 2 /\ t[1] = "/" /\ t[2] = name
  <2>1. "/" \in U /\ name \in U
    OBVIOUS
  <2> HIDE DEF U
  <2>2. <<"/", name>> \in Seq(U) /\ IsPair(<<"/", name>>, "/", name)
    BY <2>1, Pair
  <2> QED
    BY <2>2, Zenon DEF IsPair
<1>14. nx \o t \in Seq(U) /\ JoinedAs(nx, t, nx \o t)
  BY <1>9, <1>13, Joined
<1>15. PICK w \in Seq(U) : w = nx \o t /\ JoinedAs(nx, t, w)
  BY <1>14
<1>16. /\ Len(w) = c + 2 /\ (\A n \in 1..c : w[n] = nx[n])
       /\ w[c + 1] = "/" /\ w[c + 2] = name
  <2>1. /\ Len(w) = c + 2 /\ (\A n \in 1..c : w[n] = nx[n])
        /\ \A i \in 1..2 : w[c + i] = t[i]
    BY <1>9, <1>13, <1>15 DEF JoinedAs
  <2> QED
    BY <1>13, <2>1
<1>17. ny = w
  <2>1. \A n \in 1..c + 2 : n \in 1..c \/ n = c + 1 \/ n = c + 2
    OBVIOUS
  <2>2. \A n \in 1..c + 2 : ny[n] = w[n]
    BY <1>10, <1>11, <1>16, <2>1
  <2>3. Len(ny) = Len(w) /\ \A n \in 1..Len(ny) : ny[n] = w[n]
    BY <1>12, <1>16, <2>2
  <2> QED
    BY <1>12, <1>15, <2>3, SeqEqual
<1> QED
  BY <1>6, <1>7, <1>13, <1>15, <1>17, Zenon DEF Entry

-----------------------------------------------------------------------------
(* The link of an entry, place by place.                                    *)

\* h goes on after url.
GoesOn(h, url) == Len(url) <= Len(h) /\ \A i \in 1..Len(url) : h[i] = url[i]

\* i is the first place of the subdomain in url.
First(url, i) == i \in Occurrences(url) /\ \A k \in Occurrences(url) : i <= k

\* getSubUrl takes what follows the first occurrence.
LEMMA SubUrl ==
  ASSUME NEW S, NEW url \in Seq(S), NEW i, First(url, i)
  PROVE  getSubUrl(url) = SubSeq(url, i + Len(subdomain) + 1, Len(url))
<1>1. \A j \in Occurrences(url) : j \in Int
  BY DEF Occurrences
<1>2. PICK j \in Occurrences(url) :
        /\ j = CHOOSE l \in Occurrences(url) : \A k \in Occurrences(url) : l <= k
        /\ \A k \in Occurrences(url) : j <= k
  BY DEF First
<1>3. i = j
  BY <1>1, <1>2 DEF First
<1> QED
  BY <1>2, <1>3, Zenon DEF getSubUrl

\* If the subdomain occurs at all, it occurs first somewhere.
LEMMA FirstExists ==
  ASSUME NEW url, hasSubUrl(url)
  PROVE  \E i : First(url, i)
<1>1. Occurrences(url) \subseteq Nat /\ Occurrences(url) # {}
  BY DEF Occurrences, hasSubUrl
<1> QED
  BY <1>1, Least DEF First

\* A text that goes on has the subdomain first where it had it before.
LEMMA SameFirst ==
  ASSUME NEW S, NEW url \in Seq(S), NEW h \in Seq(S), subdomain \in Seq(S),
         GoesOn(h, url), NEW i, First(url, i)
  PROVE  First(h, i)
<1>1. PICK n \in Nat, a \in Nat, b \in Nat : n = Len(subdomain) /\ a = Len(url) /\ b = Len(h)
  OBVIOUS
<1>2. a <= b /\ \A j \in 1..a : h[j] = url[j]
  BY <1>1 DEF GoesOn
<1>3. ASSUME NEW k \in Nat, k + n <= a
      PROVE  SubSeq(h, k + 1, k + n) = SubSeq(url, k + 1, k + n)
  <2>1. \A j \in k + 1..k + n : j \in 1..a /\ j \in 1..b
    BY <1>2, <1>3
  <2>2. \A j \in k + 1..k + n : url[j] \in S /\ h[j] \in S
    BY <1>1, <2>1, ElementOfSeq
  <2>3. PICK l \in Int, r \in Int : l = k + 1 /\ r = k + n
    OBVIOUS
  <2>4. /\ SubSeq(h, l, r) \in Seq(S)
        /\ Len(SubSeq(h, l, r)) = IF l <= r THEN r - l + 1 ELSE 0
        /\ \A j \in 1..r - l + 1 : SubSeq(h, l, r)[j] = h[l + j - 1]
    BY <2>2, <2>3, SubSeqProperties
  <2>5. /\ SubSeq(url, l, r) \in Seq(S)
        /\ Len(SubSeq(url, l, r)) = IF l <= r THEN r - l + 1 ELSE 0
        /\ \A j \in 1..r - l + 1 : SubSeq(url, l, r)[j] = url[l + j - 1]
    BY <2>2, <2>3, SubSeqProperties
  <2>6. \A j \in 1..r - l + 1 : h[l + j - 1] = url[l + j - 1]
    BY <1>2, <1>3, <2>3
  <2>7. Len(SubSeq(h, l, r)) = n /\ Len(SubSeq(url, l, r)) = n /\ r - l + 1 = n
    BY <2>3, <2>4, <2>5
  <2>8. \A j \in 1..n : SubSeq(h, l, r)[j] = SubSeq(url, l, r)[j]
    BY <2>4, <2>5, <2>6, <2>7
  <2> QED
    BY <2>3, <2>4, <2>5, <2>7, <2>8, SeqEqual, ZenonT(60)
<1>4. \A k : k \in Occurrences(url) <=> k \in 0..a - n /\ SubSeq(url, k + 1, k + n) = subdomain
  BY <1>1, Zenon DEF Occurrences
<1>5. \A k : k \in Occurrences(h) <=> k \in 0..b - n /\ SubSeq(h, k + 1, k + n) = subdomain
  BY <1>1, Zenon DEF Occurrences
<1>6. i \in Nat /\ i + n <= a /\ SubSeq(url, i + 1, i + n) = subdomain
  BY <1>4 DEF First
<1>7. i \in Occurrences(h)
  <2>1. i \in 0..b - n
    BY <1>2, <1>6
  <2>2. SubSeq(h, i + 1, i + n) = SubSeq(url, i + 1, i + n)
    BY <1>3, <1>6
  <2> QED
    BY <1>5, <1>6, <2>1, <2>2, Zenon
<1>8. ASSUME NEW k \in Occurrences(h), ~(i <= k)
      PROVE  FALSE
  <2>1. k \in Nat /\ k + n <= a /\ SubSeq(h, k + 1, k + n) = subdomain
    BY <1>5, <1>6, <1>8
  <2>2. k \in Occurrences(url)
    <3>1. k \in 0..a - n
      BY <2>1
    <3>2. SubSeq(h, k + 1, k + n) = SubSeq(url, k + 1, k + n)
      BY <1>3, <2>1
    <3> QED
      BY <1>4, <2>1, <3>1, <3>2, Zenon
  <2> QED
    BY <1>8, <2>2 DEF First
<1> QED
  BY <1>7, <1>8 DEF First

\* The link of an entry in the list of url.
Link(url, name) == Entry(IF Last(url) = "/" THEN Front(url) ELSE url, name)

\* It goes on after url, whether or not that ends in a slash.
LEMMA LinkText ==
  ASSUME NEW S, NEW url \in Seq(S), url # << >>, NEW name \in S, "/" \in S
  PROVE  /\ Link(url, name) \in Seq(S) /\ GoesOn(Link(url, name), url)
         /\ \E m \in Nat : Extends(Link(url, name), url, m, name)
<1>1. PICK a \in Nat : a = Len(url) /\ a >= 1
  OBVIOUS
<1>2. PICK u \in Seq(S), m \in Nat :
        /\ u = IF Last(url) = "/" THEN Front(url) ELSE url
        /\ Len(u) = m /\ (\A i \in 1..m : u[i] = url[i])
        /\ a = m \/ (a = m + 1 /\ url[m + 1] = "/")
  <2>1. CASE Last(url) = "/"
    <3>1. PICK m \in Nat : m + 1 = a /\ m \in 0..Len(url)
      BY <1>1
    <3>2. SubSeq(url, 1, m) \in Seq(S) /\ Begins(SubSeq(url, 1, m), url, m)
      BY <3>1, BeginAt
    <3>3. Front(url) = SubSeq(url, 1, m)
      BY <1>1, <3>1 DEF Front
    <3>4. a = m + 1 /\ url[m + 1] = "/"
      BY <1>1, <2>1, <3>1 DEF Last
    <3> QED
      BY <2>1, <3>1, <3>2, <3>3, <3>4 DEF Begins
  <2>2. CASE Last(url) # "/"
    BY <1>1, <2>2
  <2> QED
    BY <2>1, <2>2
<1>3. PICK t \in Seq(S) : t = <<"/", name>> /\ Len(t) = 2 /\ t[1] = "/" /\ t[2] = name
  <2>1. <<"/", name>> \in Seq(S) /\ IsPair(<<"/", name>>, "/", name)
    BY Pair
  <2> QED
    BY <2>1, Zenon DEF IsPair
<1>4. PICK h \in Seq(S) : h = u \o t /\ JoinedAs(u, t, h)
  BY <1>2, <1>3, Joined
<1>5. h = Link(url, name)
  BY <1>2, <1>3, <1>4, Zenon DEF Link, Entry
<1>6. /\ Len(h) = m + 2 /\ (\A i \in 1..m : h[i] = url[i])
      /\ \A i \in 1..2 : h[m + i] = t[i]
  BY <1>2, <1>3, <1>4 DEF JoinedAs
<1>7. h[m + 1] = "/" /\ h[m + 2] = name
  BY <1>3, <1>6
<1>8. Extends(h, url, m, name)
  BY <1>1, <1>2, <1>6, <1>7 DEF Extends
<1>9. GoesOn(h, url)
  BY <1>1, <1>2, <1>6, <1>7 DEF GoesOn
<1> QED
  BY <1>5, <1>8, <1>9

\* What follows place d of a text that goes on, behind r.
LEMMA RestExtends ==
  ASSUME NEW S, NEW r \in Seq(S), NEW url \in Seq(S), NEW h \in Seq(S), NEW name,
         NEW m \in Nat, Extends(h, url, m, name), NEW d \in Nat, d <= m
  PROVE  /\ r \o SubSeq(url, d + 1, Len(url)) \in Seq(S) /\ r \o SubSeq(h, d + 1, Len(h)) \in Seq(S)
         /\ \E n \in Nat : Extends(r \o SubSeq(h, d + 1, Len(h)), r \o SubSeq(url, d + 1, Len(url)),
                                   n, name)
<1>1. PICK R \in Nat, a \in Nat, b \in Nat : R = Len(r) /\ a = Len(url) /\ b = Len(h)
  OBVIOUS
<1>2. /\ b = m + 2 /\ h[m + 1] = "/" /\ h[m + 2] = name
      /\ \A i \in 1..m : h[i] = url[i]
      /\ a = m \/ (a = m + 1 /\ url[m + 1] = "/")
  BY <1>1 DEF Extends
<1>3. PICK u \in Seq(S) : /\ u = SubSeq(url, d + 1, Len(url)) /\ Len(u) = a - d
                          /\ \A i \in 1..a - d : u[i] = url[d + i]
  <2>1. PICK l \in Int : l = d + 1
    OBVIOUS
  <2>2. \A j \in l..a : url[j] \in S
    BY <1>1, <2>1, ElementOfSeq
  <2>3. /\ SubSeq(url, l, a) \in Seq(S)
        /\ Len(SubSeq(url, l, a)) = IF l <= a THEN a - l + 1 ELSE 0
        /\ \A i \in 1..a - l + 1 : SubSeq(url, l, a)[i] = url[l + i - 1]
    BY <2>2, SubSeqProperties
  <2>4. ASSUME NEW i \in 1..a - d
        PROVE  SubSeq(url, l, a)[i] = url[d + i]
    <3>1. i \in 1..a - l + 1 /\ l + i - 1 = d + i
      BY <2>1
    <3> QED
      BY <2>3, <3>1, Zenon
  <2>5. Len(SubSeq(url, l, a)) = a - d
    BY <1>2, <2>1, <2>3
  <2> QED
    BY <1>1, <2>1, <2>3, <2>4, <2>5
<1>4. PICK v \in Seq(S) : /\ v = SubSeq(h, d + 1, Len(h)) /\ Len(v) = b - d
                          /\ \A i \in 1..b - d : v[i] = h[d + i]
  <2>1. PICK l \in Int : l = d + 1
    OBVIOUS
  <2>2. \A j \in l..b : h[j] \in S
    BY <1>1, <2>1, ElementOfSeq
  <2>3. /\ SubSeq(h, l, b) \in Seq(S)
        /\ Len(SubSeq(h, l, b)) = IF l <= b THEN b - l + 1 ELSE 0
        /\ \A i \in 1..b - l + 1 : SubSeq(h, l, b)[i] = h[l + i - 1]
    BY <2>2, SubSeqProperties
  <2>4. \A i \in 1..b - d : SubSeq(h, l, b)[i] = h[d + i]
    BY <2>1, <2>3
  <2>5. Len(SubSeq(h, l, b)) = b - d
    BY <1>2, <2>1, <2>3
  <2> QED
    BY <1>1, <2>1, <2>3, <2>4, <2>5
<1>5. PICK x \in Seq(S) : x = r \o u /\ JoinedAs(r, u, x)
  BY <1>3, Joined
<1>6. PICK y \in Seq(S) : y = r \o v /\ JoinedAs(r, v, y)
  BY <1>4, Joined
<1>7. PICK n \in Nat, e \in Nat : n = R + e /\ m = d + e
  <2>1. m - d \in Nat /\ m = d + (m - d) /\ R + (m - d) \in Nat
    OBVIOUS
  <2> QED
    BY <2>1
<1>8. /\ Len(x) = R + (a - d) /\ (\A i \in 1..R : x[i] = r[i])
      /\ \A i \in 1..a - d : x[R + i] = url[d + i]
  BY <1>1, <1>3, <1>5 DEF JoinedAs
<1>9. /\ Len(y) = R + (b - d) /\ (\A i \in 1..R : y[i] = r[i])
      /\ \A i \in 1..b - d : y[R + i] = h[d + i]
  BY <1>1, <1>4, <1>6 DEF JoinedAs
<1>10. b - d = e + 2 /\ (a - d = e \/ (a - d = e + 1 /\ url[d + (e + 1)] = "/"))
  BY <1>2, <1>7
<1>11. Len(y) = n + 2 /\ y[n + 1] = "/" /\ y[n + 2] = name
  <2>1. e + 1 \in 1..b - d /\ e + 2 \in 1..b - d
    BY <1>10
  <2>2. y[R + (e + 1)] = h[d + (e + 1)] /\ y[R + (e + 2)] = h[d + (e + 2)]
    BY <1>9, <2>1
  <2> QED
    BY <1>2, <1>7, <1>9, <1>10, <2>2, SMTT(30)
<1>12. Len(x) = n \/ (Len(x) = n + 1 /\ x[n + 1] = "/")
  <2>1. CASE a - d = e
    BY <1>7, <1>8, <2>1
  <2>2. CASE a - d = e + 1 /\ url[d + (e + 1)] = "/"
    <3>1. e + 1 \in 1..a - d
      BY <2>2
    <3>2. x[R + (e + 1)] = url[d + (e + 1)]
      BY <1>8, <3>1
    <3> QED
      BY <1>7, <1>8, <2>2, <3>2
  <2> QED
    BY <1>10, <2>1, <2>2
<1>13. ASSUME NEW i \in 1..n
       PROVE  y[i] = x[i]
  <2>1. CASE i \in 1..R
    BY <1>8, <1>9, <2>1
  <2>2. CASE i \notin 1..R
    <3>1. PICK j \in 1..e : i = R + j
      <4>1. i - R \in 1..e /\ i = R + (i - R)
        BY <1>7, <2>2
      <4> QED
        BY <4>1
    <3>2. j \in 1..a - d /\ j \in 1..b - d /\ d + j \in 1..m
      BY <1>7, <1>10
    <3>3. y[R + j] = h[d + j] /\ x[R + j] = url[d + j] /\ h[d + j] = url[d + j]
      BY <1>2, <1>8, <1>9, <3>2
    <3> QED
      BY <3>1, <3>3
  <2> QED
    BY <2>1, <2>2
<1>14. Extends(y, x, n, name)
  BY <1>11, <1>12, <1>13 DEF Extends
<1> QED
  BY <1>3, <1>4, <1>5, <1>6, <1>14, Zenon

-----------------------------------------------------------------------------
(* The lists of the file server.                                            *)

\* The tokens of links.
LinkTokens == Tokens \cup {"/"}

\* The file system reads a text as a text.
LEMMA NormalText ==
  ASSUME NEW S, NEW x \in Seq(S)
  PROVE  Normal(x) \in Seq(S)
<1>1. PICK a \in Nat : a = Len(x)
  OBVIOUS
<1>2. PICK H \in SUBSET (1..a) : H = Heeded(x)
  <2>1. \A k \in Heeded(x) : k \in 1..a
    BY <1>1 DEF Heeded
  <2> QED
    BY <2>1
<1>3. PICK c \in Nat : c = Cardinality(H)
  BY RankSteps DEF Ranked
<1>4. \A n \in 1..c : Nth(H, n) \in 1..a
  BY <1>1, <1>3, NthRanked DEF IsNth
<1>5. \A n \in 1..c : x[Nth(H, n)] \in S
  BY <1>1, <1>4, ElementOfSeq
<1>6. Normal(x) = [n \in 1..c |-> x[Nth(H, n)]]
  BY <1>2, <1>3, Zenon DEF Normal
<1> QED
  BY <1>5, <1>6

\* A path is made of tokens.
LEMMA PathText ==
  ASSUME NEW url \in FileUrls, hasSubUrl(url)
  PROVE  PathOf(url) \in Seq(LinkTokens)
<1>1. /\ url \in Seq(LinkTokens) /\ subdomain \in Seq(LinkTokens)
      /\ rootPath \in Seq(LinkTokens)
  <2>1. Seq(Tokens) \subseteq Seq(LinkTokens)
    BY SeqMonotonic DEF LinkTokens
  <2>2. rootPath \in Paths
    BY PagesFacts
  <2> QED
    BY <2>1, <2>2, SlashAssumption
<1>2. PICK i : First(url, i)
  BY FirstExists
<1>3. PICK l \in Int, a \in Nat : l = i + Len(subdomain) + 1 /\ a = Len(url) /\ l >= 1
  BY <1>1, <1>2 DEF First, Occurrences
<1>4. \A j \in l..a : url[j] \in LinkTokens
  BY <1>1, <1>3, ElementOfSeq
<1>5. SubSeq(url, l, a) \in Seq(LinkTokens)
  BY <1>4, SubSeqProperties
<1>6. getSubUrl(url) = SubSeq(url, l, a)
  BY <1>1, <1>2, <1>3, SubUrl
<1>7. PICK x \in Seq(LinkTokens) : x = rootPath \o getSubUrl(url)
  BY <1>1, <1>5, <1>6, ConcatProperties
<1>8. PathOf(url) = Normal(x)
  BY <1>7, Zenon DEF PathOf, Text
<1> QED
  BY <1>7, <1>8, NormalText

\* What an entry's link names is the path of the entry.
LEMMA LinkLeads ==
  ASSUME NEW url \in FileUrls, hasSubUrl(url), NEW name \in Tokens, name # "/"
  PROVE  hasSubUrl(Link(url, name)) /\ PathOf(Link(url, name)) = Entry(PathOf(url), name)
<1>1. /\ url \in Seq(LinkTokens) /\ subdomain \in Seq(LinkTokens) /\ url # << >>
      /\ name \in LinkTokens /\ "/" \in LinkTokens
      /\ subdomain # << >> => Last(subdomain) # "/"
  <2>1. Seq(Tokens) \subseteq Seq(LinkTokens)
    BY SeqMonotonic DEF LinkTokens
  <2> QED
    BY <2>1, SlashAssumption DEF LinkTokens
<1>2. PICK h \in Seq(LinkTokens) : h = Link(url, name)
  BY <1>1, LinkText
<1>3. GoesOn(h, url)
  BY <1>1, <1>2, LinkText
<1>4. PICK m \in Nat : Extends(h, url, m, name)
  BY <1>1, <1>2, LinkText
<1>5. PICK i : First(url, i)
  BY FirstExists
<1>6. First(h, i)
  BY <1>1, <1>3, <1>5, SameFirst
<1>7. PICK a \in Nat, n \in Nat : a = Len(url) /\ n = Len(subdomain)
  BY <1>1
<1>8. i \in Nat /\ i + n <= a /\ SubSeq(url, i + 1, i + n) = subdomain
  BY <1>7 , <1>5 DEF First, Occurrences
<1>9. PICK d \in Nat : d = i + n
  BY <1>8
<1>10. d <= m
  <2> SUFFICES ASSUME d = m + 1, a = m + 1, url[m + 1] = "/"
               PROVE  FALSE
    BY <1>4, <1>7, <1>8, <1>9 DEF Extends
  <2>1. CASE n = 0
    <3>1. subdomain = << >>
      BY <1>1, <1>7, <2>1, EmptySeq
    <3>2. SubSeq(url, 0 + 1, 0 + n) = << >>
      BY <2>1, SubSeqEmpty
    <3>3. 0 \in 0..a - n
      BY <1>8, <2>1
    <3>4. 0 \in Occurrences(url)
      BY <1>7, <3>1, <3>2, <3>3, Zenon DEF Occurrences
    <3>5. i <= 0
      BY <1>5, <3>4 DEF First
    <3> QED
      BY <1>8, <1>9, <2>1, <3>5
  <2>2. CASE n # 0
    <3>1. \A j \in i + 1..d : url[j] \in LinkTokens
      BY <1>1, <1>7, <1>8, <1>9, ElementOfSeq
    <3>2. PICK l \in Int : l = i + 1
      BY <1>8
    <3>3. \A j \in 1..d - l + 1 : SubSeq(url, l, d)[j] = url[l + j - 1]
      BY <3>1, <3>2, SubSeqProperties
    <3>4. n \in 1..d - l + 1 /\ l + n - 1 = d
      BY <1>8, <1>9, <2>2, <3>2
    <3>5. subdomain[n] = url[d]
      BY <1>8, <1>9, <3>2, <3>3, <3>4
    <3>6. subdomain[n] # "/"
      <4>1. subdomain # << >>
        BY <1>7, <2>2
      <4> QED
        BY <1>1, <1>7, <4>1 DEF Last
    <3> QED
      BY <3>5, <3>6
  <2> QED
    BY <2>1, <2>2
<1>11. PICK u, v : u = getSubUrl(url) /\ v = getSubUrl(h)
  OBVIOUS
<1>12. u = SubSeq(url, d + 1, Len(url)) /\ v = SubSeq(h, d + 1, Len(h))
  BY <1>1, <1>5, <1>6, <1>7, <1>9, <1>11, SubUrl
<1>13. rootPath \in Seq(LinkTokens)
  <2>1. rootPath \in Paths
    BY PagesFacts
  <2>2. Seq(Tokens) \subseteq Seq(LinkTokens)
    BY SeqMonotonic DEF LinkTokens
  <2> QED
    BY <2>1, <2>2, SlashAssumption
<1>14. PICK x \in Seq(LinkTokens), y \in Seq(LinkTokens), k \in Nat :
         x = rootPath \o u /\ y = rootPath \o v /\ Extends(y, x, k, name)
  BY <1>1, <1>4, <1>10, <1>12, <1>13, RestExtends
<1>15. Normal(y) = Entry(Normal(x), name)
  BY <1>14, NormalEntry
<1>16. PathOf(h) = Normal(y) /\ PathOf(url) = Normal(x)
  BY <1>11, <1>14, Zenon DEF PathOf, Text
<1>17. hasSubUrl(h)
  BY <1>6, Zenon DEF First, hasSubUrl
<1> QED
  BY <1>2, <1>15, <1>16, <1>17, Zenon

\* What the file server answers with a list of: its entries, by their names.
ListInv(r) ==
  /\ r.url \in FileUrls /\ hasSubUrl(r.url)
  /\ \A e \in r.list : \E name \in Tokens \ {"/"} :
        e = [href |-> Link(r.url, name), name |-> name]

LinksInv == request # Nil => ListInv(request)

\* The address and the list stay.
SameList(q, r) == r.url = q.url /\ r.list = q.list

LEMMA SameListKeeps ==
  ASSUME LinksInv, request' = Nil \/ (request # Nil /\ SameList(request, request'))
  PROVE  LinksInv'
<1>1. CASE request' = Nil
  BY <1>1 DEF LinksInv
<1>2. CASE request # Nil /\ SameList(request, request')
  <2>1. PICK q, r : q = request /\ r = request' /\ ListInv(q) /\ SameList(q, r)
    BY <1>2 DEF LinksInv
  <2>2. /\ r.url = q.url /\ r.list = q.list
        /\ q.url \in FileUrls /\ hasSubUrl(q.url)
        /\ \A e \in q.list : \E name \in Tokens \ {"/"} :
              e = [href |-> Link(q.url, name), name |-> name]
    BY <2>1, Zenon DEF ListInv, SameList
  <2>20. ListInv(r)
    BY <2>2, Zenon DEF ListInv
  <2>3. ListInv(request)'
    BY <2>1, <2>20 DEF ListInv
  <2> QED
    BY <2>3 DEF LinksInv
<1> QED
  BY <1>1, <1>2

\* What others do to the files leaves the list and the address of a request.
LEMMA NoticedList ==
  ASSUME NEW q, RequestFields(q), NEW a, NEW b, NEW m, NEW r,
         r = q \/ r = [q EXCEPT !.disturbed = a, !.seen = b]
  PROVE  SameList(q, r) /\ SameList(q, [r EXCEPT !.removed = m])
<1>1. RequestFields(r) /\ SameList(q, r)
  BY DEF RequestFields, SameList
<1>2. SameList(r, [r EXCEPT !.removed = m])
  BY <1>1 DEF RequestFields, SameList
<1> QED
  BY <1>1, <1>2 DEF SameList

LEMMA NoticedSame ==
  ASSUME RequestInv, request # Nil, NEW p, NEW kind, NEW m
  PROVE  /\ SameList(request, Noticed(p, kind))
         /\ SameList(request, [Noticed(p, kind) EXCEPT !.removed = m])
<1>1. PICK q : q = request /\ RequestFields(q)
  BY DEF RequestInv, StageInv
<1>2. PICK b : b = IF q.stage \in Answers THEN q.seen ELSE q.seen \cup {KindAt(q.url, kind)}
  OBVIOUS
<1>3. PICK r : /\ r = Noticed(p, kind)
               /\ r = q \/ r = [q EXCEPT !.disturbed = TRUE, !.seen = b]
  BY <1>1, <1>2 DEF Noticed
<1>4. SameList(q, r) /\ SameList(q, [r EXCEPT !.removed = m])
  BY <1>1, <1>3, NoticedList, Zenon
<1> QED
  BY <1>1, <1>3, <1>4, Zenon

\* The entries of a list have names.
LEMMA LsDirList ==
  ASSUME RequestInv, LinksInv, lsDir
  PROVE  LinksInv'
<1>1. PICK q : q = request /\ q # Nil /\ RequestFields(q) /\ ListInv(q)
  BY DEF lsDir, At, RequestInv, StageInv, LinksInv
<1>2. PICK names : /\ names = {Last(p) : p \in {a \in Paths : /\ a = Entry(Asked, Last(a))
                                                              /\ node[a].kind # "none"}}
                   /\ request' = [request EXCEPT !.stage = "list",
                                     !.list = convertDirListToHtml(request.url, names)]
  BY Zenon DEF lsDir
<1>3. PICK l, r : /\ l = convertDirListToHtml(q.url, names)
                  /\ r = request' /\ r = [q EXCEPT !.stage = "list", !.list = l]
  BY <1>1, <1>2, Zenon
<1>4. r.url = q.url /\ r.stage = "list" /\ r.list = l
  BY <1>1, <1>3 DEF RequestFields
<1>5. \A n \in names : n \in Tokens \ {"/"}
  <2> SUFFICES ASSUME NEW a \in Paths, a = Entry(Asked, Last(a))
               PROVE  Last(a) \in Tokens /\ Last(a) # "/"
    BY <1>2, Zenon
  <2>1. a \in Seq(Tokens) /\ (a # << >> => Last(a) # "/")
    BY SlashAssumption
  <2>2. Len(a) \in Nat
    BY <2>1
  <2>3. a # << >>
    <3>1. PICK w \in Seq(LinkTokens) : w = Asked
      BY <1>1, PathText DEF ListInv, Asked
    <3>2. PICK x : x = Last(a) /\ x \in LinkTokens \cup {x}
      OBVIOUS
    <3>3. a = w \o <<"/", x>>
      BY <3>1, <3>2, Zenon DEF Entry
    <3>4. w \in Seq(LinkTokens \cup {x}) /\ <<"/", x>> \in Seq(LinkTokens \cup {x})
      BY <3>1 DEF LinkTokens
    <3>5. Len(a) = Len(w) + Len(<<"/", x>>)
      BY <3>3, <3>4, ConcatProperties
    <3>6. Len(w) \in Nat /\ Len(<<"/", x>>) = 2
      BY <3>1
    <3> QED
      BY <3>5, <3>6
  <2>4. Len(a) \in 1..Len(a)
    BY <2>1, <2>2, <2>3
  <2> QED
    BY <2>1, <2>3, <2>4, ElementOfSeq DEF Last
<1>6. \A e \in l : \E n \in names : e = [href |-> Link(q.url, n), name |-> n]
  BY <1>3, Zenon DEF convertDirListToHtml, Link
<1>7. ListInv(r)
  <2>1. \A e \in l : \E n \in Tokens \ {"/"} : e = [href |-> Link(q.url, n), name |-> n]
    BY <1>5, <1>6, Zenon
  <2>2. q.url \in FileUrls /\ hasSubUrl(q.url)
    BY <1>1 DEF ListInv
  <2> QED
    BY <1>4, <2>1, <2>2, Zenon DEF ListInv
<1>8. ListInv(request)'
  BY <1>3, <1>7 DEF ListInv
<1> QED
  BY <1>8 DEF LinksInv

\* Each step of a request keeps what is known of its list.
LEMMA RequestLinks ==
  ASSUME RequestInv, LinksInv, RequestStep
  PROVE  LinksInv'
<1>1. ASSUME NEW url \in FileUrls, handleGetRequest(url)
      PROVE  LinksInv'
  <2>1. PICK r : r = request' /\ r.url = url /\ r.list = {} /\ hasSubUrl(url)
    BY <1>1 DEF handleGetRequest
  <2>2. ListInv(r)
    BY <2>1 DEF ListInv
  <2>3. ListInv(request)'
    BY <2>1, <2>2 DEF ListInv
  <2> QED
    BY <2>3 DEF LinksInv
<1>2. ASSUME request # Nil, NEW stage, NEW kinds, Goto(stage) \/ Denied(kinds, stage)
      PROVE  LinksInv'
  <2>1. PICK q, r : /\ q = request /\ RequestFields(q) /\ r = request'
                    /\ \/ r = [q EXCEPT !.stage = stage]
                       \/ r = [q EXCEPT !.stage = stage, !.refused = TRUE]
    <3>1. PICK q : q = request /\ RequestFields(q)
      BY <1>2 DEF RequestInv, StageInv
    <3> QED
      BY <1>2, <3>1, Zenon DEF Goto, Denied
  <2>2. SameList(q, r)
    BY <2>1 DEF RequestFields, SameList
  <2> QED
    BY <1>2, <2>1, <2>2, SameListKeeps
<1>3. CASE isDir
  BY <1>2, <1>3 DEF isDir, At
<1>4. CASE lsDir \/ lsDirRefused
  BY <1>2, <1>4, LsDirList DEF lsDirRefused, At
<1>5. CASE fileExists
  BY <1>2, <1>5 DEF fileExists, At
<1>6. CASE readTextFile
  BY <1>2, <1>6 DEF readTextFile, At
<1>7. CASE ReadPiece
  <2>1. CASE Goto("page")
    BY <1>2, <1>7, <2>1 DEF ReadPiece, At
  <2>2. CASE ~Goto("page")
    <3>1. PICK data, k : request' = [request EXCEPT !.result = Append(@, data[k])]
      BY <1>7, <2>2, Zenon DEF ReadPiece
    <3>2. PICK q, x : /\ q = request /\ RequestFields(q) /\ request # Nil
                      /\ request' = [q EXCEPT !.result = x]
      BY <1>7, <3>1 DEF ReadPiece, At, RequestInv, StageInv
    <3>3. SameList(q, [q EXCEPT !.result = x])
      BY <3>2 DEF RequestFields, SameList
    <3> QED
      BY <3>2, <3>3, SameListKeeps
  <2> QED
    BY <2>1, <2>2
<1>8. CASE Respond
  BY <1>8, SameListKeeps DEF Respond
<1> QED
  BY <1>1, <1>3, <1>4, <1>5, <1>6, <1>7, <1>8 DEF RequestStep

\* What others do leaves the list as it is.
LEMMA OtherLinks ==
  ASSUME RequestInv, LinksInv, NEW p, NEW kind, NEW m,
         request' = request \/ request' = Noticed(p, kind)
           \/ (request # Nil /\ request' = [Noticed(p, kind) EXCEPT !.removed = m])
  PROVE  LinksInv'
<1>1. CASE request = Nil
  BY <1>1, SameListKeeps DEF Noticed
<1>2. CASE request # Nil
  <2>1. SameList(request, request')
    <3>1. SameList(request, request)
      BY DEF SameList
    <3>2. /\ SameList(request, Noticed(p, kind))
          /\ SameList(request, [Noticed(p, kind) EXCEPT !.removed = m])
      BY <1>2, NoticedSame
    <3> QED
      BY <3>1, <3>2, Zenon
  <2> QED
    BY <1>2, <2>1, SameListKeeps
<1> QED
  BY <1>1, <1>2

\* Every step keeps it.
LEMMA LinksStep ==
  ASSUME PagesInv, LinksInv, [PagesNext]_pagesVars
  PROVE  LinksInv'
<1>0. RequestInv
  BY DEF PagesInv
<1>1. ASSUME UNCHANGED request
      PROVE  LinksInv'
  BY <1>0, <1>1, OtherLinks
<1>2. ASSUME NEW t, NEW p, NEW content, openStream(t, p, content)
      PROVE  LinksInv'
  BY <1>0, <1>2, OtherLinks DEF openStream
<1>3. ASSUME NEW t \in Savers, WritePiece(t)
      PROVE  LinksInv'
  <2>1. request' = request \/ request' = Noticed(writing[t].path, "file")
    BY <1>3, Zenon DEF WritePiece
  <2> QED
    BY <1>0, <2>1, OtherLinks
<1>4. ASSUME NEW p \in Paths, unlink(p)
      PROVE  LinksInv'
  <2>1. \/ request' = Noticed(p, "none")
        \/ request # Nil /\ request' = [Noticed(p, "none") EXCEPT !.removed = node[p].data]
    BY <1>4, Zenon DEF unlink, At
  <2> QED
    BY <1>0, <2>1, OtherLinks
<1>5. ASSUME NEW p \in Paths, mkdir(p)
      PROVE  LinksInv'
  BY <1>0, <1>5, OtherLinks DEF mkdir
<1>6. ASSUME RequestStep
      PROVE  LinksInv'
  BY <1>0, <1>6, RequestLinks
<1>7. ASSUME NEW t \in Savers, CloseStream(t)
      PROVE  LinksInv'
  BY <1>1, <1>7 DEF CloseStream
<1>8. CASE UNCHANGED pagesVars
  BY <1>1, <1>8 DEF pagesVars
<1>9. ASSUME PagesNext
      PROVE  LinksInv'
  BY <1>1, <1>2, <1>3, <1>4, <1>5, <1>6, <1>7, <1>9
     DEF PagesNext, FileStep, Download, ReturnPage, SavePage
<1> QED
  BY <1>8, <1>9

\* The links in a list lead to the entries that they name, also where the name
\* of the subdomain occurs again below the root (FileServer.cpp:35-47, 60-67,
\* 122-142).
THEOREM ListLeadsCorrect == PagesSpec => []ListLeads
<1>1. PagesInit => LinksInv
  BY DEF PagesInit, FileServerInit, LinksInv
<1>2. PagesInv /\ LinksInv /\ [PagesNext]_pagesVars => LinksInv'
  BY LinksStep
<1>3. LinksInv => ListLeads
  <2> SUFFICES ASSUME LinksInv, request # Nil, request.stage = "list", NEW e \in request.list
               PROVE  hasSubUrl(e.href) /\ PathOf(e.href) = Entry(Asked, e.name)
    BY Zenon DEF ListLeads, At
  <2>1. PICK url \in FileUrls : url = request.url /\ hasSubUrl(url)
    BY DEF LinksInv, ListInv
  <2>2. PICK name \in Tokens : name # "/" /\ e = [href |-> Link(url, name), name |-> name]
    BY <2>1 DEF LinksInv, ListInv
  <2>3. PICK h : h = Link(url, name)
    OBVIOUS
  <2>4. e.href = h /\ e.name = name
    BY <2>2, <2>3
  <2>5. hasSubUrl(h) /\ PathOf(h) = Entry(PathOf(url), name)
    BY <2>1, <2>2, <2>3, LinkLeads
  <2> QED
    BY <2>1, <2>4, <2>5 DEF Asked
<1> QED
  BY <1>1, <1>2, <1>3, PagesInvariant, PTL DEF PagesSpec

-----------------------------------------------------------------------------
(* FlattenSeq: where the pieces of the joined sequence lie.                *)

\* Induction over the numbers up to n.
LEMMA UpTo ==
  ASSUME NEW n \in Nat, NEW T, 0 \in T, \A m \in Nat : m < n /\ m \in T => m + 1 \in T
  PROVE  \A m \in 0..n : m \in T
<1> SUFFICES ASSUME NEW u \in 0..n, u \notin T
             PROVE  FALSE
  OBVIOUS
<1> DEFINE F == {m \in 0..n : m \notin T}
<1>1. PICK m \in F : \A k \in F : m <= k
  <2>1. F \subseteq Nat /\ F # {}
    OBVIOUS
  <2> HIDE DEF F
  <2> QED
    BY <2>1, Least
<1>2. m \in Nat /\ m <= n /\ m # 0 /\ m \notin T
  BY <1>1
<1>3. PICK l \in Nat : m = l + 1
  BY <1>2
<1>4. l \in T
  BY <1>1, <1>2, <1>3
<1> QED
  BY <1>2, <1>3, <1>4

\* The function that FlattenSeq defines by recursion.
IsSums(f, ss, n) == f = [i \in 1..n |-> IF i = 1 THEN ss[i] ELSE f[i - 1] \o ss[i]]

\* There is one.
LEMMA SumsExist ==
  ASSUME NEW ss, NEW n \in Nat
  PROVE  \E f : IsSums(f, ss, n)
<1> DEFINE T == {m \in Nat : \E f : IsSums(f, ss, m)}
<1>1. 0 \in T
  <2>1. [i \in {} |-> i] = [i \in 1..0 |-> IF i = 1 THEN ss[i] ELSE [j \in {} |-> j][i - 1] \o ss[i]]
    <3>1. 1..0 = {}
      OBVIOUS
    <3> QED
      BY <3>1
  <2>2. IsSums([i \in {} |-> i], ss, 0)
    BY <2>1 DEF IsSums
  <2> QED
    BY <2>2
<1>2. ASSUME NEW m \in Nat, m \in T
      PROVE  m + 1 \in T
  <2>1. PICK f : IsSums(f, ss, m)
    BY <1>2
  <2>2. PICK x : x = IF m + 1 = 1 THEN ss[m + 1] ELSE f[m] \o ss[m + 1]
    OBVIOUS
  <2>3. PICK g : g = [i \in 1..m + 1 |-> IF i = m + 1 THEN x ELSE f[i]]
    OBVIOUS
  <2>4. ASSUME NEW i \in 1..m + 1
        PROVE  g[i] = IF i = 1 THEN ss[i] ELSE g[i - 1] \o ss[i]
    <3>1. CASE i = m + 1
      <4>1. CASE i = 1
        BY <2>2, <2>3, <3>1, <4>1
      <4>2. CASE i # 1
        <5>1. i - 1 = m /\ m \in 1..m + 1 /\ m # m + 1
          BY <3>1, <4>2
        <5>2. g[m] = f[m] /\ g[i] = x
          BY <2>3, <3>1, <5>1
        <5>3. x = f[m] \o ss[m + 1]
          BY <2>2, <3>1, <4>2, Zenon
        <5> QED
          BY <3>1, <4>2, <5>1, <5>2, <5>3, Zenon
      <4> QED
        BY <4>1, <4>2
    <3>2. CASE i # m + 1
      <4>1. i \in 1..m
        BY <3>2
      <4>2. f[i] = IF i = 1 THEN ss[i] ELSE f[i - 1] \o ss[i]
        BY <2>1, <4>1, Zenon DEF IsSums
      <4>3. g[i] = f[i]
        BY <2>3, <3>2
      <4>4. i # 1 => g[i - 1] = f[i - 1]
        <5> SUFFICES ASSUME i # 1
                     PROVE  g[i - 1] = f[i - 1]
          OBVIOUS
        <5>1. i - 1 \in 1..m + 1 /\ i - 1 # m + 1
          BY <4>1
        <5> QED
          BY <2>3, <5>1
      <4> QED
        BY <4>2, <4>3, <4>4, Zenon
    <3> QED
      BY <3>1, <3>2
  <2>5. g = [i \in 1..m + 1 |-> IF i = 1 THEN ss[i] ELSE g[i - 1] \o ss[i]]
    BY <2>3, <2>4, Zenon
  <2>6. IsSums(g, ss, m + 1)
    BY <2>5, Zenon DEF IsSums
  <2> QED
    BY <2>6
<1> HIDE DEF T
<1>3. n \in T
  BY <1>1, <1>2, UpTo
<1> QED
  BY <1>3 DEF T

\* w is the pieces of ss, one after the other: the i-th begins behind place
\* o[i - 1].
Laid(w, ss, o) ==
  /\ o \in [0..Len(ss) -> Nat] /\ o[0] = 0 /\ o[Len(ss)] = Len(w)
  /\ \A i \in 1..Len(ss) : /\ o[i] = o[i - 1] + Len(ss[i]) /\ o[i] <= Len(w)
                           /\ \A j \in 1..Len(ss[i]) : w[o[i - 1] + j] = ss[i][j]

\* The first m pieces.
LaidUpTo(w, ss, o, m) ==
  /\ o[m] = Len(w)
  /\ \A i \in 1..m : /\ o[i] = o[i - 1] + Len(ss[i]) /\ o[i] <= Len(w)
                     /\ \A j \in 1..Len(ss[i]) : w[o[i - 1] + j] = ss[i][j]

\* One more piece.
LEMMA OneMore ==
  ASSUME NEW S, NEW w \in Seq(S), NEW x \in Seq(S), NEW v \in Seq(S), JoinedAs(w, x, v),
         NEW ss, NEW m \in Nat, NEW n \in Nat, m < n, NEW o \in [0..n -> Nat],
         \A i \in 1..n : ss[i] \in Seq(S), ss[m + 1] = x,
         LaidUpTo(w, ss, o, m), o[m + 1] = Len(v)
  PROVE  LaidUpTo(v, ss, o, m + 1)
<1>1. PICK a \in Nat, b \in Nat, c \in Nat : a = Len(w) /\ b = Len(x) /\ c = Len(v)
  OBVIOUS
<1>2. /\ c = a + b /\ (\A i \in 1..a : v[i] = w[i]) /\ \A i \in 1..b : v[a + i] = x[i]
  BY <1>1 DEF JoinedAs
<1>3. /\ o[m] = a /\ o[m + 1] = c
      /\ \A i \in 1..m : /\ o[i] = o[i - 1] + Len(ss[i]) /\ o[i] <= a
                         /\ \A j \in 1..Len(ss[i]) : w[o[i - 1] + j] = ss[i][j]
  BY <1>1 DEF LaidUpTo
<1>4. ASSUME NEW i \in 1..m
      PROVE  /\ o[i] = o[i - 1] + Len(ss[i]) /\ o[i] <= c
             /\ \A j \in 1..Len(ss[i]) : v[o[i - 1] + j] = ss[i][j]
  <2>1. PICK p \in Nat, q \in Nat, r \in Nat : p = o[i - 1] /\ q = o[i] /\ r = Len(ss[i])
    <3>1. i \in 1..n /\ i - 1 \in 0..n /\ i \in 0..n
      OBVIOUS
    <3>2. o[i - 1] \in Nat /\ o[i] \in Nat
      BY <3>1
    <3>3. Len(ss[i]) \in Nat
      BY <3>1
    <3> QED
      BY <3>2, <3>3
  <2>2. q = p + r /\ q <= a /\ \A j \in 1..r : w[p + j] = ss[i][j]
    BY <1>3, <2>1
  <2>3. ASSUME NEW j \in 1..r
        PROVE  v[p + j] = ss[i][j]
    <3>1. p + j \in 1..a
      BY <2>2
    <3> QED
      BY <1>2, <2>2, <3>1
  <2> QED
    BY <1>2, <2>1, <2>2, <2>3
<1>5. ASSUME NEW i, i = m + 1
      PROVE  /\ o[i] = o[i - 1] + Len(ss[i]) /\ o[i] <= c
             /\ \A j \in 1..Len(ss[i]) : v[o[i - 1] + j] = ss[i][j]
  <2>1. i - 1 = m
    BY <1>5
  <2>2. o[i - 1] = a /\ o[i] = c /\ ss[i] = x
    BY <1>3, <1>5, <2>1, Zenon
  <2> QED
    BY <1>1, <1>2, <2>2
<1>6. \A i \in 1..m + 1 : i \in 1..m \/ i = m + 1
  OBVIOUS
<1> QED
  BY <1>1, <1>3, <1>4, <1>5, <1>6 DEF LaidUpTo

\* What FlattenSeq makes of sequences.
LEMMA FlatLaid ==
  ASSUME NEW S, NEW ss \in Seq(Seq(S))
  PROVE  FlattenSeq(ss) \in Seq(S) /\ \E o : Laid(FlattenSeq(ss), ss, o)
<1>1. PICK n \in Nat : n = Len(ss)
  OBVIOUS
<1> DEFINE f == CHOOSE h : h = [i \in 1..Len(ss) |->
                                   IF i = 1 THEN ss[i] ELSE h[i - 1] \o ss[i]]
<1>2. FlattenSeq(ss) = IF Len(ss) = 0 THEN ss ELSE f[Len(ss)]
  BY Zenon DEF FlattenSeq
<1>3. IsSums(f, ss, n)
  <2>1. \E h : IsSums(h, ss, Len(ss))
    BY <1>1, SumsExist
  <2>2. IsSums(f, ss, Len(ss))
    BY <2>1, Zenon DEF IsSums
  <2> QED
    BY <1>1, <2>2
<1> HIDE DEF f
<1>4. PICK g : g = [i \in 0..n |-> IF i = 0 THEN << >> ELSE f[i]]
  OBVIOUS
<1>5. g[0] = << >>
  BY <1>4
<1>6. ASSUME NEW m \in Nat, m < n
      PROVE  g[m + 1] = IF m = 0 THEN ss[m + 1] ELSE g[m] \o ss[m + 1]
  <2>1. m + 1 \in 1..n /\ m + 1 \in 0..n /\ m \in 0..n /\ m + 1 # 0 /\ (m + 1) - 1 = m
    BY <1>6
  <2>2. f[m + 1] = IF m + 1 = 1 THEN ss[m + 1] ELSE f[(m + 1) - 1] \o ss[m + 1]
    BY <1>3, <2>1, Zenon DEF IsSums
  <2>3. g[m + 1] = f[m + 1] /\ g[m] = (IF m = 0 THEN << >> ELSE f[m])
    BY <1>4, <2>1, Zenon
  <2>4. m + 1 = 1 <=> m = 0
    OBVIOUS
  <2> QED
    BY <2>1, <2>2, <2>3, <2>4, Zenon
<1> DEFINE T == {m \in Nat : m <= n => g[m] \in Seq(S)}
<1>7. \A m \in 0..n : g[m] \in Seq(S)
  <2>1. 0 \in T
    BY <1>5, EmptySeq
  <2>2. ASSUME NEW m \in Nat, m < n, m \in T
        PROVE  m + 1 \in T
    <3>1. ss[m + 1] \in Seq(S) /\ g[m] \in Seq(S)
      BY <1>1, <2>2, ElementOfSeq
    <3>2. g[m] \o ss[m + 1] \in Seq(S)
      BY <3>1, ConcatProperties
    <3>3. g[m + 1] = ss[m + 1] \/ g[m + 1] = g[m] \o ss[m + 1]
      BY <1>6, <2>2
    <3>4. g[m + 1] \in Seq(S)
      BY <3>1, <3>2, <3>3, Zenon
    <3> QED
      BY <3>4
  <2> HIDE DEF T
  <2>3. \A m \in 0..n : m \in T
    BY <2>1, <2>2, UpTo
  <2> QED
    BY <2>3 DEF T
<1>8. PICK o : o = [i \in 0..n |-> Len(g[i])]
  OBVIOUS
<1>9. o \in [0..n -> Nat] /\ \A i \in 0..n : o[i] = Len(g[i])
  BY <1>7, <1>8
<1>10. \A i \in 1..n : ss[i] \in Seq(S)
  BY <1>1, ElementOfSeq
<1> DEFINE L == {m \in Nat : m <= n => LaidUpTo(g[m], ss, o, m)}
<1>11. \A m \in 0..n : LaidUpTo(g[m], ss, o, m)
  <2>1. 0 \in L
    BY <1>9 DEF LaidUpTo
  <2>2. ASSUME NEW m \in Nat, m < n, m \in L
        PROVE  m + 1 \in L
    <3>1. PICK w \in Seq(S), v \in Seq(S), x \in Seq(S) :
            w = g[m] /\ v = g[m + 1] /\ x = ss[m + 1]
      BY <1>7, <1>10, <2>2
    <3>2. JoinedAs(w, x, v)
      <4>1. CASE m = 0
        <5>1. w = << >> /\ v = x
          BY <1>5, <1>6, <2>2, <3>1, <4>1
        <5> QED
          BY <5>1 DEF JoinedAs
      <4>2. CASE m # 0
        <5>1. v = w \o x
          BY <1>6, <2>2, <3>1, <4>2
        <5> QED
          BY <5>1, Joined
      <4> QED
        BY <4>1, <4>2
    <3>3. o[m + 1] = Len(v) /\ LaidUpTo(w, ss, o, m)
      BY <1>9, <2>2, <3>1
    <3>4. LaidUpTo(v, ss, o, m + 1)
      BY <1>9, <1>10, <2>2, <3>1, <3>2, <3>3, OneMore
    <3> QED
      BY <3>1, <3>4
  <2> HIDE DEF L
  <2>3. \A m \in 0..n : m \in L
    BY <2>1, <2>2, UpTo
  <2> QED
    BY <2>3 DEF L
<1>12. PICK w \in Seq(S) : w = g[n] /\ LaidUpTo(w, ss, o, n)
  BY <1>7, <1>11
<1>13. FlattenSeq(ss) = w
  <2>1. CASE n = 0
    <3>1. ss = << >>
      BY <1>1, <2>1, EmptySeq
    <3> QED
      BY <1>1, <1>2, <1>5, <1>12, <2>1, <3>1
  <2>2. CASE n # 0
    BY <1>1, <1>2, <1>4, <1>12, <2>2
  <2> QED
    BY <2>1, <2>2
<1>14. Laid(w, ss, o)
  <2>1. o[0] = 0
    BY <1>5, <1>9
  <2> QED
    BY <1>1, <1>9, <1>12, <2>1, Zenon DEF Laid, LaidUpTo
<1> QED
  BY <1>12, <1>13, <1>14, Zenon

-----------------------------------------------------------------------------
(* UriEncode: what is escaped begins where the piece of its byte begins,   *)
(* and is read back.                                                       *)

\* What UriEncode makes of a byte.
Escape(c) == IF c \in Kept THEN <<c>>
             ELSE IF c = Space THEN <<Plus>>
             ELSE <<Percent, hexchar(c \div 16), hexchar(c % 16)>>

\* b can be read as c: one character, or '%' and two digits.
Shows(b, c) ==
  \/ Len(b) = 1 /\ b[1] # Percent /\ (IF b[1] = Plus THEN c = Space ELSE c = b[1])
  \/ /\ Len(b) = 3 /\ b[1] = Percent /\ b[2] # Percent /\ b[3] # Percent
     /\ Digit(b[2]) * 16 + Digit(b[3]) = c

LEMMA HexRead ==
  ASSUME NEW d \in 0..15
  PROVE  hexchar(d) \in Nat /\ hexchar(d) # Percent /\ Digit(hexchar(d)) = d
BY DEF hexchar, Digit, Percent

LEMMA EscapeShows ==
  ASSUME NEW c \in 0..255
  PROVE  Escape(c) \in Seq(Nat) /\ Shows(Escape(c), c)
<1>1. CASE c \in Kept
  <2>1. c # Percent /\ c # Plus
    BY <1>1 DEF Kept, Percent, Plus
  <2>2. Escape(c) = <<c>>
    BY <1>1 DEF Escape
  <2> QED
    BY <2>1, <2>2 DEF Shows
<1>2. CASE c \notin Kept /\ c = Space
  BY <1>2 DEF Escape, Shows, Plus, Percent, Space
<1>3. CASE c \notin Kept /\ c # Space
  <2>1. PICK x, y : x = hexchar(c \div 16) /\ y = hexchar(c % 16)
    OBVIOUS
  <2>2. c \div 16 \in 0..15 /\ c % 16 \in 0..15 /\ (c \div 16) * 16 + (c % 16) = c
    OBVIOUS
  <2>3. /\ x \in Nat /\ x # Percent /\ Digit(x) = c \div 16
        /\ y \in Nat /\ y # Percent /\ Digit(y) = c % 16
    BY <2>1, <2>2, HexRead
  <2>4. Escape(c) = <<Percent, x, y>>
    BY <1>3, <2>1, Zenon DEF Escape
  <2>5. PICK b : b = <<Percent, x, y>>
    OBVIOUS
  <2>6. b \in Seq(Nat) /\ Len(b) = 3 /\ b[1] = Percent /\ b[2] = x /\ b[3] = y
    BY <2>3, <2>5 DEF Percent
  <2>7. Shows(b, c)
    BY <2>2, <2>3, <2>6 DEF Shows
  <2> QED
    BY <2>4, <2>5, <2>6, <2>7
<1> QED
  BY <1>1, <1>2, <1>3

\* No '%' in the last two places up to k.
Clear(e, k) == \A j \in {k, k - 1} : j >= 1 => e[j] # Percent

\* e is s, escaped: the i-th byte stands behind place o[i - 1].
Escaped(e, s, ss, o) ==
  Laid(e, ss, o) /\ Len(ss) = Len(s) /\ \A i \in 1..Len(s) : Shows(ss[i], s[i])

\* Every byte begins behind two places without '%'.
LEMMA ClearBefore ==
  ASSUME NEW e \in Seq(Nat), NEW s \in Seq(0..255), NEW ss, NEW o, Escaped(e, s, ss, o)
  PROVE  \A i \in 0..Len(s) : Clear(e, o[i])
<1>1. PICK n \in Nat : n = Len(s)
  OBVIOUS
<1>2. /\ o \in [0..n -> Nat] /\ o[0] = 0
      /\ \A i \in 1..n : o[i] = o[i - 1] + Len(ss[i]) /\ \A j \in 1..Len(ss[i]) : e[o[i - 1] + j] = ss[i][j]
      /\ \A i \in 1..n : Shows(ss[i], s[i])
  BY <1>1, Zenon DEF Escaped, Laid
<1> DEFINE T == {m \in Nat : m <= n => Clear(e, o[m])}
<1>3. 0 \in T
  BY <1>2 DEF Clear
<1>4. ASSUME NEW m \in Nat, m < n, m \in T
      PROVE  m + 1 \in T
  <2>1. m + 1 \in 1..n /\ (m + 1) - 1 = m
    BY <1>4
  <2>0. PICK b : b = ss[m + 1]
    OBVIOUS
  <2>2. PICK p \in Nat, q \in Nat : b = ss[m + 1] /\ p = o[m] /\ q = o[m + 1]
    <3>1. m \in 0..n /\ m + 1 \in 0..n
      BY <1>4
    <3> QED
      BY <1>2, <2>0, <3>1
  <2>3. q = p + Len(b) /\ (\A j \in 1..Len(b) : e[p + j] = b[j]) /\ Shows(b, s[m + 1])
    BY <1>2, <2>1, <2>2
  <2>4. Clear(e, p)
    BY <1>4, <2>1, <2>2
  <2>5. CASE Len(b) = 1 /\ b[1] # Percent
    <3>1. q = p + 1 /\ e[p + 1] # Percent
      BY <2>3, <2>5
    <3>2. ASSUME NEW j \in {q, q - 1}, j >= 1
          PROVE  e[j] # Percent
      BY <2>4, <3>1, <3>2 DEF Clear
    <3> QED
      BY <2>2, <3>2 DEF Clear
  <2>6. CASE Len(b) = 3 /\ b[2] # Percent /\ b[3] # Percent
    <3>1. q = p + 3 /\ e[p + 2] # Percent /\ e[p + 3] # Percent
      BY <2>3, <2>6
    <3>2. ASSUME NEW j \in {q, q - 1}, j >= 1
          PROVE  e[j] # Percent
      BY <3>1, <3>2
    <3> QED
      BY <2>2, <3>2 DEF Clear
  <2> QED
    BY <2>3, <2>5, <2>6 DEF Shows
<1> HIDE DEF T
<1>5. \A i \in 0..n : i \in T
  BY <1>3, <1>4, UpTo
<1> QED
  BY <1>1, <1>5 DEF T

\* What UriDecode makes of the k-th character.
Begun(e, k) == \A j \in {k - 1, k - 2} \cap DOMAIN e : e[j] # Percent

Read(e, k) == IF ~Begun(e, k) THEN << >>
              ELSE IF e[k] = Percent THEN <<Digit(e[k + 1]) * 16 + Digit(e[k + 2])>>
              ELSE IF e[k] = Plus THEN <<Space>>
              ELSE <<e[k]>>

\* Where a byte begins it is read, and nothing else is.
LEMMA ReadsByte ==
  ASSUME NEW e \in Seq(Nat), NEW b, NEW c, NEW p \in Nat, p + Len(b) <= Len(e),
         \A j \in 1..Len(b) : e[p + j] = b[j], Shows(b, c), Clear(e, p)
  PROVE  /\ Read(e, p + 1) = <<c>>
         /\ Len(b) = 1 \/ (Len(b) = 3 /\ Read(e, p + 2) = << >> /\ Read(e, p + 3) = << >>)
<1>1. PICK l \in Nat : l = Len(e) /\ DOMAIN e = 1..l
  OBVIOUS
<1>2. Begun(e, p + 1)
  <2> SUFFICES ASSUME NEW j \in 1..l, j = p \/ j = p - 1
               PROVE  e[j] # Percent
    BY <1>1 DEF Begun
  <2> QED
    BY DEF Clear
<1>3. CASE Len(b) = 1 /\ b[1] # Percent /\ (IF b[1] = Plus THEN c = Space ELSE c = b[1])
  <2>1. e[p + 1] = b[1]
    BY <1>3
  <2> QED
    BY <1>2, <1>3, <2>1 DEF Read
<1>4. CASE /\ Len(b) = 3 /\ b[1] = Percent
           /\ Digit(b[2]) * 16 + Digit(b[3]) = c
  <2>1. /\ e[p + 1] = b[1] /\ e[p + 2] = b[2] /\ e[p + 3] = b[3]
        /\ p + 1 \in DOMAIN e
    BY <1>1, <1>4
  <2>2. (p + 1) + 1 = p + 2 /\ (p + 1) + 2 = p + 3
    OBVIOUS
  <2>3. Read(e, p + 1) = <<c>>
    BY <1>2, <1>4, <2>1, <2>2, Zenon DEF Read
  <2>4. (p + 2) - 1 = p + 1 /\ (p + 3) - 2 = p + 1
    OBVIOUS
  <2>5. ~Begun(e, p + 2) /\ ~Begun(e, p + 3)
    BY <1>4, <2>1, <2>4, Zenon DEF Begun
  <2> QED
    BY <1>4, <2>3, <2>5 DEF Read
<1> QED
  BY <1>3, <1>4 DEF Shows

\* The same text, place by place.
Same(d, s) == Len(d) = Len(s) /\ \A i \in 1..Len(s) : d[i] = s[i]

\* What is escaped is read back.
LEMMA EscapedRead ==
  ASSUME NEW e \in Seq(Nat), NEW s \in Seq(0..255), NEW ss, NEW o, Escaped(e, s, ss, o),
         NEW dd, dd = [k \in DOMAIN e |-> Read(e, k)], NEW V, NEW d \in Seq(V), NEW oo,
         Laid(d, dd, oo)
  PROVE  Same(d, s)
<1>1. PICK n \in Nat, l \in Nat : n = Len(s) /\ l = Len(e) /\ DOMAIN e = 1..l
  OBVIOUS
<1>2. /\ o \in [0..n -> Nat] /\ o[0] = 0 /\ o[n] = l
      /\ \A i \in 1..n : /\ o[i] = o[i - 1] + Len(ss[i]) /\ o[i] <= l
                         /\ \A j \in 1..Len(ss[i]) : e[o[i - 1] + j] = ss[i][j]
      /\ \A i \in 1..n : Shows(ss[i], s[i])
  BY <1>1, ZenonT(60) DEF Escaped, Laid
<1>3. Len(dd) = l /\ \A k \in 1..l : dd[k] = Read(e, k)
  BY <1>1
<1>4. /\ oo \in [0..l -> Nat] /\ oo[0] = 0 /\ oo[l] = Len(d)
      /\ \A k \in 1..l : /\ oo[k] = oo[k - 1] + Len(dd[k])
                         /\ \A j \in 1..Len(dd[k]) : d[oo[k - 1] + j] = dd[k][j]
  BY <1>3, Zenon DEF Laid
<1>5. ASSUME NEW m \in Nat, m < n
      PROVE  /\ o[m] \in Nat /\ o[m] + 1 <= l
             /\ Read(e, o[m] + 1) = <<s[m + 1]>>
             /\ oo[o[m + 1]] = oo[o[m]] + 1
  <2>1. m + 1 \in 1..n /\ (m + 1) - 1 = m /\ m \in 0..n /\ m + 1 \in 0..n
    BY <1>5
  <2>0. PICK b : b = ss[m + 1]
    OBVIOUS
  <2>00. PICK c : c = s[m + 1]
    OBVIOUS
  <2>2. PICK p \in Nat, q \in Nat : b = ss[m + 1] /\ c = s[m + 1] /\ p = o[m] /\ q = o[m + 1]
    BY <1>2, <2>0, <2>00, <2>1
  <2>3. q = p + Len(b) /\ q <= l /\ (\A j \in 1..Len(b) : e[p + j] = b[j]) /\ Shows(b, c)
    BY <1>2, <2>1, <2>2
  <2>4. Clear(e, p)
    BY <1>1, <2>1, <2>2, ClearBefore
  <2>5. /\ Read(e, p + 1) = <<c>>
        /\ Len(b) = 1 \/ (Len(b) = 3 /\ Read(e, p + 2) = << >> /\ Read(e, p + 3) = << >>)
    BY <1>1, <2>3, <2>4, ReadsByte
  <2>30. p + 1 \in 1..l /\ (p + 1) - 1 = p /\ p \in 0..l
    <3>0. Len(b) = 1 \/ Len(b) = 3
      BY <2>5
    <3>1. PICK k \in Nat : k = Len(b) /\ k >= 1
      <4>1. CASE Len(b) = 1
        BY <4>1
      <4>2. CASE Len(b) = 3
        BY <4>2
      <4> QED
        BY <3>0, <4>1, <4>2
    <3>2. q = p + k /\ q <= l
      BY <2>3, <3>1
    <3> QED
      BY <3>1, <3>2
  <2>6. PICK r \in Nat : r = oo[p]
    BY <1>4, <2>30
  <2>7. p + 1 <= l /\ oo[p + 1] = r + 1
    <3>1. dd[p + 1] = <<c>>
      BY <1>3, <2>5, <2>30
    <3>2. oo[p + 1] = oo[p] + Len(dd[p + 1])
      BY <1>4, <2>30, Zenon
    <3>3. Len(<<c>>) = 1
      OBVIOUS
    <3> QED
      BY <2>6, <2>30, <3>1, <3>2, <3>3
  <2>8. oo[q] = r + 1
    <3>1. CASE Len(b) = 1
      BY <2>3, <2>7, <3>1
    <3>2. CASE Len(b) = 3 /\ Read(e, p + 2) = << >> /\ Read(e, p + 3) = << >>
      <4>1. p + 2 \in 1..l /\ p + 3 \in 1..l /\ (p + 2) - 1 = p + 1 /\ (p + 3) - 1 = p + 2 /\ q = p + 3
        BY <2>3, <3>2
      <4>2. dd[p + 2] = << >> /\ dd[p + 3] = << >>
        BY <1>3, <3>2, <4>1
      <4>3. oo[p + 2] = oo[p + 1] + 0 /\ oo[p + 3] = oo[p + 2] + 0
        BY <1>4, <4>1, <4>2
      <4> QED
        BY <2>7, <4>1, <4>3
    <3> QED
      BY <2>5, <3>1, <3>2
  <2> QED
    BY <2>2, <2>5, <2>6, <2>7, <2>8
<1> DEFINE T == {m \in Nat : m <= n => oo[o[m]] = m}
<1>6. 0 \in T
  BY <1>2, <1>4
<1>7. ASSUME NEW m \in Nat, m < n, m \in T
      PROVE  m + 1 \in T
  BY <1>5, <1>7
<1> HIDE DEF T
<1>8. \A m \in 0..n : m \in T
  BY <1>6, <1>7, UpTo
<1>9. \A m \in 0..n : oo[o[m]] = m
  BY <1>8 DEF T
<1>10. Len(d) = n
  BY <1>2, <1>4, <1>9
<1>11. ASSUME NEW i \in 1..n
       PROVE  d[i] = s[i]
  <2>1. PICK m \in Nat : m + 1 = i /\ m < n /\ m \in 0..n
    <3>1. i - 1 \in Nat /\ (i - 1) + 1 = i /\ i - 1 < n /\ i - 1 \in 0..n
      OBVIOUS
    <3> QED
      BY <3>1
  <2>2. PICK p \in Nat : p = o[m] /\ p + 1 <= l /\ Read(e, p + 1) = <<s[i]>>
    BY <1>5, <2>1
  <2>3. p + 1 \in 1..l /\ (p + 1) - 1 = p
    BY <2>2
  <2>4. dd[p + 1] = <<s[i]>>
    BY <1>3, <2>2, <2>3
  <2>5. d[oo[p] + 1] = s[i]
    <3>1. \A j \in 1..Len(dd[p + 1]) : d[oo[p] + j] = dd[p + 1][j]
      BY <1>4, <2>3, ZenonT(60)
    <3>2. PICK c : c = s[i] /\ dd[p + 1] = <<c>>
      BY <2>4
    <3>3. Len(<<c>>) = 1 /\ <<c>>[1] = c /\ 1 \in 1..1
      OBVIOUS
    <3> QED
      BY <3>1, <3>2, <3>3, Zenon
  <2>6. oo[p] = m
    BY <1>9, <2>1, <2>2
  <2> QED
    BY <2>1, <2>5, <2>6
<1> QED
  BY <1>1, <1>10, <1>11 DEF Same

\* UriEncode loses nothing.
LEMMA UriKeeps ==
  ASSUME NEW s \in Seq(0..255)
  PROVE  UriDecode(UriEncode(s)) = s
<1>1. PICK n \in Nat : n = Len(s) /\ DOMAIN s = 1..n
  OBVIOUS
<1>2. PICK ss : ss = [k \in DOMAIN s |-> Escape(s[k])]
  OBVIOUS
<1>3. \A k \in 1..n : ss[k] \in Seq(Nat) /\ Shows(ss[k], s[k])
  <2>1. \A k \in 1..n : s[k] \in 0..255
    BY <1>1, ElementOfSeq
  <2> QED
    BY <1>1, <1>2, <2>1, EscapeShows
<1>4. ss \in Seq(Seq(Nat)) /\ Len(ss) = n
  <2>1. ss \in [1..n -> Seq(Nat)]
    BY <1>1, <1>2, <1>3
  <2> QED
    BY <2>1
<1>5. PICK e, o : e = FlattenSeq(ss) /\ e \in Seq(Nat) /\ Laid(e, ss, o)
  BY <1>4, FlatLaid
<1>6. UriEncode(s) = e
  BY <1>2, <1>5, Zenon DEF UriEncode, Escape
<1>7. Escaped(e, s, ss, o)
  BY <1>1, <1>3, <1>4, <1>5 DEF Escaped
<1>8. PICK dd : dd = [k \in DOMAIN e |-> Read(e, k)]
  OBVIOUS
<1> DEFINE V == {dd[k][1] : k \in DOMAIN e}
<1>9. PICK l \in Nat : l = Len(e) /\ DOMAIN e = 1..l
  BY <1>5
<1>10. ASSUME NEW k \in 1..l
       PROVE  dd[k] \in Seq(V)
  <2>1. dd[k] = << >> \/ \E x : dd[k] = <<x>>
    BY <1>8, <1>9 DEF Read
  <2>2. CASE dd[k] = << >>
    BY <2>2, EmptySeq
  <2>3. CASE \E x : dd[k] = <<x>>
    <3>1. PICK x : dd[k] = <<x>>
      BY <2>3
    <3>2. dd[k][1] = x
      BY <3>1
    <3>3. x \in V
      BY <1>9, <3>2
    <3> QED
      BY <3>1, <3>3
  <2> QED
    BY <2>1, <2>2, <2>3
<1> HIDE DEF V
<1>11. dd \in Seq(Seq(V))
  <2>1. dd \in [1..l -> Seq(V)]
    BY <1>8, <1>9, <1>10
  <2> QED
    BY <2>1
<1>12. PICK d, oo : d = FlattenSeq(dd) /\ d \in Seq(V) /\ Laid(d, dd, oo)
  BY <1>11, FlatLaid
<1>13. UriDecode(e) = d
  BY <1>8, <1>12, Zenon DEF UriDecode, Read, Begun
<1>14. Same(d, s)
  BY <1>5, <1>7, <1>8, <1>12, EscapedRead
<1>15. d = s
  <2>1. V \subseteq V \cup (0..255) /\ 0..255 \subseteq V \cup (0..255)
    OBVIOUS
  <2>2. d \in Seq(V \cup (0..255)) /\ s \in Seq(V \cup (0..255))
    BY <1>12, <2>1, SeqMonotonic
  <2> QED
    BY <1>14, <2>2, SeqEqual DEF Same
<1> QED
  BY <1>6, <1>13, <1>15

-----------------------------------------------------------------------------
(* base64: groups of three and four, and the bits they share.              *)

\* t is s without its first m, up to place n.
Slice(t, s, m, n) == Len(t) = n - m /\ \A i \in 1..n - m : t[i] = s[m + i]

\* substr.
LEMMA SliceAt ==
  ASSUME NEW S, NEW s \in Seq(S), NEW m \in Nat, NEW n \in Nat, m <= n, n <= Len(s)
  PROVE  SubSeq(s, m + 1, n) \in Seq(S) /\ Slice(SubSeq(s, m + 1, n), s, m, n)
<1>1. PICK l \in Int, a \in Nat : l = m + 1 /\ a = Len(s)
  OBVIOUS
<1>2. \A j \in l..n : s[j] \in S
  BY <1>1, ElementOfSeq
<1>3. PICK t : t = SubSeq(s, l, n)
  OBVIOUS
<1>4. /\ t \in Seq(S)
      /\ Len(t) = IF l <= n THEN n - l + 1 ELSE 0
      /\ \A i \in 1..n - l + 1 : t[i] = s[l + i - 1]
  BY <1>2, <1>3, SubSeqProperties
<1>5. Len(t) = n - m
  BY <1>1, <1>4
<1>6. ASSUME NEW i \in 1..n - m
      PROVE  t[i] = s[m + i]
  <2>1. i \in 1..n - l + 1 /\ l + i - 1 = m + i
    BY <1>1
  <2> QED
    BY <1>4, <2>1, Zenon
<1> QED
  BY <1>1, <1>3, <1>4, <1>5, <1>6 DEF Slice

\* w is pieces of b elements each.
Blocks(w, ss, b) ==
  Len(w) = b * Len(ss) /\ \A i \in 1..Len(ss), j \in 1..b : w[b * (i - 1) + j] = ss[i][j]

\* What FlattenSeq makes of pieces of three or four.
LEMMA FlatBlocks ==
  ASSUME NEW S, NEW ss \in Seq(Seq(S)), NEW b \in {3, 4}, \A i \in 1..Len(ss) : Len(ss[i]) = b
  PROVE  FlattenSeq(ss) \in Seq(S) /\ Blocks(FlattenSeq(ss), ss, b)
<1>1. PICK n \in Nat : n = Len(ss)
  OBVIOUS
<1>2. PICK w, o : w = FlattenSeq(ss) /\ w \in Seq(S) /\ Laid(w, ss, o)
  BY FlatLaid
<1>3. /\ o \in [0..n -> Nat] /\ o[0] = 0 /\ o[n] = Len(w)
      /\ \A i \in 1..n : /\ o[i] = o[i - 1] + b
                         /\ \A j \in 1..b : w[o[i - 1] + j] = ss[i][j]
  BY <1>1, <1>2 DEF Laid
<1> DEFINE T == {m \in Nat : m <= n => o[m] = b * m}
<1>4. 0 \in T
  BY <1>3
<1>5. ASSUME NEW m \in Nat, m < n, m \in T
      PROVE  m + 1 \in T
  <2>1. o[m] = b * m /\ o[m + 1] = o[m] + b
    <3>1. m + 1 \in 1..n /\ (m + 1) - 1 = m
      BY <1>5
    <3> QED
      BY <1>3, <1>5, <3>1
  <2>2. b * m + b = b * (m + 1)
    <3>1. CASE b = 3
      BY <3>1
    <3>2. CASE b = 4
      BY <3>2
    <3> QED
      BY <3>1, <3>2
  <2> QED
    BY <2>1, <2>2
<1> HIDE DEF T
<1>6. \A m \in 0..n : m \in T
  BY <1>4, <1>5, UpTo
<1>7. \A m \in 0..n : o[m] = b * m
  BY <1>6 DEF T
<1>8. ASSUME NEW i \in 1..n, NEW j \in 1..b
      PROVE  w[b * (i - 1) + j] = ss[i][j]
  <2>1. i - 1 \in 0..n
    OBVIOUS
  <2> QED
    BY <1>3, <1>7, <2>1
<1>9. Len(w) = b * n
  BY <1>3, <1>7
<1> QED
  BY <1>1, <1>2, <1>8, <1>9 DEF Blocks

\* The bits of three bytes, and of their first one or two.
LEMMA FirstByte ==
  ASSUME NEW a \in 0..255, NEW y \in 0..15
  PROVE  /\ a \div 4 \in 0..63 /\ (a % 4) * 16 + y \in 0..63
         /\ ((a \div 4) * 4 + ((((a % 4) * 16 + y) \div 16) % 4)) % 256 = a
<1>1. PICK h \in 0..63, l \in 0..3 : h = a \div 4 /\ l = a % 4 /\ a = 4 * h + l
  OBVIOUS
<1>2. l * 16 + y \in 0..63 /\ (l * 16 + y) \div 16 = l /\ l % 4 = l
  OBVIOUS
<1>3. (h * 4 + l) % 256 = a
  BY <1>1
<1> QED
  BY <1>1, <1>2, <1>3

LEMMA SecondByte ==
  ASSUME NEW b \in 0..255, NEW x \in 0..3, NEW z \in 0..3
  PROVE  /\ b \div 16 \in 0..15 /\ (b % 16) * 4 + z \in 0..63
         /\ (((x * 16 + (b \div 16)) % 16) * 16 + ((((b % 16) * 4 + z) \div 4) % 16)) % 256 = b
<1>1. PICK h \in 0..15, l \in 0..15 : h = b \div 16 /\ l = b % 16 /\ b = 16 * h + l
  OBVIOUS
<1>2. l * 4 + z \in 0..63 /\ (l * 4 + z) \div 4 = l /\ l % 16 = l /\ (x * 16 + h) % 16 = h
  OBVIOUS
<1>3. (h * 16 + l) % 256 = b
  BY <1>1
<1> QED
  BY <1>1, <1>2, <1>3

LEMMA ThirdByte ==
  ASSUME NEW c \in 0..255, NEW x \in 0..15
  PROVE  /\ c \div 64 \in 0..3 /\ c % 64 \in 0..63
         /\ (((x * 4 + (c \div 64)) % 4) * 64 + (c % 64)) % 256 = c
<1>1. PICK h \in 0..3, l \in 0..63 : h = c \div 64 /\ l = c % 64 /\ c = 64 * h + l
  OBVIOUS
<1>2. (x * 4 + h) % 4 = h
  OBVIOUS
<1>3. (h * 64 + l) % 256 = c
  BY <1>1
<1> QED
  BY <1>1, <1>2, <1>3

\* What Quad makes of b, and Triple of that.
Splits(q, a, b, c) ==
  /\ Len(q) = 4 /\ q[1] = a \div 4 /\ q[2] = (a % 4) * 16 + (b \div 16)
  /\ q[3] = (b % 16) * 4 + (c \div 64) /\ q[4] = c % 64

Joins(t, q) ==
  /\ Len(t) = 3 /\ t[1] = (q[1] * 4 + ((q[2] \div 16) % 4)) % 256
  /\ t[2] = ((q[2] % 16) * 16 + ((q[3] \div 4) % 16)) % 256
  /\ t[3] = ((q[3] % 4) * 64 + q[4]) % 256

LEMMA QuadSplits ==
  ASSUME NEW b, b[1] \in 0..255, b[2] \in 0..255, b[3] \in 0..255
  PROVE  /\ Quad(b) \in Seq(0..63) /\ Splits(Quad(b), b[1], b[2], b[3])
<1>1. PICK x \in 0..255, y \in 0..255, z \in 0..255 : x = b[1] /\ y = b[2] /\ z = b[3]
  OBVIOUS
<1>2. PICK p \in 0..63, q \in 0..63, r \in 0..63, s \in 0..63 :
        /\ p = x \div 4 /\ q = (x % 4) * 16 + (y \div 16)
        /\ r = (y % 16) * 4 + (z \div 64) /\ s = z % 64
  <2>1. y \div 16 \in 0..15 /\ z \div 64 \in 0..3
    OBVIOUS
  <2>2. /\ x \div 4 \in 0..63 /\ (x % 4) * 16 + (y \div 16) \in 0..63
        /\ (y % 16) * 4 + (z \div 64) \in 0..63 /\ z % 64 \in 0..63
    <3>1. PICK k \in 0..15, l \in 0..3 : k = y \div 16 /\ l = z \div 64
      BY <2>1
    <3> QED
      BY <3>1
  <2> QED
    BY <2>2
<1>3. Quad(b) = <<p, q, r, s>>
  BY <1>1, <1>2 DEF Quad
<1>4. PICK t : t = <<p, q, r, s>>
  OBVIOUS
<1>5. t \in Seq(0..63) /\ Len(t) = 4 /\ t[1] = p /\ t[2] = q /\ t[3] = r /\ t[4] = s
  BY <1>4
<1>6. Splits(t, x, y, z)
  BY <1>2, <1>5 DEF Splits
<1> QED
  BY <1>1, <1>3, <1>4, <1>5, <1>6

LEMMA TripleJoins ==
  ASSUME NEW q, q[1] \in Nat, q[2] \in Nat, q[3] \in Nat, q[4] \in Nat
  PROVE  Triple(q) \in Seq(0..255) /\ Joins(Triple(q), q)
<1>1. PICK x \in 0..255, y \in 0..255, z \in 0..255 :
        /\ x = (q[1] * 4 + ((q[2] \div 16) % 4)) % 256
        /\ y = ((q[2] % 16) * 16 + ((q[3] \div 4) % 16)) % 256
        /\ z = ((q[3] % 4) * 64 + q[4]) % 256
  <2>1. PICK u \in Nat, v \in Nat, w \in Nat, k \in Nat :
          u = q[1] /\ v = q[2] /\ w = q[3] /\ k = q[4]
    OBVIOUS
  <2>2. PICK f \in Nat, g \in Nat, h \in Nat :
          /\ f = u * 4 + ((v \div 16) % 4)
          /\ g = (v % 16) * 16 + ((w \div 4) % 16)
          /\ h = (w % 4) * 64 + k
    OBVIOUS
  <2>3. f % 256 \in 0..255 /\ g % 256 \in 0..255 /\ h % 256 \in 0..255
    OBVIOUS
  <2> QED
    BY <2>1, <2>2, <2>3
<1>2. Triple(q) = <<x, y, z>>
  BY <1>1, Zenon DEF Triple
<1>3. PICK t : t = <<x, y, z>>
  OBVIOUS
<1>4. t \in Seq(0..255) /\ Len(t) = 3 /\ t[1] = x /\ t[2] = y /\ t[3] = z
  BY <1>3
<1>5. Joins(t, q)
  BY <1>1, <1>4, Zenon DEF Joins
<1> QED
  BY <1>2, <1>3, <1>4, <1>5

\* The encoding of s, that is n times three bytes and t more, place by place.
Encodes(e, s, n, t) ==
  /\ Len(e) = IF t = 0 THEN 4 * n ELSE 4 * n + 4
  /\ \A i \in 0..n - 1 :
       /\ e[4 * i + 1] = s[3 * i + 1] \div 4
       /\ e[4 * i + 2] = (s[3 * i + 1] % 4) * 16 + (s[3 * i + 2] \div 16)
       /\ e[4 * i + 3] = (s[3 * i + 2] % 16) * 4 + (s[3 * i + 3] \div 64)
       /\ e[4 * i + 4] = s[3 * i + 3] % 64
  /\ t = 1 => /\ e[4 * n + 1] = s[3 * n + 1] \div 4
              /\ e[4 * n + 2] = (s[3 * n + 1] % 4) * 16
              /\ e[4 * n + 3] = Pad /\ e[4 * n + 4] = Pad
  /\ t = 2 => /\ e[4 * n + 1] = s[3 * n + 1] \div 4
              /\ e[4 * n + 2] = (s[3 * n + 1] % 4) * 16 + (s[3 * n + 2] \div 16)
              /\ e[4 * n + 3] = (s[3 * n + 2] % 16) * 4
              /\ e[4 * n + 4] = Pad

\* t is the g-th group of b elements of s, which are of S.
IsGroup(t, s, b, g, S) ==
  Len(t) = b /\ \A i \in 1..b : t[i] = s[b * (g - 1) + i] /\ s[b * (g - 1) + i] \in S

\* The groups of s.
LEMMA GroupAt ==
  ASSUME NEW S, NEW s \in Seq(S), NEW b \in {3, 4}, NEW n \in Nat, b * n <= Len(s), NEW g \in 1..n
  PROVE  Group(s, b, g) \in Seq(S) /\ IsGroup(Group(s, b, g), s, b, g, S)
<1>1. PICK m \in Nat, l \in Nat : m = b * (g - 1) /\ l = b * g /\ l = m + b /\ l <= Len(s)
  <2>1. CASE b = 3
    BY <2>1
  <2>2. CASE b = 4
    BY <2>2
  <2> QED
    BY <2>1, <2>2
<1>2. PICK t : t = SubSeq(s, m + 1, l) /\ t = Group(s, b, g)
  BY <1>1, Zenon DEF Group
<1>3. t \in Seq(S) /\ Slice(t, s, m, l)
  <2>1. m <= l
    BY <1>1
  <2>2. SubSeq(s, m + 1, l) \in Seq(S) /\ Slice(SubSeq(s, m + 1, l), s, m, l)
    BY <1>1, <2>1, SliceAt
  <2> QED
    BY <1>2, <2>2, Zenon
<1>4. l - m = b
  BY <1>1
<1>5. Len(t) = b /\ \A i \in 1..b : t[i] = s[m + i]
  BY <1>3, <1>4, Zenon DEF Slice
<1>6. \A i \in 1..b : t[i] \in S
  BY <1>3, <1>5, ElementOfSeq
<1> QED
  BY <1>1, <1>2, <1>3, <1>5, <1>6 DEF IsGroup

\* r is the t elements of s behind n groups of b.
IsRest(r, s, b, n, t) == Len(r) = t /\ \A i \in 1..t : r[i] = s[b * n + i]

\* What is left over of s.
LEMMA LeftOverAt ==
  ASSUME NEW S, NEW s \in Seq(S), NEW b \in {3, 4}, NEW n \in Nat, NEW t \in 0..b - 1,
         Len(s) = b * n + t
  PROVE  /\ Len(s) \div b = n
         /\ LeftOver(s, b) \in Seq(S) /\ IsRest(LeftOver(s, b), s, b, n, t)
<1>1. Len(s) \div b = n
  <2>1. CASE b = 3
    BY <2>1
  <2>2. CASE b = 4
    BY <2>2
  <2> QED
    BY <2>1, <2>2
<1>2. PICK m \in Nat, l \in Nat : m = b * n /\ l = Len(s) /\ l = m + t
  <2>1. CASE b = 3
    BY <2>1
  <2>2. CASE b = 4
    BY <2>2
  <2> QED
    BY <2>1, <2>2
<1>3. PICK r : r = SubSeq(s, m + 1, l) /\ r = LeftOver(s, b)
  BY <1>1, <1>2, Zenon DEF LeftOver
<1>4. r \in Seq(S) /\ Slice(r, s, m, l)
  BY <1>2, <1>3, SliceAt
<1>5. l - m = t
  BY <1>2
<1>6. Len(r) = t /\ \A i \in 1..t : r[i] = s[m + i]
  BY <1>4, <1>5, Zenon DEF Slice
<1> QED
  BY <1>1, <1>2, <1>3, <1>4, <1>6 DEF IsRest

\* f is s, filled up to n with x.
Filled(f, s, n, x) == Len(f) = n /\ \A j \in 1..n : f[j] = IF j <= Len(s) THEN s[j] ELSE x

\* Filled up to n.
LEMMA FilledAt ==
  ASSUME NEW S, NEW s \in Seq(S), NEW n \in Nat, NEW x \in S
  PROVE  FillUp(s, n, x) \in Seq(S) /\ Filled(FillUp(s, n, x), s, n, x)
<1>1. PICK l \in Nat : l = Len(s)
  OBVIOUS
<1>2. PICK f : f = FillUp(s, n, x) /\ f = [j \in 1..n |-> IF j <= l THEN s[j] ELSE x]
  BY <1>1, Zenon DEF FillUp
<1>3. \A j \in 1..n : (IF j <= l THEN s[j] ELSE x) \in S
  BY <1>1, ElementOfSeq
<1>4. f \in [1..n -> S]
  BY <1>2, <1>3
<1> QED
  BY <1>1, <1>2, <1>4 DEF Filled

-----------------------------------------------------------------------------
(* base64_encode, place by place.                                          *)

\* w is n groups of s, encoded, and u the t bytes of r.
EncodesGroups(w, s, n) ==
  /\ Len(w) = 4 * n
  /\ \A i \in 0..n - 1 : /\ w[4 * i + 1] = s[3 * i + 1] \div 4
                         /\ w[4 * i + 2] = (s[3 * i + 1] % 4) * 16 + (s[3 * i + 2] \div 16)
                         /\ w[4 * i + 3] = (s[3 * i + 2] % 16) * 4 + (s[3 * i + 3] \div 64)
                         /\ w[4 * i + 4] = s[3 * i + 3] % 64

EncodesRest(u, r, t) ==
  /\ Len(u) = 4 /\ u[1] = r[1] \div 4
  /\ t = 1 => u[2] = (r[1] % 4) * 16 /\ u[3] = Pad /\ u[4] = Pad
  /\ t = 2 => u[2] = (r[1] % 4) * 16 + (r[2] \div 16) /\ u[3] = (r[2] % 16) * 4 /\ u[4] = Pad

\* The groups of s, encoded.
LEMMA QuadsLaid ==
  ASSUME NEW s \in Seq(0..255), NEW n \in Nat, 3 * n <= Len(s)
  PROVE  \E w \in Seq(0..63) :
            w = FlattenSeq([g \in 1..n |-> Quad(Group(s, 3, g))]) /\ EncodesGroups(w, s, n)
<1>1. PICK ss : ss = [g \in 1..n |-> Quad(Group(s, 3, g))]
  OBVIOUS
<1>2. ASSUME NEW g \in 1..n
      PROVE  /\ ss[g] \in Seq(0..63)
             /\ Splits(ss[g], s[3 * (g - 1) + 1], s[3 * (g - 1) + 2], s[3 * (g - 1) + 3])
  <2>1. PICK b : b = Group(s, 3, g)
    OBVIOUS
  <2>2. IsGroup(b, s, 3, g, 0..255)
    BY <2>1, GroupAt
  <2>3. /\ b[1] = s[3 * (g - 1) + 1] /\ b[2] = s[3 * (g - 1) + 2] /\ b[3] = s[3 * (g - 1) + 3]
        /\ b[1] \in 0..255 /\ b[2] \in 0..255 /\ b[3] \in 0..255
    <3>1. PICK k \in Int : k = 3 * (g - 1)
      OBVIOUS
    <3>2. \A i \in 1..3 : b[i] = s[k + i] /\ s[k + i] \in 0..255
      BY <2>2, <3>1 DEF IsGroup
    <3>3. 1 \in 1..3 /\ 2 \in 1..3 /\ 3 \in 1..3
      OBVIOUS
    <3>4. /\ b[1] = s[k + 1] /\ s[k + 1] \in 0..255 /\ b[2] = s[k + 2] /\ s[k + 2] \in 0..255
          /\ b[3] = s[k + 3] /\ s[k + 3] \in 0..255
      BY <3>2, <3>3, Zenon
    <3> QED
      BY <3>1, <3>4, Zenon
  <2>4. ss[g] = Quad(b)
    BY <1>1, <2>1
  <2>5. Quad(b) \in Seq(0..63) /\ Splits(Quad(b), b[1], b[2], b[3])
    BY <2>3, QuadSplits
  <2> QED
    BY <2>3, <2>4, <2>5, Zenon
<1>3. ss \in Seq(Seq(0..63)) /\ Len(ss) = n
  <2>1. ss \in [1..n -> Seq(0..63)]
    BY <1>1, <1>2
  <2> QED
    BY <2>1
<1>4. \A g \in 1..Len(ss) : Len(ss[g]) = 4
  BY <1>2, <1>3 DEF Splits
<1>5. PICK w \in Seq(0..63) : w = FlattenSeq(ss) /\ Blocks(w, ss, 4)
  BY <1>3, <1>4, FlatBlocks
<1>6. ASSUME NEW i \in 0..n - 1
      PROVE  /\ w[4 * i + 1] = s[3 * i + 1] \div 4
             /\ w[4 * i + 2] = (s[3 * i + 1] % 4) * 16 + (s[3 * i + 2] \div 16)
             /\ w[4 * i + 3] = (s[3 * i + 2] % 16) * 4 + (s[3 * i + 3] \div 64)
             /\ w[4 * i + 4] = s[3 * i + 3] % 64
  <2>1. PICK g \in 1..n : g - 1 = i
    <3>1. i + 1 \in 1..n /\ (i + 1) - 1 = i
      OBVIOUS
    <3> QED
      BY <3>1
  <2>2. \A j \in 1..4 : w[4 * (g - 1) + j] = ss[g][j]
    BY <1>3, <1>5 DEF Blocks
  <2>3. \A j \in 1..4 : w[4 * i + j] = ss[g][j]
    BY <2>1, <2>2
  <2>4. Splits(ss[g], s[3 * i + 1], s[3 * i + 2], s[3 * i + 3])
    BY <1>2, <2>1
  <2> QED
    BY <2>3, <2>4 DEF Splits
<1>7. Len(w) = 4 * n
  BY <1>3, <1>5 DEF Blocks
<1> QED
  BY <1>1, <1>5, <1>6, <1>7 DEF EncodesGroups

\* What is left over, encoded.
LEMMA RestEncoded ==
  ASSUME NEW r \in Seq(0..255), NEW t \in {1, 2}, Len(r) = t
  PROVE  \E u \in Seq(0..64) :
           /\ u = FillUp(SubSeq(Quad(FillUp(r, 3, 0)), 1, t + 1), 4, Pad) /\ EncodesRest(u, r, t)
<1>1. PICK f \in Seq(0..255) : f = FillUp(r, 3, 0) /\ Filled(f, r, 3, 0)
  <2>1. 0 \in 0..255
    OBVIOUS
  <2> QED
    BY <2>1, FilledAt
<1>2. PICK x \in 0..255, y \in 0..255 :
        /\ x = r[1] /\ y = (IF t = 2 THEN r[2] ELSE 0)
        /\ f[1] = x /\ f[2] = y /\ f[3] = 0
  <2>1. r[1] \in 0..255 /\ (t = 2 => r[2] \in 0..255)
    <3>1. \A j \in 1..t : r[j] \in 0..255
      BY ElementOfSeq
    <3> QED
      BY <3>1
  <2>2. \A j \in 1..3 : f[j] = IF j <= t THEN r[j] ELSE 0
    BY <1>1 DEF Filled
  <2>3. f[1] = r[1] /\ f[2] = (IF t = 2 THEN r[2] ELSE 0) /\ f[3] = 0
    BY <2>2
  <2>4. (IF t = 2 THEN r[2] ELSE 0) \in 0..255
    <3>1. CASE t = 2
      BY <2>1, <3>1
    <3>2. CASE t # 2
      BY <3>2
    <3> QED
      BY <3>1, <3>2
  <2> QED
    BY <2>1, <2>3, <2>4, Zenon
<1>3. PICK q \in Seq(0..63) : q = Quad(f) /\ Splits(q, x, y, 0)
  <2>1. f[1] \in 0..255 /\ f[2] \in 0..255 /\ f[3] \in 0..255
    BY <1>2
  <2>2. Quad(f) \in Seq(0..63) /\ Splits(Quad(f), f[1], f[2], f[3])
    BY <2>1, QuadSplits
  <2> QED
    BY <1>2, <2>2
<1>4. /\ Len(q) = 4 /\ q[1] = x \div 4 /\ q[2] = (x % 4) * 16 + (y \div 16)
      /\ q[3] = (y % 16) * 4
  BY <1>3 DEF Splits
<1>5. q \in Seq(0..64)
  <2>1. 0..63 \subseteq 0..64
    OBVIOUS
  <2> QED
    BY <2>1, SeqMonotonic
<1>6. PICK k \in Nat : k = t + 1 /\ k \in 0..Len(q)
  BY <1>4
<1>7. PICK h \in Seq(0..64) : h = SubSeq(q, 1, k) /\ Begins(h, q, k)
  BY <1>5, <1>6, BeginAt
<1>8. Len(h) = t + 1 /\ \A j \in 1..t + 1 : h[j] = q[j]
  BY <1>6, <1>7 DEF Begins
<1>9. PICK u \in Seq(0..64) : u = FillUp(h, 4, Pad) /\ Filled(u, h, 4, Pad)
  <2>1. Pad \in 0..64
    BY DEF Pad
  <2> QED
    BY <2>1, FilledAt
<1>10. u = FillUp(SubSeq(Quad(FillUp(r, 3, 0)), 1, t + 1), 4, Pad)
  BY <1>1, <1>3, <1>6, <1>7, <1>9
<1>11. u[1] = q[1] /\ u[2] = q[2] /\ u[4] = Pad /\ u[3] = IF t = 2 THEN q[3] ELSE Pad
  BY <1>8, <1>9 DEF Filled
<1>12. CASE t = 1
  <2>1. y \div 16 = 0
    BY <1>2, <1>12
  <2>2. EncodesRest(u, r, t)
    BY <1>2, <1>4, <1>9, <1>11, <1>12, <2>1 DEF Filled, EncodesRest
  <2> QED
    BY <1>10, <2>2
<1>13. CASE t = 2
  <2>1. EncodesRest(u, r, t)
    BY <1>2, <1>4, <1>9, <1>11, <1>13 DEF Filled, EncodesRest
  <2> QED
    BY <1>10, <2>1
<1> QED
  BY <1>12, <1>13

\* What base64_encode does.
LEMMA EncodeAt ==
  ASSUME NEW s \in Seq(0..255), NEW n \in Nat, NEW t \in 0..2, Len(s) = 3 * n + t
  PROVE  base64_encode(s) \in Seq(0..64) /\ Encodes(base64_encode(s), s, n, t)
<1>1. PICK r \in Seq(0..255) : r = LeftOver(s, 3) /\ IsRest(r, s, 3, n, t)
  <2>1. t \in 0..3 - 1 /\ 3 \in {3, 4}
    OBVIOUS
  <2> QED
    BY <2>1, LeftOverAt
<1>10. Len(r) = t /\ \A i \in 1..t : r[i] = s[3 * n + i]
  BY <1>1 DEF IsRest
<1>2. Len(s) \div 3 = n
  OBVIOUS
<1>3. PICK w \in Seq(0..63) :
           w = FlattenSeq([g \in 1..n |-> Quad(Group(s, 3, g))]) /\ EncodesGroups(w, s, n)
  <2>1. 3 * n <= Len(s)
    OBVIOUS
  <2> QED
    BY <2>1, QuadsLaid
<1>4. w \in Seq(0..64)
  <2>1. 0..63 \subseteq 0..64
    OBVIOUS
  <2> QED
    BY <2>1, SeqMonotonic
<1>5. CASE t = 0
  <2>1. r = << >>
    BY <1>5, <1>10, EmptySeq
  <2>2. base64_encode(s) = w \o << >>
    BY <1>1, <1>2, <1>3, <2>1, Zenon DEF base64_encode
  <2>3. base64_encode(s) = w
    BY <1>4, <2>2, ConcatEmptySeq
  <2> QED
    BY <1>3, <1>4, <1>5, <2>3 DEF Encodes, EncodesGroups
<1>6. CASE t \in {1, 2}
  <2>1. PICK u \in Seq(0..64) :
           /\ u = FillUp(SubSeq(Quad(FillUp(r, 3, 0)), 1, t + 1), 4, Pad) /\ EncodesRest(u, r, t)
    BY <1>6, <1>10, RestEncoded
  <2>2. r # << >>
    BY <1>6, <1>10
  <2>3. PICK e \in Seq(0..64) : e = w \o u /\ JoinedAs(w, u, e)
    BY <1>4, Joined
  <2>4. base64_encode(s) = e
    BY <1>1, <1>2, <1>3, <1>10, <2>1, <2>2, <2>3, Zenon DEF base64_encode
  <2>5. /\ Len(e) = 4 * n + 4 /\ (\A i \in 1..4 * n : e[i] = w[i])
        /\ \A i \in 1..4 : e[4 * n + i] = u[i]
    BY <1>3, <2>1, <2>3 DEF JoinedAs, EncodesGroups, EncodesRest
  <2>6. ASSUME NEW i \in 0..n - 1
        PROVE  /\ e[4 * i + 1] = s[3 * i + 1] \div 4
               /\ e[4 * i + 2] = (s[3 * i + 1] % 4) * 16 + (s[3 * i + 2] \div 16)
               /\ e[4 * i + 3] = (s[3 * i + 2] % 16) * 4 + (s[3 * i + 3] \div 64)
               /\ e[4 * i + 4] = s[3 * i + 3] % 64
    <3>1. 4 * i + 1 \in 1..4 * n /\ 4 * i + 2 \in 1..4 * n /\ 4 * i + 3 \in 1..4 * n /\ 4 * i + 4 \in 1..4 * n
      OBVIOUS
    <3>2. /\ e[4 * i + 1] = w[4 * i + 1] /\ e[4 * i + 2] = w[4 * i + 2]
          /\ e[4 * i + 3] = w[4 * i + 3] /\ e[4 * i + 4] = w[4 * i + 4]
      BY <2>5, <3>1
    <3> QED
      BY <1>3, <3>2 DEF EncodesGroups
  <2>7. /\ e[4 * n + 1] = u[1] /\ e[4 * n + 2] = u[2] /\ e[4 * n + 3] = u[3]
        /\ e[4 * n + 4] = u[4]
    BY <2>5
  <2>8. t = 1 => /\ e[4 * n + 1] = s[3 * n + 1] \div 4
                 /\ e[4 * n + 2] = (s[3 * n + 1] % 4) * 16
                 /\ e[4 * n + 3] = Pad /\ e[4 * n + 4] = Pad
    BY <1>10, <2>1, <2>7 DEF EncodesRest
  <2>9. t = 2 => /\ e[4 * n + 1] = s[3 * n + 1] \div 4
                 /\ e[4 * n + 2] = (s[3 * n + 1] % 4) * 16 + (s[3 * n + 2] \div 16)
                 /\ e[4 * n + 3] = (s[3 * n + 2] % 16) * 4
                 /\ e[4 * n + 4] = Pad
    BY <1>10, <2>1, <2>7 DEF EncodesRest
  <2> QED
    BY <1>6, <2>4, <2>5, <2>6, <2>8, <2>9 DEF Encodes
<1> QED
  BY <1>5, <1>6

-----------------------------------------------------------------------------
(* A group and what is left over, decoded.                                 *)

\* t is the three bytes a, b and c.
IsTriple(t, a, b, c) == Len(t) = 3 /\ t[1] = a /\ t[2] = b /\ t[3] = c

\* Triple undoes Quad.
LEMMA SplitsJoined ==
  ASSUME NEW q, NEW a \in 0..255, NEW b \in 0..255, NEW c \in 0..255, Splits(q, a, b, c)
  PROVE  Triple(q) \in Seq(0..255) /\ IsTriple(Triple(q), a, b, c)
<1>1. PICK v \in 0..15, z \in 0..3, x \in 0..3, u \in 0..15 :
        v = b \div 16 /\ z = c \div 64 /\ x = a % 4 /\ u = b % 16
  <2>1. b \div 16 \in 0..15
    BY SMTT(30)
  <2>2. c \div 64 \in 0..3
    BY SMTT(30)
  <2>3. a % 4 \in 0..3
    BY SMTT(30)
  <2>4. b % 16 \in 0..15
    BY SMTT(30)
  <2> QED
    BY <2>1, <2>2, <2>3, <2>4, Zenon
<1>2. /\ a \div 4 \in 0..63 /\ (a % 4) * 16 + v \in 0..63
      /\ ((a \div 4) * 4 + ((((a % 4) * 16 + v) \div 16) % 4)) % 256 = a
  BY FirstByte
<1>3. /\ (b % 16) * 4 + z \in 0..63
      /\ (((x * 16 + (b \div 16)) % 16) * 16 + ((((b % 16) * 4 + z) \div 4) % 16)) % 256 = b
  BY SecondByte
<1>4. /\ c % 64 \in 0..63
      /\ (((u * 4 + (c \div 64)) % 4) * 64 + (c % 64)) % 256 = c
  BY ThirdByte
<1>5. /\ q[1] = a \div 4 /\ q[2] = (a % 4) * 16 + v /\ q[2] = x * 16 + (b \div 16)
      /\ q[3] = (b % 16) * 4 + z /\ q[3] = u * 4 + (c \div 64) /\ q[4] = c % 64
  BY <1>1, Zenon DEF Splits
<1>6. q[1] \in Nat /\ q[2] \in Nat /\ q[3] \in Nat /\ q[4] \in Nat
  <2>1. \A k \in 0..63 : k \in Nat
    OBVIOUS
  <2> QED
    BY <1>2, <1>3, <1>4, <1>5, <2>1, ZenonT(60)
<1>7. PICK t : t = Triple(q) /\ t \in Seq(0..255) /\ Joins(t, q)
  BY <1>6, TripleJoins
<1>8. t[1] = a
  <2>1. t[1] = (q[1] * 4 + ((q[2] \div 16) % 4)) % 256
    BY <1>7 DEF Joins
  <2>2. t[1] = ((a \div 4) * 4 + ((((a % 4) * 16 + v) \div 16) % 4)) % 256
    BY <1>5, <2>1, Zenon
  <2> QED
    BY <1>2, <2>2, Zenon
<1>9. t[2] = b
  <2>1. t[2] = ((q[2] % 16) * 16 + ((q[3] \div 4) % 16)) % 256
    BY <1>7 DEF Joins
  <2>2. t[2] = (((x * 16 + (b \div 16)) % 16) * 16 + ((((b % 16) * 4 + z) \div 4) % 16)) % 256
    BY <1>5, <2>1, Zenon
  <2> QED
    BY <1>3, <2>2, Zenon
<1>10. t[3] = c
  <2>1. t[3] = ((q[3] % 4) * 64 + q[4]) % 256
    BY <1>7 DEF Joins
  <2>2. t[3] = (((u * 4 + (c \div 64)) % 4) * 64 + (c % 64)) % 256
    BY <1>5, <2>1, Zenon
  <2> QED
    BY <1>4, <2>2, Zenon
<1>11. Len(t) = 3
  BY <1>7 DEF Joins
<1> QED
  BY <1>7, <1>8, <1>9, <1>10, <1>11, Zenon DEF IsTriple

\* The first one or two bytes of a group that is not complete.
LEMMA OneJoined ==
  ASSUME NEW q, NEW a \in 0..255, q[1] = a \div 4, q[2] = (a % 4) * 16,
         q[3] \in Nat, q[4] \in Nat
  PROVE  Triple(q) \in Seq(0..255) /\ Len(Triple(q)) = 3 /\ Triple(q)[1] = a
<1>1. /\ a \div 4 \in 0..63 /\ (a % 4) * 16 + 0 \in 0..63
      /\ ((a \div 4) * 4 + ((((a % 4) * 16 + 0) \div 16) % 4)) % 256 = a
  <2>1. 0 \in 0..15
    OBVIOUS
  <2> QED
    BY <2>1, FirstByte
<1>2. q[2] = (a % 4) * 16 + 0
  <2>1. (a % 4) * 16 = (a % 4) * 16 + 0
    OBVIOUS
  <2> QED
    BY <2>1
<1>3. q[1] \in Nat /\ q[2] \in Nat /\ q[3] \in Nat /\ q[4] \in Nat
  OBVIOUS
<1>4. PICK t : t = Triple(q) /\ t \in Seq(0..255) /\ Joins(t, q)
  BY <1>3, TripleJoins
<1>5. t[1] = (q[1] * 4 + ((q[2] \div 16) % 4)) % 256 /\ Len(t) = 3
  BY <1>4 DEF Joins
<1>6. t[1] = ((a \div 4) * 4 + ((((a % 4) * 16 + 0) \div 16) % 4)) % 256
  BY <1>2, <1>5, Zenon
<1> QED
  BY <1>1, <1>4, <1>5, <1>6, Zenon

\* q shows the bytes a and b.
ShowsTwo(q, a, b) == /\ q[1] = a \div 4 /\ q[2] = (a % 4) * 16 + (b \div 16)
                     /\ q[3] = (b % 16) * 4 /\ q[4] \in Nat

LEMMA TwoJoined ==
  ASSUME NEW q, NEW a \in 0..255, NEW b \in 0..255, ShowsTwo(q, a, b)
  PROVE  /\ Triple(q) \in Seq(0..255) /\ Len(Triple(q)) = 3
         /\ Triple(q)[1] = a /\ Triple(q)[2] = b
<1>1. PICK v \in 0..15, x \in 0..3 : v = b \div 16 /\ x = a % 4
  OBVIOUS
<1>2. /\ a \div 4 \in 0..63 /\ (a % 4) * 16 + v \in 0..63
      /\ ((a \div 4) * 4 + ((((a % 4) * 16 + v) \div 16) % 4)) % 256 = a
  BY FirstByte
<1>3. /\ (b % 16) * 4 + 0 \in 0..63
      /\ (((x * 16 + (b \div 16)) % 16) * 16 + ((((b % 16) * 4 + 0) \div 4) % 16)) % 256 = b
  <2>1. 0 \in 0..3
    OBVIOUS
  <2> QED
    BY <2>1, SecondByte
<1>4. q[2] = (a % 4) * 16 + v /\ q[2] = x * 16 + (b \div 16)
  BY <1>1, Zenon DEF ShowsTwo
<1>5. q[3] = (b % 16) * 4 + 0
  <2>1. (b % 16) * 4 = (b % 16) * 4 + 0
    OBVIOUS
  <2> QED
    BY <2>1, Zenon DEF ShowsTwo
<1>6. q[1] \in Nat /\ q[2] \in Nat /\ q[3] \in Nat /\ q[4] \in Nat
  <2>1. PICK f \in 0..63, g \in 0..63, h \in 0..63 :
          f = a \div 4 /\ g = (a % 4) * 16 + v /\ h = (b % 16) * 4 + 0
    BY <1>2, <1>3
  <2>2. q[1] = f /\ q[2] = g /\ q[3] = h
    BY <1>4, <1>5, <2>1, Zenon DEF ShowsTwo
  <2> QED
    BY <2>2 DEF ShowsTwo
<1>7. PICK t : t = Triple(q) /\ t \in Seq(0..255) /\ Joins(t, q)
  BY <1>6, TripleJoins
<1>8. t[1] = a
  <2>1. t[1] = (q[1] * 4 + ((q[2] \div 16) % 4)) % 256
    BY <1>7 DEF Joins
  <2>2. t[1] = ((a \div 4) * 4 + ((((a % 4) * 16 + v) \div 16) % 4)) % 256
    BY <1>4, <2>1, Zenon DEF ShowsTwo
  <2> QED
    BY <1>2, <2>2, Zenon
<1>9. t[2] = b
  <2>1. t[2] = ((q[2] % 16) * 16 + ((q[3] \div 4) % 16)) % 256
    BY <1>7 DEF Joins
  <2>2. t[2] = (((x * 16 + (b \div 16)) % 16) * 16 + ((((b % 16) * 4 + 0) \div 4) % 16)) % 256
    BY <1>4, <1>5, <2>1, Zenon
  <2> QED
    BY <1>3, <2>2, Zenon
<1>11. Len(t) = 3
  BY <1>7 DEF Joins
<1> QED
  BY <1>7, <1>8, <1>9, <1>11, Zenon

\* Where a place lies in groups of b.
LEMMA InGroup ==
  ASSUME NEW b \in {3, 4}, NEW n \in Nat, NEW t \in 0..b - 1, NEW k \in 1..b * n + t
  PROVE  \/ \E i \in 0..n - 1, j \in 1..b : k = b * i + j
         \/ \E j \in 1..t : k = b * n + j
<1>1. CASE b = 3
  <2>1. PICK i \in Nat, j \in 1..3 : k = 3 * i + j
    <3>1. PICK l \in Nat : l = k - 1
      BY <1>1
    <3>2. l \div 3 \in Nat /\ l = 3 * (l \div 3) + (l % 3) /\ (l % 3) + 1 \in 1..3
      OBVIOUS
    <3>3. k = 3 * (l \div 3) + ((l % 3) + 1)
      BY <1>1, <3>1, <3>2
    <3> QED
      BY <3>2, <3>3
  <2>2. CASE i < n
    BY <1>1, <2>1, <2>2
  <2>3. CASE i >= n
    <3>1. i = n /\ j \in 1..t
      BY <1>1, <2>1, <2>3
    <3> QED
      BY <1>1, <2>1, <3>1
  <2> QED
    BY <2>1, <2>2, <2>3
<1>2. CASE b = 4
  <2>1. PICK i \in Nat, j \in 1..4 : k = 4 * i + j
    <3>1. PICK l \in Nat : l = k - 1
      BY <1>2
    <3>2. l \div 4 \in Nat /\ l = 4 * (l \div 4) + (l % 4) /\ (l % 4) + 1 \in 1..4
      OBVIOUS
    <3>3. k = 4 * (l \div 4) + ((l % 4) + 1)
      BY <1>2, <3>1, <3>2
    <3> QED
      BY <3>2, <3>3
  <2>2. CASE i < n
    BY <1>2, <2>1, <2>2
  <2>3. CASE i >= n
    <3>1. i = n /\ j \in 1..t
      BY <1>2, <2>1, <2>3
    <3> QED
      BY <1>2, <2>1, <3>1
  <2> QED
    BY <2>1, <2>2, <2>3
<1> QED
  BY <1>1, <1>2

-----------------------------------------------------------------------------
(* base64_decode stops at the first character that fills up.               *)

\* The length of the encoding of n groups and t bytes, and how many of its
\* characters are not Pad.
Shown(n, t) == IF t = 0 THEN 4 * n ELSE 4 * n + t + 1

\* Only what fills up the last group is Pad.
LEMMA PadLast ==
  ASSUME NEW s \in Seq(0..255), NEW n \in Nat, NEW t \in 0..2, Len(s) = 3 * n + t,
         NEW e, Encodes(e, s, n, t)
  PROVE  \A k \in 1..Shown(n, t) : e[k] # Pad
<1>1. \A k \in 1..3 * n + t : s[k] \in 0..255
  BY ElementOfSeq
<1> SUFFICES ASSUME NEW k \in 1..Shown(n, t)
             PROVE  e[k] # Pad
  OBVIOUS
<1>2. ASSUME NEW i \in 0..n - 1, NEW j \in 1..4, k = 4 * i + j
      PROVE  e[k] # Pad
  <2>1. 3 * i + 1 \in 1..3 * n + t /\ 3 * i + 2 \in 1..3 * n + t /\ 3 * i + 3 \in 1..3 * n + t
    OBVIOUS
  <2>2. PICK a \in 0..255, b \in 0..255, c \in 0..255 :
          a = s[3 * i + 1] /\ b = s[3 * i + 2] /\ c = s[3 * i + 3]
    BY <1>1, <2>1
  <2>3. /\ e[4 * i + 1] = a \div 4
        /\ e[4 * i + 2] = (a % 4) * 16 + (b \div 16)
        /\ e[4 * i + 3] = (b % 16) * 4 + (c \div 64)
        /\ e[4 * i + 4] = c % 64
    BY <2>2, Zenon DEF Encodes
  <2>4. PICK v \in 0..15, z \in 0..3 : v = b \div 16 /\ z = c \div 64
    OBVIOUS
  <2>5. a \div 4 \in 0..63 /\ (a % 4) * 16 + v \in 0..63
    BY FirstByte
  <2>6. (b % 16) * 4 + z \in 0..63
    <3>1. 0 \in 0..3
      OBVIOUS
    <3> QED
      BY <3>1, SecondByte
  <2>7. c % 64 \in 0..63
    OBVIOUS
  <2>8. 64 \notin 0..63 /\ (j = 1 \/ j = 2 \/ j = 3 \/ j = 4)
    OBVIOUS
  <2>9. e[4 * i + 1] \in 0..63
    BY <2>3, <2>5, ZenonT(60)
  <2>10. e[4 * i + 2] \in 0..63
    BY <2>3, <2>4, <2>5, ZenonT(60)
  <2>11. e[4 * i + 3] \in 0..63
    BY <2>3, <2>4, <2>6, Zenon
  <2>12. e[4 * i + 4] \in 0..63
    BY <2>3, <2>7, Zenon
  <2> QED
    BY <1>2, <2>8, <2>9, <2>10, <2>11, <2>12 DEF Pad
<1>3. ASSUME NEW j \in 1..t + 1, k = 4 * n + j, t # 0
      PROVE  e[k] # Pad
  <2>1. 3 * n + 1 \in 1..3 * n + t /\ (t = 2 => 3 * n + 2 \in 1..3 * n + t)
    BY <1>3
  <2>2. PICK a \in 0..255 : a = s[3 * n + 1]
    BY <1>1, <2>1
  <2>3. PICK y \in 0..255 : t = 2 => y = s[3 * n + 2]
    <3>1. CASE t = 2
      BY <1>1, <2>1, <3>1
    <3>2. CASE t # 2
      BY <3>2
    <3> QED
      BY <3>1, <3>2
  <2>4. PICK v \in 0..15 : v = y \div 16
    OBVIOUS
  <2>5. a \div 4 \in 0..63 /\ (a % 4) * 16 + v \in 0..63
    BY FirstByte
  <2>6. (a % 4) * 16 \in 0..63 /\ (y % 16) * 4 \in 0..63 /\ 64 \notin 0..63
    OBVIOUS
  <2>7. CASE t = 1
    <3>1. e[4 * n + 1] = a \div 4 /\ e[4 * n + 2] = (a % 4) * 16
      BY <2>2, <2>7, Zenon DEF Encodes
    <3>2. j = 1 \/ j = 2
      BY <2>7
    <3>3. e[4 * n + 1] \in 0..63 /\ e[4 * n + 2] \in 0..63
      BY <2>5, <2>6, <3>1, ZenonT(60)
    <3> QED
      BY <1>3, <2>6, <3>2, <3>3 DEF Pad
  <2>8. CASE t = 2
    <3>1. /\ e[4 * n + 1] = a \div 4 /\ e[4 * n + 2] = (a % 4) * 16 + v
          /\ e[4 * n + 3] = (y % 16) * 4
      BY <2>2, <2>3, <2>4, <2>8, Zenon DEF Encodes
    <3>2. j = 1 \/ j = 2 \/ j = 3
      BY <2>8
    <3>3. e[4 * n + 1] \in 0..63
      BY <2>5, <3>1, ZenonT(60)
    <3>4. e[4 * n + 2] \in 0..63
      BY <2>5, <3>1, ZenonT(60)
    <3>5. e[4 * n + 3] \in 0..63
      BY <2>6, <3>1, ZenonT(60)
    <3> QED
      BY <1>3, <2>6, <3>2, <3>3, <3>4, <3>5 DEF Pad
  <2> QED
    BY <1>3, <2>7, <2>8
<1>4. CASE t = 0
  <2>1. 0 \in 0..4 - 1 /\ k \in 1..4 * n + 0
    BY <1>4 DEF Shown
  <2>2. (\E i \in 0..n - 1, j \in 1..4 : k = 4 * i + j) \/ \E j \in 1..0 : k = 4 * n + j
    BY <2>1, InGroup
  <2>3. \E i \in 0..n - 1, j \in 1..4 : k = 4 * i + j
    BY <2>2
  <2> QED
    BY <1>2, <2>3, Zenon
<1>5. CASE t # 0
  <2>1. PICK u \in 0..4 - 1 : u = t + 1
    BY <1>5
  <2>2. k \in 1..4 * n + u
    BY <1>5, <2>1 DEF Shown
  <2>3. (\E i \in 0..n - 1, j \in 1..4 : k = 4 * i + j) \/ \E j \in 1..u : k = 4 * n + j
    BY <2>2, InGroup
  <2> QED
    BY <1>2, <1>3, <1>5, <2>1, <2>3
<1> QED
  BY <1>4, <1>5

\* Decoding goes up to the first Pad.
LEMMA SignificantAt ==
  ASSUME NEW e \in Seq(0..64), NEW m \in 0..Len(e), \A k \in 1..m : e[k] # Pad,
         m < Len(e) => e[m + 1] = Pad
  PROVE  Significant(e) \in Seq(0..64) /\ Begins(Significant(e), e, m)
<1>1. PICK l \in Nat : l = Len(e) /\ DOMAIN e = 1..l
  OBVIOUS
<1>2. CASE m = l
  <2>1. ~Contains(e, Pad)
    BY <1>1, <1>2 DEF Contains
  <2>2. Significant(e) = SubSeq(e, 1, m)
    BY <1>1, <1>2, <2>1, Zenon DEF Significant
  <2> QED
    BY <2>2, BeginAt
<1>3. CASE m # l
  <2>1. m + 1 \in 1..l /\ e[m + 1] = Pad
    BY <1>1, <1>3
  <2>2. Contains(e, Pad)
    BY <1>1, <2>1 DEF Contains
  <2> DEFINE Fst(k) == e[k] = Pad /\ \A j \in 1..k - 1 : e[j] # Pad
  <2>3. Fst(m + 1)
    <3>1. \A j \in 1..(m + 1) - 1 : j \in 1..m
      OBVIOUS
    <3> QED
      BY <2>1, <3>1
  <2>4. ASSUME NEW k \in 1..l, Fst(k)
        PROVE  k = m + 1
    <3>1. CASE k <= m
      BY <2>4, <3>1
    <3>2. CASE k > m + 1
      <4>1. m + 1 \in 1..k - 1
        BY <2>1, <3>2
      <4> QED
        BY <2>1, <2>4, <4>1
    <3> QED
      BY <3>1, <3>2
  <2>5. PICK c : c = CHOOSE k \in DOMAIN e : Fst(k)
    OBVIOUS
  <2>6. c \in DOMAIN e /\ Fst(c)
    <3>1. \E k \in DOMAIN e : Fst(k)
      BY <1>1, <2>1, <2>3, Zenon
    <3> HIDE DEF Fst
    <3> QED
      BY <2>5, <3>1, Zenon
  <2>7. c = m + 1
    BY <1>1, <2>4, <2>6, Zenon
  <2>8. Significant(e) = SubSeq(e, 1, c - 1)
    BY <2>2, <2>5, Zenon DEF Significant
  <2>9. c - 1 = m
    BY <2>7
  <2>10. Significant(e) = SubSeq(e, 1, m)
    BY <2>8, <2>9
  <2> QED
    BY <2>10, BeginAt
<1> QED
  BY <1>2, <1>3

-----------------------------------------------------------------------------
(* base64_decode, group by group.                                          *)

\* e shows n groups of three bytes of s.
ShowsGroups(e, s, n) ==
  \A i \in 0..n - 1 :
    /\ e[4 * i + 1] = s[3 * i + 1] \div 4
    /\ e[4 * i + 2] = (s[3 * i + 1] % 4) * 16 + (s[3 * i + 2] \div 16)
    /\ e[4 * i + 3] = (s[3 * i + 2] % 16) * 4 + (s[3 * i + 3] \div 64)
    /\ e[4 * i + 4] = s[3 * i + 3] % 64

\* Those groups, decoded.
LEMMA TriplesLaid ==
  ASSUME NEW s \in Seq(0..255), NEW n \in Nat, 3 * n <= Len(s), NEW e \in Seq(0..64), 4 * n <= Len(e),
         ShowsGroups(e, s, n)
  PROVE  \E w \in Seq(0..255) :
           /\ w = FlattenSeq([g \in 1..n |-> Triple(Group(e, 4, g))])
           /\ Len(w) = 3 * n /\ \A k \in 1..3 * n : w[k] = s[k]
<1>1. PICK ss : ss = [g \in 1..n |-> Triple(Group(e, 4, g))]
  OBVIOUS
<1>2. ASSUME NEW g \in 1..n, NEW i \in 0..n - 1, i = g - 1
      PROVE  /\ ss[g] \in Seq(0..255)
             /\ IsTriple(ss[g], s[3 * i + 1], s[3 * i + 2], s[3 * i + 3])
  <2>1. PICK q : q = Group(e, 4, g)
    OBVIOUS
  <2>2. IsGroup(q, e, 4, g, 0..64)
    BY <2>1, GroupAt
  <2>3. Len(q) = 4 /\ q[1] = e[4 * i + 1] /\ q[2] = e[4 * i + 2] /\ q[3] = e[4 * i + 3] /\ q[4] = e[4 * i + 4]
    <3>1. PICK k \in Int : k = 4 * (g - 1) /\ k = 4 * i
      BY <1>2
    <3>2. Len(q) = 4 /\ \A j \in 1..4 : q[j] = e[k + j]
      BY <2>2, <3>1 DEF IsGroup
    <3>3. 1 \in 1..4 /\ 2 \in 1..4 /\ 3 \in 1..4 /\ 4 \in 1..4
      OBVIOUS
    <3>4. q[1] = e[k + 1] /\ q[2] = e[k + 2] /\ q[3] = e[k + 3] /\ q[4] = e[k + 4]
      BY <3>2, <3>3, Zenon
    <3> QED
      BY <3>1, <3>2, <3>4, Zenon
  <2>4. PICK a \in 0..255, b \in 0..255, c \in 0..255 :
          a = s[3 * i + 1] /\ b = s[3 * i + 2] /\ c = s[3 * i + 3]
    <3>1. PICK l \in Nat : l = Len(s)
      OBVIOUS
    <3>2. 3 * i + 1 \in 1..l /\ 3 * i + 2 \in 1..l /\ 3 * i + 3 \in 1..l
      BY <3>1
    <3>3. \A k \in 1..l : s[k] \in 0..255
      BY <3>1, ElementOfSeq
    <3> QED
      BY <3>2, <3>3
  <2>5. Splits(q, a, b, c)
    BY <2>3, <2>4, Zenon DEF Splits, ShowsGroups
  <2>6. Triple(q) \in Seq(0..255) /\ IsTriple(Triple(q), a, b, c)
    BY <2>5, SplitsJoined
  <2>7. ss[g] = Triple(q)
    BY <1>1, <2>1
  <2> QED
    BY <2>4, <2>6, <2>7, Zenon
<1>3. ASSUME NEW g \in 1..n
      PROVE  ss[g] \in Seq(0..255) /\ Len(ss[g]) = 3
  <2>1. PICK i \in 0..n - 1 : i = g - 1
    OBVIOUS
  <2> QED
    BY <1>2, <2>1 DEF IsTriple
<1>4. ss \in Seq(Seq(0..255)) /\ Len(ss) = n
  <2>1. ss \in [1..n -> Seq(0..255)]
    BY <1>1, <1>3
  <2> QED
    BY <2>1
<1>5. PICK w \in Seq(0..255) : w = FlattenSeq(ss) /\ Blocks(w, ss, 3)
  <2>1. \A g \in 1..Len(ss) : Len(ss[g]) = 3
    BY <1>3, <1>4
  <2> QED
    BY <1>4, <2>1, FlatBlocks
<1>6. Len(w) = 3 * n /\ \A g \in 1..n, j \in 1..3 : w[3 * (g - 1) + j] = ss[g][j]
  BY <1>4, <1>5 DEF Blocks
<1>7. ASSUME NEW k \in 1..3 * n
      PROVE  w[k] = s[k]
  <2>1. PICK i \in 0..n - 1, j \in 1..3 : k = 3 * i + j
    <3>1. 0 \in 0..3 - 1 /\ k \in 1..3 * n + 0
      OBVIOUS
    <3>2. (\E i \in 0..n - 1, j \in 1..3 : k = 3 * i + j) \/ \E j \in 1..0 : k = 3 * n + j
      BY <3>1, InGroup
    <3> QED
      BY <3>2
  <2>2. PICK g \in 1..n : g - 1 = i
    <3>1. i + 1 \in 1..n /\ (i + 1) - 1 = i
      OBVIOUS
    <3> QED
      BY <3>1
  <2>3. w[k] = ss[g][j]
    BY <1>6, <2>1, <2>2, Zenon
  <2>4. IsTriple(ss[g], s[3 * i + 1], s[3 * i + 2], s[3 * i + 3])
    BY <1>2, <2>2
  <2>5. ss[g][1] = s[3 * i + 1] /\ ss[g][2] = s[3 * i + 2] /\ ss[g][3] = s[3 * i + 3]
    BY <2>4 DEF IsTriple
  <2>6. j = 1 \/ j = 2 \/ j = 3
    OBVIOUS
  <2> QED
    BY <2>1, <2>3, <2>5, <2>6, Zenon
<1> QED
  BY <1>1, <1>5, <1>6, <1>7

\* r shows the t bytes of s behind n groups of three.
ShowsRest(r, s, n, t) ==
  /\ t \in 0..2 /\ Len(s) = 3 * n + t
  /\ Len(r) = IF t = 0 THEN 0 ELSE t + 1
  /\ t = 1 => r[1] = s[3 * n + 1] \div 4 /\ r[2] = (s[3 * n + 1] % 4) * 16
  /\ t = 2 => /\ r[1] = s[3 * n + 1] \div 4
              /\ r[2] = (s[3 * n + 1] % 4) * 16 + (s[3 * n + 2] \div 16)
              /\ r[3] = (s[3 * n + 2] % 16) * 4

\* Those bytes, decoded.
LEMMA LastDecoded ==
  ASSUME NEW s \in Seq(0..255), NEW n \in Nat, NEW t, NEW r \in Seq(0..64), ShowsRest(r, s, n, t)
  PROVE  \E x \in Seq(0..255) : /\ x = LastBytes(r) /\ Len(x) = t
                                /\ \A j \in 1..t : x[j] = s[3 * n + j]
<1>3. t \in 0..2 /\ Len(s) = 3 * n + t /\ Len(r) = IF t = 0 THEN 0 ELSE t + 1
  BY DEF ShowsRest
<1>1. CASE t = 0
  <2>1. r = << >>
    BY <1>1, <1>3, EmptySeq
  <2>2. LastBytes(r) = << >>
    BY <2>1 DEF LastBytes
  <2>3. << >> \in Seq(0..255) /\ Len(<< >>) = 0
    OBVIOUS
  <2>4. \A j \in 1..t : FALSE
    BY <1>1
  <2> QED
    BY <1>1, <2>2, <2>3, <2>4
<1>2. CASE t \in {1, 2}
  <2>1. r \in Seq(0..255) /\ 255 \in 0..255
    <3>1. 0..64 \subseteq 0..255 /\ 255 \in 0..255
      OBVIOUS
    <3> QED
      BY <3>1, SeqMonotonic
  <2>2. PICK f \in Seq(0..255) : f = FillUp(r, 4, 255) /\ Filled(f, r, 4, 255)
    <3>1. PICK S : S = 0..255
      OBVIOUS
    <3>2. PICK k \in Nat : k = 4
      OBVIOUS
    <3>3. PICK x : x = 255 /\ x \in S
      BY <3>1
    <3>4. r \in Seq(S)
      BY <2>1, <3>1
    <3>5. FillUp(r, k, x) \in Seq(S) /\ Filled(FillUp(r, k, x), r, k, x)
      BY <3>3, <3>4, FilledAt, ZenonT(60)
    <3>6. FillUp(r, 4, 255) \in Seq(0..255) /\ Filled(FillUp(r, 4, 255), r, 4, 255)
      BY <3>1, <3>2, <3>3, <3>5
    <3> QED
      BY <3>6
  <2>3. \A j \in 1..4 : f[j] = IF j <= t + 1 THEN r[j] ELSE 255
    BY <1>2, <1>3, <2>2 DEF Filled
  <2>4. f[1] = r[1] /\ f[2] = r[2] /\ f[4] = 255 /\ f[3] = IF t = 2 THEN r[3] ELSE 255
    BY <1>2, <2>3
  <2>5. PICK a \in 0..255 : a = s[3 * n + 1]
    <3>1. 3 * n + 1 \in 1..Len(s)
      BY <1>2, <1>3
    <3> QED
      BY <3>1, ElementOfSeq
  <2>6. PICK q \in Seq(0..255) :
          q = Triple(f) /\ Len(q) = 3 /\ q[1] = a /\ (t = 2 => q[2] = s[3 * n + 2])
    <3>1. CASE t = 1
      <4>1. f[1] = a \div 4 /\ f[2] = (a % 4) * 16 /\ f[3] = 255 /\ f[4] = 255
        <5>1. t # 2
          BY <3>1
        <5> QED
          BY <2>4, <2>5, <3>1, <5>1, Zenon DEF ShowsRest
      <4>2. f[3] \in Nat /\ f[4] \in Nat
        BY <4>1
      <4>3. Triple(f) \in Seq(0..255) /\ Len(Triple(f)) = 3 /\ Triple(f)[1] = a
        <5>1. f[1] = a \div 4 /\ f[2] = (a % 4) * 16
          BY <4>1
        <5> QED
          BY <2>5, <4>2, <5>1, OneJoined
      <4> QED
        BY <3>1, <4>3
    <3>2. CASE t = 2
      <4>1. PICK b \in 0..255 : b = s[3 * n + 2]
        <5>1. 3 * n + 2 \in 1..Len(s)
          BY <1>3, <3>2
        <5> QED
          BY <5>1, ElementOfSeq
      <4>2. /\ f[1] = a \div 4 /\ f[2] = (a % 4) * 16 + (b \div 16)
            /\ f[3] = (b % 16) * 4 /\ f[4] = 255
        BY <2>4, <2>5, <3>2, <4>1, Zenon DEF ShowsRest
      <4>3. /\ Triple(f) \in Seq(0..255) /\ Len(Triple(f)) = 3
            /\ Triple(f)[1] = a /\ Triple(f)[2] = b
        <5>1. f[4] \in Nat
          BY <4>2
        <5>2. /\ f[1] = a \div 4 /\ f[2] = (a % 4) * 16 + (b \div 16)
              /\ f[3] = (b % 16) * 4
          BY <4>2
        <5>3. ShowsTwo(f, a, b)
          BY <5>1, <5>2, Zenon DEF ShowsTwo
        <5> QED
          BY <5>3, TwoJoined, ZenonT(60)
      <4> QED
        BY <4>1, <4>3
    <3> QED
      BY <1>2, <3>1, <3>2
  <2>7. PICK l \in Nat : l = t /\ l = Len(r) - 1 /\ l \in 0..Len(q)
    BY <1>2, <1>3, <2>6
  <2>8. PICK x \in Seq(0..255) : x = SubSeq(q, 1, l) /\ Begins(x, q, l)
    BY <2>7, BeginAt
  <2>9. LastBytes(r) = x
    <3>1. r # << >>
      BY <1>2, <1>3
    <3> QED
      BY <2>2, <2>6, <2>7, <2>8, <3>1, Zenon DEF LastBytes
  <2>10. Len(x) = t /\ \A j \in 1..t : x[j] = q[j]
    BY <2>7, <2>8 DEF Begins
  <2>11. ASSUME NEW j \in 1..t
         PROVE  x[j] = s[3 * n + j]
    <3>1. j = 1 \/ (j = 2 /\ t = 2)
      BY <1>2
    <3> QED
      BY <2>5, <2>6, <2>10, <3>1, Zenon
  <2> QED
    BY <2>9, <2>10, <2>11
<1>4. t = 0 \/ t \in {1, 2}
  BY <1>3
<1> QED
  BY <1>1, <1>2, <1>4, Zenon

-----------------------------------------------------------------------------
(* What is decoded is what was encoded.                                    *)

\* base64_decode undoes base64_encode.
LEMMA Base64Keeps ==
  ASSUME NEW s \in Seq(0..255)
  PROVE  base64_decode(base64_encode(s)) = s
<1>1. PICK n \in Nat, t \in 0..2 : Len(s) = 3 * n + t
  <2>1. PICK l \in Nat : l = Len(s)
    OBVIOUS
  <2>2. l \div 3 \in Nat /\ l % 3 \in 0..2 /\ l = 3 * (l \div 3) + (l % 3)
    OBVIOUS
  <2> QED
    BY <2>1, <2>2
<1>2. PICK e \in Seq(0..64) : e = base64_encode(s) /\ Encodes(e, s, n, t)
  BY <1>1, EncodeAt
<1>3. PICK m \in Nat, u \in 0..3 :
        m = Shown(n, t) /\ u = (IF t = 0 THEN 0 ELSE t + 1) /\ m = 4 * n + u
  <2>1. CASE t = 0
    <3>1. 4 * n \in Nat /\ 4 * n = 4 * n + 0 /\ 0 \in 0..3
      OBVIOUS
    <3>2. Shown(n, t) = 4 * n
      BY <2>1 DEF Shown
    <3> QED
      BY <2>1, <3>1, <3>2
  <2>2. CASE t # 0
    <3>1. PICK u \in 0..3 : u = t + 1
      OBVIOUS
    <3>2. Shown(n, t) = 4 * n + u /\ 4 * n + u \in Nat
      BY <2>2, <3>1 DEF Shown
    <3> QED
      BY <2>2, <3>1, <3>2
  <2> QED
    BY <2>1, <2>2
<1>4. Len(e) = IF t = 0 THEN 4 * n ELSE 4 * n + 4
  BY <1>2 DEF Encodes
<1>5. PICK d \in Seq(0..64) : d = Significant(e) /\ Begins(d, e, m)
  <2>1. m \in 0..Len(e)
    BY <1>3, <1>4
  <2>2. \A k \in 1..m : e[k] # Pad
    BY <1>1, <1>2, <1>3, PadLast
  <2>3. m < Len(e) => e[m + 1] = Pad
    <3>1. CASE t = 0
      BY <1>3, <1>4, <3>1
    <3>2. CASE t = 1
      <4>1. m + 1 = 4 * n + 3
        BY <1>3, <3>2
      <4> QED
        BY <1>2, <3>2, <4>1, Zenon DEF Encodes
    <3>3. CASE t = 2
      <4>1. m + 1 = 4 * n + 4
        BY <1>3, <3>3
      <4> QED
        BY <1>2, <3>3, <4>1, Zenon DEF Encodes
    <3> QED
      BY <3>1, <3>2, <3>3
  <2> QED
    BY <2>1, <2>2, <2>3, SignificantAt
<1>6. Len(d) = 4 * n + u /\ \A k \in 1..4 * n + u : d[k] = e[k]
  BY <1>3, <1>5 DEF Begins
<1>7. PICK r \in Seq(0..64) : r = LeftOver(d, 4) /\ IsRest(r, d, 4, n, u) /\ Len(d) \div 4 = n
  <2>1. u \in 0..4 - 1 /\ 4 \in {3, 4}
    OBVIOUS
  <2> QED
    BY <1>6, <2>1, LeftOverAt, ZenonT(60)
<1>8. Len(r) = u /\ \A j \in 1..u : r[j] = e[4 * n + j]
  <2>1. Len(r) = u /\ \A j \in 1..u : r[j] = d[4 * n + j]
    BY <1>7 DEF IsRest
  <2>2. \A j \in 1..u : 4 * n + j \in 1..4 * n + u
    OBVIOUS
  <2> QED
    BY <1>6, <2>1, <2>2
<1>9. PICK w \in Seq(0..255) : /\ w = FlattenSeq([g \in 1..n |-> Triple(Group(d, 4, g))])
                               /\ Len(w) = 3 * n /\ \A k \in 1..3 * n : w[k] = s[k]
  <2>1. 3 * n <= Len(s) /\ 4 * n <= Len(d)
    BY <1>1, <1>6
  <2>2. ASSUME NEW i \in 0..n - 1
        PROVE  /\ d[4 * i + 1] = s[3 * i + 1] \div 4
               /\ d[4 * i + 2] = (s[3 * i + 1] % 4) * 16 + (s[3 * i + 2] \div 16)
               /\ d[4 * i + 3] = (s[3 * i + 2] % 16) * 4 + (s[3 * i + 3] \div 64)
               /\ d[4 * i + 4] = s[3 * i + 3] % 64
    <3>1. /\ 4 * i + 1 \in 1..4 * n + u /\ 4 * i + 2 \in 1..4 * n + u
          /\ 4 * i + 3 \in 1..4 * n + u /\ 4 * i + 4 \in 1..4 * n + u
      OBVIOUS
    <3>2. /\ d[4 * i + 1] = e[4 * i + 1] /\ d[4 * i + 2] = e[4 * i + 2]
          /\ d[4 * i + 3] = e[4 * i + 3] /\ d[4 * i + 4] = e[4 * i + 4]
      BY <1>6, <3>1
    <3> QED
      BY <1>2, <3>2, Zenon DEF Encodes
  <2>3. ShowsGroups(d, s, n)
    BY <2>2 DEF ShowsGroups
  <2> QED
    BY <1>5, <2>1, <2>3, TriplesLaid, ZenonT(60)
<1>10. PICK x \in Seq(0..255) :
          x = LastBytes(r) /\ Len(x) = t /\ \A j \in 1..t : x[j] = s[3 * n + j]
  <2>1. Len(r) = (IF t = 0 THEN 0 ELSE t + 1)
    BY <1>3, <1>8
  <2>2. t = 1 => r[1] = e[4 * n + 1] /\ r[2] = e[4 * n + 2]
    BY <1>3, <1>8
  <2>3. t = 2 => r[1] = e[4 * n + 1] /\ r[2] = e[4 * n + 2] /\ r[3] = e[4 * n + 3]
    BY <1>3, <1>8
  <2>4. t = 1 => r[1] = s[3 * n + 1] \div 4 /\ r[2] = (s[3 * n + 1] % 4) * 16
    BY <1>2, <2>2, Zenon DEF Encodes
  <2>5. t = 2 => /\ r[1] = s[3 * n + 1] \div 4
                 /\ r[2] = (s[3 * n + 1] % 4) * 16 + (s[3 * n + 2] \div 16)
                 /\ r[3] = (s[3 * n + 2] % 16) * 4
    BY <1>2, <2>3, Zenon DEF Encodes
  <2>6. ShowsRest(r, s, n, t)
    BY <1>1, <2>1, <2>4, <2>5, Zenon DEF ShowsRest
  <2> QED
    BY <2>6, LastDecoded
<1>11. PICK v \in Seq(0..255) : v = w \o x /\ JoinedAs(w, x, v)
  BY Joined, ZenonT(60)
<1>12. v = s
  <2>1. Len(v) = 3 * n + t /\ (\A k \in 1..3 * n : v[k] = w[k]) /\ \A j \in 1..t : v[3 * n + j] = x[j]
    BY <1>9, <1>10, <1>11 DEF JoinedAs
  <2>2. ASSUME NEW k \in 1..3 * n + t
        PROVE  v[k] = s[k]
    <3>1. CASE k \in 1..3 * n
      BY <1>9, <2>1, <3>1
    <3>2. CASE k \notin 1..3 * n
      <4>1. PICK j \in 1..t : k = 3 * n + j
        <5>1. k - 3 * n \in 1..t /\ k = 3 * n + (k - 3 * n)
          BY <3>2
        <5> QED
          BY <5>1
      <4> QED
        BY <1>10, <2>1, <4>1
    <3> QED
      BY <3>1, <3>2
  <2>3. Len(v) = Len(s)
    BY <1>1, <2>1, Zenon
  <2>4. \A k \in 1..Len(v) : v[k] = s[k]
    BY <2>1, <2>2, Zenon
  <2> QED
    BY <2>3, <2>4, SeqEqual, ZenonT(60)
<1>13. base64_decode(e) = v
  BY <1>5, <1>7, <1>9, <1>10, <1>11, Zenon DEF base64_decode
<1> QED
  BY <1>2, <1>12, <1>13

\* A conversion works on one of the inputs all along.
Converted == op = "convert" => bytes \in Inputs

LEMMA ConvertedHolds == StringSpec => []Converted
<1>1. StringInit => Converted
  BY DEF StringInit, Converts, Edits, Converted
<1>2. Converted /\ [StringNext]_stringVars => Converted'
  BY DEF Converted, StringNext, stringVars, replaceTemplateWith, removePhraseAfter
<1> QED
  BY <1>1, <1>2, PTL DEF StringSpec

\* base64_decode gives back what base64_encode was given, for all inputs of
\* all lengths (StringModifier.cpp:232-314).
THEOREM Base64Correct == StringSpec => []Base64RoundTrip
<1>1. Converted => Base64RoundTrip
  <2> SUFFICES ASSUME Converted, op = "convert"
               PROVE  base64_decode(base64_encode(bytes)) = bytes
    BY DEF Base64RoundTrip
  <2>1. bytes \in Seq(0..255)
    BY InputsAssumption DEF Converted
  <2>2. PICK s \in Seq(0..255) : s = bytes
    BY <2>1
  <2> QED
    BY <2>2, Base64Keeps
<1> QED
  BY <1>1, ConvertedHolds, PTL

\* What UriEncode makes of an address names that address and no other
\* (StringModifier.cpp:54-93).
THEOREM UriCorrect == StringSpec => []UriRoundTrip
<1>1. Converted => UriRoundTrip
  <2> SUFFICES ASSUME Converted, op = "convert"
               PROVE  UriDecode(UriEncode(bytes)) = bytes
    BY DEF UriRoundTrip
  <2>1. bytes \in Seq(0..255)
    BY InputsAssumption DEF Converted
  <2>2. PICK s \in Seq(0..255) : s = bytes
    BY <2>1
  <2> QED
    BY <2>2, UriKeeps
<1> QED
  BY <1>1, ConvertedHolds, PTL

\* Neither conversion loses anything, for all inputs of all lengths
\* (StringModifier.cpp:54-93, 232-314).
THEOREM RoundTripsCorrect == StringSpec => []RoundTrips
<1>1. Base64RoundTrip /\ UriRoundTrip => RoundTrips
  BY DEF RoundTrips
<1> QED
  BY <1>1, Base64Correct, UriCorrect, PTL

-----------------------------------------------------------------------------
(* replaceTemplateWith: where the key stands, and what find answers.       *)

\* k stands in s behind p characters.
Occurs(s, k, p) == p + Len(k) <= Len(s) /\ \A j \in 1..Len(k) : s[p + j] = k[j]

\* The parts of a text.
LEMMA FromAt ==
  ASSUME NEW S, NEW s \in Seq(S), NEW p \in 0..Len(s)
  PROVE  /\ From(s, p) \in Seq(S) /\ Slice(From(s, p), s, p, Len(s))
         /\ Until(s, p) \in Seq(S) /\ Begins(Until(s, p), s, p)
<1>1. PICK n \in Nat : n = Len(s) /\ p \in Nat /\ p <= n
  OBVIOUS
<1>2. SubSeq(s, p + 1, n) \in Seq(S) /\ Slice(SubSeq(s, p + 1, n), s, p, n)
  BY <1>1, SliceAt
<1>3. SubSeq(s, 1, p) \in Seq(S) /\ Begins(SubSeq(s, 1, p), s, p)
  BY BeginAt
<1> QED
  BY <1>1, <1>2, <1>3, Zenon DEF From, Until

\* What both lengths and places agree on is the same.
LEMMA EqualBy ==
  ASSUME NEW S, NEW s \in Seq(S), NEW t \in Seq(S), NEW n, Len(s) = n, Len(t) = n,
         \A i \in 1..n : s[i] = t[i]
  PROVE  s = t
BY SeqEqual, Zenon

\* IsPrefix of the rest.
LEMMA OccursAt ==
  ASSUME NEW S, NEW s \in Seq(S), NEW k \in Seq(S), NEW p \in 0..Len(s)
  PROVE  IsPrefix(k, From(s, p)) <=> Occurs(s, k, p)
<1>1. PICK n \in Nat, l \in Nat : n = Len(s) /\ l = Len(k) /\ p \in Nat /\ p <= n
  OBVIOUS
<1>2. PICK r \in Seq(S) : r = From(s, p) /\ Slice(r, s, p, n)
  BY <1>1, FromAt
<1>3. Len(r) = n - p /\ \A i \in 1..n - p : r[i] = s[p + i]
  BY <1>2 DEF Slice
<1>4. CASE l <= n - p
  <2>1. PICK a \in Seq(S) : a = SubSeq(k, 1, l) /\ Begins(a, k, l)
    <3>1. l \in 0..Len(k)
      BY <1>1
    <3> QED
      BY <3>1, BeginAt
  <2>2. PICK b \in Seq(S) : b = SubSeq(r, 1, l) /\ Begins(b, r, l)
    <3>1. l \in 0..Len(r)
      BY <1>1, <1>3, <1>4
    <3> QED
      BY <3>1, BeginAt
  <2>3. \A i \in 1..l : a[i] = k[i] /\ b[i] = s[p + i]
    <3>1. \A i \in 1..l : i \in 1..n - p
      BY <1>4
    <3>2. \A i \in 1..l : a[i] = k[i] /\ b[i] = r[i]
      BY <2>1, <2>2, Zenon DEF Begins
    <3> QED
      BY <1>3, <3>1, <3>2, Zenon
  <2>4. Len(a) = l /\ Len(b) = l
    BY <2>1, <2>2, Zenon DEF Begins
  <2>5. (\A i \in 1..l : s[p + i] = k[i]) => a = b
    <3> SUFFICES ASSUME \A i \in 1..l : s[p + i] = k[i]
                 PROVE  a = b
      OBVIOUS
    <3>1. \A i \in 1..l : a[i] = b[i]
      BY <2>3, Zenon
    <3> QED
      BY <2>4, <3>1, EqualBy, Zenon
  <2>6. a = b => \A i \in 1..l : s[p + i] = k[i]
    BY <2>3, Zenon
  <2>7. IsPrefix(k, r) <=> a = b
    <3>1. l <= Len(r)
      BY <1>3, <1>4
    <3> QED
      BY <1>1, <2>1, <2>2, <3>1, Zenon DEF IsPrefix
  <2>8. Occurs(s, k, p) <=> \A i \in 1..l : s[p + i] = k[i]
    <3>1. p + l <= n
      BY <1>1, <1>4
    <3> QED
      BY <1>1, <3>1, Zenon DEF Occurs
  <2> QED
    BY <1>2, <2>5, <2>6, <2>7, <2>8, Zenon
<1>5. CASE ~(l <= n - p)
  <2>1. ~(p + l <= n)
    BY <1>1, <1>5
  <2> QED
    BY <1>1, <1>2, <1>3, <1>5, <2>1, Zenon DEF IsPrefix, Occurs
<1> QED
  BY <1>4, <1>5

\* k does not stand between p and q.
Free(s, k, p, q) == \A j \in p..q - 1 : ~Occurs(s, k, j)

\* i is where k stands first, at or behind p; -1 if it does not.
FirstOf(i, s, k, p) ==
  \/ /\ i = -1 /\ \A j \in p..Len(s) : ~Occurs(s, k, j)
  \/ i \in p..Len(s) /\ Occurs(s, k, i) /\ Free(s, k, p, i)

\* findFrom.
LEMMA FoundBy ==
  ASSUME NEW S, NEW s \in Seq(S), NEW k \in Seq(S), NEW p \in 0..Len(s)
  PROVE  FirstOf(findFrom(s, k, p), s, k, p)
<1>1. PICK n \in Nat, l \in Nat : n = Len(s) /\ l = Len(k) /\ p \in Nat /\ p <= n
  OBVIOUS
<1> DEFINE places == {i \in p..Len(s) - Len(k) : SubSeq(s, i + 1, i + Len(k)) = k}
<1>8. \A i : i \in places <=> i \in p..n - l /\ SubSeq(s, i + 1, i + l) = k
  BY <1>1, Zenon
<1>2. ASSUME NEW i \in p..n - l
      PROVE  SubSeq(s, i + 1, i + l) = k <=> Occurs(s, k, i)
  <2>1. PICK m \in Nat : m = i + l /\ i \in Nat /\ i <= m /\ m <= n /\ m - i = l
    BY <1>1
  <2>2. PICK a \in Seq(S) : a = SubSeq(s, i + 1, m) /\ Slice(a, s, i, m)
    BY <1>1, <2>1, SliceAt
  <2>3. Len(a) = l /\ \A j \in 1..l : a[j] = s[i + j]
    BY <2>1, <2>2, Zenon DEF Slice
  <2>4. Occurs(s, k, i) <=> \A j \in 1..l : s[i + j] = k[j]
    BY <1>1, <2>1, Zenon DEF Occurs
  <2>5. (\A j \in 1..l : s[i + j] = k[j]) => a = k
    <3> SUFFICES ASSUME \A j \in 1..l : s[i + j] = k[j]
                 PROVE  a = k
      OBVIOUS
    <3>1. \A j \in 1..l : a[j] = k[j]
      BY <2>3, Zenon
    <3> QED
      BY <1>1, <2>3, <3>1, EqualBy, Zenon
  <2>6. a = k => \A j \in 1..l : s[i + j] = k[j]
    BY <2>3, Zenon
  <2> QED
    BY <2>1, <2>2, <2>4, <2>5, <2>6, Zenon
<1>3. ASSUME NEW j \in p..n, Occurs(s, k, j)
      PROVE  j \in places
  <2>1. j + l <= n
    BY <1>1, <1>3, Zenon DEF Occurs
  <2>2. j \in p..n - l
    BY <1>1, <2>1
  <2> QED
    BY <1>2, <1>3, <1>8, <2>2, Zenon
<1>4. places \subseteq Nat /\ \A i \in places : i \in p..n /\ Occurs(s, k, i)
  <2> SUFFICES ASSUME NEW i \in places
               PROVE  i \in Nat /\ i \in p..n /\ Occurs(s, k, i)
    OBVIOUS
  <2>1. i \in p..n - l /\ SubSeq(s, i + 1, i + l) = k
    BY <1>8, Zenon
  <2> QED
    BY <1>1, <1>2, <2>1
<1>5. findFrom(s, k, p) = IF places = {} THEN -1
                          ELSE CHOOSE i \in places : \A j \in places : i <= j
  BY Zenon DEF findFrom
<1>6. CASE places = {}
  <2>1. findFrom(s, k, p) = -1
    BY <1>5, <1>6, Zenon
  <2>2. \A j \in p..n : ~Occurs(s, k, j)
    BY <1>3, <1>6
  <2> QED
    BY <1>1, <2>1, <2>2, Zenon DEF FirstOf
<1>7. CASE places # {}
  <2>1. PICK i \in places : i = findFrom(s, k, p) /\ \A j \in places : i <= j
    <3>1. \E m \in places : \A j \in places : m <= j
      BY <1>4, <1>7, Least
    <3> QED
      BY <1>5, <1>7, <3>1, Zenon
  <2>2. i \in p..n /\ Occurs(s, k, i)
    BY <1>4
  <2>3. ASSUME NEW j \in p..i - 1, Occurs(s, k, j)
        PROVE  FALSE
    <3>1. j \in p..n /\ ~(i <= j)
      BY <1>1, <2>2
    <3> QED
      BY <1>3, <2>1, <2>3, <3>1, Zenon
  <2> QED
    BY <1>1, <2>1, <2>2, <2>3, Zenon DEF FirstOf, Free
<1> QED
  BY <1>6, <1>7

-----------------------------------------------------------------------------
(* What a text becomes, from the left.                                     *)

\* What Replaced says of the last m characters, given what it says of fewer.
Step(f, s, k, v, m) ==
  IF m = 0 THEN << >>
  ELSE IF IsPrefix(k, From(s, Len(s) - m)) THEN v \o f[m - Len(k)]
  ELSE <<s[Len(s) - m + 1]>> \o f[m - 1]

IsReplaced(f, s, k, v, n) == f = [m \in 0..n |-> Step(f, s, k, v, m)]

\* It asks for fewer.
LEMMA FewerAsked ==
  ASSUME NEW S, NEW s \in Seq(S), NEW k \in Seq(S), k # << >>, NEW v, NEW m \in 0..Len(s),
         NEW f, NEW g, \A i \in 0..m - 1 : f[i] = g[i]
  PROVE  Step(f, s, k, v, m) = Step(g, s, k, v, m)
<1>1. CASE m = 0
  BY <1>1, Zenon DEF Step
<1>2. CASE m # 0
  <2>1. PICK n \in Nat, l \in Nat : n = Len(s) /\ l = Len(k) /\ l # 0
    BY EmptySeq
  <2>2. PICK p \in 0..Len(s) : p = n - m
    BY <2>1
  <2>3. IsPrefix(k, From(s, p)) => m - l \in 0..m - 1
    <3> SUFFICES ASSUME IsPrefix(k, From(s, p))
                 PROVE  m - l \in 0..m - 1
      OBVIOUS
    <3>1. p + l <= n
      BY <2>1, OccursAt, Zenon DEF Occurs
    <3> QED
      BY <1>2, <2>1, <2>2, <3>1
  <2>4. m - 1 \in 0..m - 1
    BY <1>2
  <2>5. f[m - 1] = g[m - 1] /\ (IsPrefix(k, From(s, p)) => f[m - l] = g[m - l])
    BY <2>3, <2>4, Zenon
  <2> QED
    BY <1>2, <2>1, <2>2, <2>5, Zenon DEF Step
<1> QED
  BY <1>1, <1>2

\* There is a function that does it.
LEMMA ReplacedExists ==
  ASSUME NEW S, NEW s \in Seq(S), NEW k \in Seq(S), k # << >>, NEW v
  PROVE  \E f : IsReplaced(f, s, k, v, Len(s))
<1>1. PICK n \in Nat : n = Len(s)
  OBVIOUS
<1> DEFINE T == {m \in Nat : m <= n => \E f : IsReplaced(f, s, k, v, m)}
<1>2. 0 \in T
  <2>1. PICK f : f = [m \in 0..0 |-> << >>]
    OBVIOUS
  <2>2. \A m \in 0..0 : m = 0
    OBVIOUS
  <2>3. \A m \in 0..0 : Step(f, s, k, v, m) = << >>
    BY <2>2, Zenon DEF Step
  <2>4. IsReplaced(f, s, k, v, 0)
    BY <2>1, <2>3, Zenon DEF IsReplaced
  <2> QED
    BY <2>4
<1>3. ASSUME NEW m \in Nat, m < n, m \in T
      PROVE  m + 1 \in T
  <2>1. PICK f : IsReplaced(f, s, k, v, m)
    BY <1>3
  <2>2. PICK x : x = Step(f, s, k, v, m + 1)
    OBVIOUS
  <2>3. PICK g : g = [i \in 0..m + 1 |-> IF i = m + 1 THEN x ELSE f[i]]
    OBVIOUS
  <2>4. \A i \in 0..m : f[i] = g[i]
    <3>1. \A i \in 0..m : i \in 0..m + 1 /\ i # m + 1
      BY <1>3
    <3> QED
      BY <2>3, <3>1, Zenon
  <2>5. ASSUME NEW i \in 0..m + 1
        PROVE  g[i] = Step(g, s, k, v, i)
    <3>1. i \in 0..Len(s) /\ \A j \in 0..i - 1 : j \in 0..m
      BY <1>1, <1>3
    <3>2. \A j \in 0..i - 1 : f[j] = g[j]
      BY <2>4, <3>1, Zenon
    <3>3. Step(f, s, k, v, i) = Step(g, s, k, v, i)
      BY <3>1, <3>2, FewerAsked, Zenon
    <3>4. CASE i = m + 1
      BY <2>2, <2>3, <3>3, <3>4, Zenon
    <3>5. CASE i # m + 1
      <4>1. i \in 0..m
        BY <1>3, <3>5
      <4>2. f[i] = Step(f, s, k, v, i)
        BY <2>1, <4>1, Zenon DEF IsReplaced
      <4> QED
        BY <2>4, <3>3, <4>1, <4>2, Zenon
    <3> QED
      BY <3>4, <3>5
  <2>6. g = [i \in 0..m + 1 |-> Step(g, s, k, v, i)]
    BY <2>3, <2>5, Zenon
  <2>7. IsReplaced(g, s, k, v, m + 1)
    BY <2>6, Zenon DEF IsReplaced
  <2> QED
    BY <2>7
<1> HIDE DEF T
<1>4. n \in T
  <2>1. \A m \in 0..n : m \in T
    BY <1>2, <1>3, UpTo
  <2> QED
    BY <2>1
<1> QED
  BY <1>1, <1>4 DEF T

\* What is to become of s behind its first p characters.
Rest(s, k, v, p) == Replaced(s, k, v, Len(s) - p)

\* It is found from the left.
RestIs(s, k, v, p) ==
  Rest(s, k, v, p) = IF p = Len(s) THEN << >>
                     ELSE IF Occurs(s, k, p) THEN v \o Rest(s, k, v, p + Len(k))
                     ELSE <<s[p + 1]>> \o Rest(s, k, v, p + 1)

LEMMA RestAt ==
  ASSUME NEW S, NEW s \in Seq(S), NEW k \in Seq(S), k # << >>, NEW v
  PROVE  \A p \in 0..Len(s) : RestIs(s, k, v, p)
<1>1. PICK n \in Nat, l \in Nat : n = Len(s) /\ l = Len(k)
  OBVIOUS
<1> DEFINE f == CHOOSE r : r = [m \in 0..Len(s) |->
                    IF m = 0 THEN << >>
                    ELSE IF IsPrefix(k, From(s, Len(s) - m)) THEN v \o r[m - Len(k)]
                    ELSE <<s[Len(s) - m + 1]>> \o r[m - 1]]
<1>2. \A m : Replaced(s, k, v, m) = f[m]
  BY Zenon DEF Replaced
<1>3. IsReplaced(f, s, k, v, n)
  <2>1. \E r : IsReplaced(r, s, k, v, Len(s))
    BY ReplacedExists
  <2>2. IsReplaced(f, s, k, v, Len(s))
    BY <2>1, Zenon DEF IsReplaced, Step
  <2> QED
    BY <1>1, <2>2
<1> HIDE DEF f
<1>4. \A m \in 0..n : f[m] = Step(f, s, k, v, m)
  BY <1>3, Zenon DEF IsReplaced
<1> SUFFICES ASSUME NEW p \in 0..n
             PROVE  RestIs(s, k, v, p)
  BY <1>1
<1>5. PICK m \in 0..n : m = n - p /\ n - m = p /\ (m = 0 <=> p = n) /\ (n - m) + 1 = p + 1
  <2>1. n - p \in 0..n /\ n - (n - p) = p /\ (n - p = 0 <=> p = n)
    OBVIOUS
  <2> QED
    BY <2>1
<1>6. m - 1 = n - (p + 1) /\ m - l = n - (p + l)
  BY <1>1, <1>5
<1>7. IsPrefix(k, From(s, p)) <=> Occurs(s, k, p)
  BY <1>1, OccursAt
<1>8. f[m] = IF p = n THEN << >>
             ELSE IF Occurs(s, k, p) THEN v \o f[n - (p + l)]
             ELSE <<s[p + 1]>> \o f[n - (p + 1)]
  <2>1. f[m] = Step(f, s, k, v, m)
    BY <1>4
  <2> QED
    BY <1>1, <1>5, <1>6, <1>7, <2>1, Zenon DEF Step
<1>9. Rest(s, k, v, p) = f[m] /\ Rest(s, k, v, p + l) = f[n - (p + l)] /\ Rest(s, k, v, p + 1) = f[n - (p + 1)]
  BY <1>1, <1>2, <1>5, Zenon DEF Rest
<1> QED
  BY <1>1, <1>8, <1>9, Zenon DEF RestIs

-----------------------------------------------------------------------------
(* Equal ends become the same.                                             *)

\* Texts stay texts.
LEMMA RestTyped ==
  ASSUME NEW S, NEW s \in Seq(S), NEW k \in Seq(S), k # << >>, NEW v \in Seq(S)
  PROVE  \A p \in 0..Len(s) : Rest(s, k, v, p) \in Seq(S)
<1>1. PICK n \in Nat, l \in Nat : n = Len(s) /\ l = Len(k) /\ l # 0
  BY EmptySeq
<1> DEFINE T == {m \in Nat : m <= n => \A p \in n - m..n : Rest(s, k, v, p) \in Seq(S)}
<1>2. \A p \in 0..n : RestIs(s, k, v, p)
  BY <1>1, RestAt
<1>3. 0 \in T
  <2>1. \A p \in n - 0..n : p = n /\ p \in 0..n
    OBVIOUS
  <2>2. \A p \in n - 0..n : Rest(s, k, v, p) = << >>
    BY <1>1, <1>2, <2>1, Zenon DEF RestIs
  <2>3. << >> \in Seq(S)
    BY EmptySeq
  <2>4. \A p \in n - 0..n : Rest(s, k, v, p) \in Seq(S)
    BY <2>2, <2>3, Zenon
  <2> QED
    BY <2>4
<1>4. ASSUME NEW m \in Nat, m < n, m \in T
      PROVE  m + 1 \in T
  <2>1. \A p \in n - m..n : Rest(s, k, v, p) \in Seq(S)
    BY <1>4
  <2>2. PICK q \in 0..n : q = n - (m + 1) /\ q # n /\ q + 1 \in n - m..n /\ q + 1 \in 1..n
    <3>1. n - (m + 1) \in 0..n /\ n - (m + 1) # n /\ (n - (m + 1)) + 1 \in n - m..n /\ (n - (m + 1)) + 1 \in 1..n
      BY <1>4
    <3> QED
      BY <3>1
  <2>3. Rest(s, k, v, q) \in Seq(S)
    <3>1. Rest(s, k, v, q) = IF Occurs(s, k, q) THEN v \o Rest(s, k, v, q + l)
                             ELSE <<s[q + 1]>> \o Rest(s, k, v, q + 1)
      BY <1>1, <1>2, <2>2, Zenon DEF RestIs
    <3>2. CASE Occurs(s, k, q)
      <4>1. q + l <= n
        BY <1>1, <3>2, Zenon DEF Occurs
      <4>2. q + l \in n - m..n
        BY <1>1, <1>4, <2>2, <4>1
      <4>3. PICK x \in Seq(S) : x = Rest(s, k, v, q + l)
        BY <2>1, <4>2
      <4> QED
        BY <3>1, <3>2, <4>3, ConcatProperties
    <3>3. CASE ~Occurs(s, k, q)
      <4>1. PICK x \in Seq(S) : x = Rest(s, k, v, q + 1)
        BY <2>1, <2>2
      <4>2. PICK c \in S : c = s[q + 1]
        BY <1>1, <2>2, ElementOfSeq
      <4>3. <<c>> \in Seq(S)
        OBVIOUS
      <4>4. <<c>> \o x \in Seq(S)
        BY <4>3, ConcatProperties
      <4> QED
        BY <3>1, <3>3, <4>1, <4>2, <4>4, Zenon
    <3> QED
      BY <3>2, <3>3
  <2>4. \A p \in n - (m + 1)..n : p = q \/ p \in n - m..n
    BY <1>4, <2>2
  <2>5. \A p \in n - (m + 1)..n : Rest(s, k, v, p) \in Seq(S)
    BY <2>1, <2>3, <2>4, Zenon
  <2> QED
    BY <2>5
<1> HIDE DEF T
<1>5. \A m \in 0..n : m \in T
  BY <1>3, <1>4, UpTo
<1>6. ASSUME NEW p \in 0..n
      PROVE  Rest(s, k, v, p) \in Seq(S)
  <2>1. n \in 0..n /\ p \in n - n..n
    OBVIOUS
  <2> QED
    BY <1>5, <2>1 DEF T
<1> QED
  BY <1>1, <1>6

\* t ends as s does: what stands d places further on is the same.
EndsLike(s, t, p, q) ==
  Len(s) - p = Len(t) - q /\ \A i \in 1..Len(s) - p : s[p + i] = t[q + i]

\* Equal ends become the same.
LEMMA SameRest ==
  ASSUME NEW S, NEW s \in Seq(S), NEW t \in Seq(S), NEW k \in Seq(S), k # << >>, NEW v \in Seq(S),
         NEW p \in 0..Len(s), NEW q \in 0..Len(t), EndsLike(s, t, p, q)
  PROVE  Rest(s, k, v, p) = Rest(t, k, v, q)
<1>1. PICK n \in Nat, o \in Nat, l \in Nat : n = Len(s) /\ o = Len(t) /\ l = Len(k) /\ l # 0
  BY EmptySeq
<1>2. PICK e \in Nat : e = n - p /\ e = o - q /\ n = p + e /\ o = q + e
  <2>1. p \in 0..n /\ q \in 0..o /\ n - p = o - q
    BY <1>1, Zenon DEF EndsLike
  <2>2. n - p \in Nat /\ n = p + (n - p) /\ o = q + (n - p)
    BY <2>1
  <2> QED
    BY <2>1, <2>2, Zenon
<1>3. \A i \in 1..e : s[p + i] = t[q + i]
  BY <1>1, <1>2, Zenon DEF EndsLike
<1>4. (\A x \in 0..n : RestIs(s, k, v, x)) /\ \A x \in 0..o : RestIs(t, k, v, x)
  BY <1>1, RestAt
<1> DEFINE T == {m \in Nat : m <= e => \A x \in e - m..e : Rest(s, k, v, p + x) = Rest(t, k, v, q + x)}
<1>5. 0 \in T
  <2>1. \A x \in e - 0..e : p + x = n /\ q + x = o
    BY <1>2
  <2>2. n \in 0..n /\ o \in 0..o
    OBVIOUS
  <2>3. Rest(s, k, v, n) = << >> /\ Rest(t, k, v, o) = << >>
    BY <1>1, <1>4, <2>2, Zenon DEF RestIs
  <2>4. \A x \in e - 0..e : Rest(s, k, v, p + x) = Rest(t, k, v, q + x)
    BY <2>1, <2>3, Zenon
  <2> QED
    BY <2>4
<1>6. ASSUME NEW m \in Nat, m < e, m \in T
      PROVE  m + 1 \in T
  <2>1. \A x \in e - m..e : Rest(s, k, v, p + x) = Rest(t, k, v, q + x)
    BY <1>6
  <2>2. PICK x \in 0..e : x = e - (m + 1) /\ x # e /\ x + 1 \in e - m..e
    <3>1. e - (m + 1) \in 0..e /\ e - (m + 1) # e /\ (e - (m + 1)) + 1 \in e - m..e
      BY <1>6
    <3> QED
      BY <3>1
  <2>3. PICK a \in 0..n, b \in 0..o : a = p + x /\ b = q + x /\ a # n /\ b # o
    <3>1. p + x \in 0..n /\ q + x \in 0..o /\ p + x # n /\ q + x # o
      BY <1>1, <1>2, <2>2
    <3> QED
      BY <3>1
  <2>4. Occurs(s, k, a) <=> Occurs(t, k, b)
    <3>1. a + l <= n <=> b + l <= o
      BY <1>1, <1>2, <2>3
    <3>2. ASSUME a + l <= n, NEW j \in 1..l
          PROVE  s[a + j] = t[b + j]
      <4>1. x + j \in 1..e /\ p + (x + j) = a + j /\ q + (x + j) = b + j
        BY <1>1, <1>2, <2>3, <3>2
      <4> QED
        BY <1>3, <4>1, Zenon
    <3> QED
      BY <1>1, <3>1, <3>2, Zenon DEF Occurs
  <2>5. s[a + 1] = t[b + 1]
    <3>1. PICK y \in 1..e : p + y = a + 1 /\ q + y = b + 1
      <4>1. x + 1 \in 1..e /\ p + (x + 1) = a + 1 /\ q + (x + 1) = b + 1
        BY <1>2, <2>2, <2>3
      <4> QED
        BY <4>1
    <3>2. s[p + y] = t[q + y]
      BY <1>3
    <3> QED
      BY <3>1, <3>2
  <2>6. Rest(s, k, v, a + 1) = Rest(t, k, v, b + 1)
    <3>1. p + (x + 1) = a + 1 /\ q + (x + 1) = b + 1
      BY <1>2, <2>2, <2>3
    <3> QED
      BY <2>1, <2>2, <3>1, Zenon
  <2>7. Occurs(s, k, a) => Rest(s, k, v, a + l) = Rest(t, k, v, b + l)
    <3> SUFFICES ASSUME Occurs(s, k, a)
                 PROVE  Rest(s, k, v, a + l) = Rest(t, k, v, b + l)
      OBVIOUS
    <3>1. a + l <= n
      BY <1>1, Zenon DEF Occurs
    <3>2. x + l \in e - m..e /\ p + (x + l) = a + l /\ q + (x + l) = b + l
      BY <1>1, <1>2, <1>6, <2>2, <2>3, <3>1
    <3> QED
      BY <2>1, <3>2, Zenon
  <2>8. Rest(s, k, v, a) = IF Occurs(s, k, a) THEN v \o Rest(s, k, v, a + l)
                           ELSE <<s[a + 1]>> \o Rest(s, k, v, a + 1)
    BY <1>1, <1>4, <2>3, Zenon DEF RestIs
  <2>9. Rest(t, k, v, b) = IF Occurs(t, k, b) THEN v \o Rest(t, k, v, b + l)
                           ELSE <<t[b + 1]>> \o Rest(t, k, v, b + 1)
    BY <1>1, <1>4, <2>3, Zenon DEF RestIs
  <2>10. Rest(s, k, v, p + x) = Rest(t, k, v, q + x)
    BY <2>3, <2>4, <2>5, <2>6, <2>7, <2>8, <2>9, Zenon
  <2>11. \A y \in e - (m + 1)..e : y = x \/ y \in e - m..e
    BY <1>6, <2>2
  <2>12. \A y \in e - (m + 1)..e : Rest(s, k, v, p + y) = Rest(t, k, v, q + y)
    BY <2>1, <2>10, <2>11, Zenon
  <2>13. m + 1 \in Nat
    OBVIOUS
  <2> QED
    BY <2>12, <2>13, Zenon
<1> HIDE DEF T
<1>7. \A m \in 0..e : m \in T
  BY <1>5, <1>6, UpTo
<1>8. Rest(s, k, v, p + 0) = Rest(t, k, v, q + 0)
  <2>1. e \in 0..e /\ 0 \in e - e..e /\ e <= e
    OBVIOUS
  <2>2. e \in T
    BY <1>7, <2>1, Zenon
  <2>3. \A x \in e - e..e : Rest(s, k, v, p + x) = Rest(t, k, v, q + x)
    BY <2>1, <2>2, Zenon DEF T
  <2> QED
    BY <2>1, <2>3, Zenon
<1>9. p + 0 = p /\ q + 0 = q
  BY <1>1
<1> QED
  BY <1>8, <1>9, Zenon

-----------------------------------------------------------------------------
(* A turn of replaceTemplateWith.                                          *)

\* Joining three texts.
Regrouped(a, b, c) == (a \o b) \o c = a \o (b \o c)

LEMMA Regroup ==
  ASSUME NEW S, NEW a \in Seq(S), NEW b \in Seq(S), NEW c \in Seq(S)
  PROVE  Regrouped(a, b, c)
BY ConcatAssociative DEF Regrouped

\* Where the key does not stand, the text stays.
LEMMA NothingSkipped ==
  ASSUME NEW S, NEW s \in Seq(S), NEW k \in Seq(S), k # << >>, NEW v \in Seq(S),
         NEW p \in 0..Len(s), NEW q \in p..Len(s), Free(s, k, p, q)
  PROVE  Until(s, p) \o Rest(s, k, v, p) = Until(s, q) \o Rest(s, k, v, q)
<1>1. PICK n \in Nat, e \in Nat : n = Len(s) /\ e = q - p /\ q = p + e /\ p \in 0..n /\ q \in p..n
  <2>1. q - p \in Nat /\ q = p + (q - p)
    OBVIOUS
  <2> QED
    BY <2>1
<1> DEFINE Become(x) == Until(s, x) \o Rest(s, k, v, x)
<1> DEFINE T == {m \in Nat : m <= e => Become(p) = Become(p + m)}
<1>2. 0 \in T
  <2>1. p + 0 = p
    OBVIOUS
  <2> QED
    BY <2>1
<1>3. ASSUME NEW m \in Nat, m < e, m \in T
      PROVE  m + 1 \in T
  <2>1. Become(p) = Become(p + m)
    BY <1>3, SMTT(30)
  <2>2. PICK x \in 0..n : x = p + m /\ x # n /\ x + 1 = p + (m + 1) /\ x \in p..q - 1 /\ x + 1 \in 0..n
    <3>1. /\ p + m \in 0..n /\ p + m # n /\ (p + m) + 1 = p + (m + 1) /\ p + m \in p..q - 1
          /\ (p + m) + 1 \in 0..n
      BY <1>1, <1>3
    <3> QED
      BY <3>1
  <2>3. Rest(s, k, v, x) = <<s[x + 1]>> \o Rest(s, k, v, x + 1)
    <3>1. RestIs(s, k, v, x)
      BY <1>1, <2>2, RestAt
    <3> QED
      BY <1>1, <2>2, <3>1, Zenon DEF RestIs, Free
  <2>4. PICK a \in Seq(S) : a = Until(s, x) /\ Begins(a, s, x)
    BY <1>1, <2>2, FromAt
  <2>5. PICK b \in Seq(S) : b = Until(s, x + 1) /\ Begins(b, s, x + 1)
    BY <1>1, <2>2, FromAt
  <2>6. PICK c \in S : c = s[x + 1]
    <3>1. x + 1 \in 1..Len(s)
      BY <1>1, <2>2
    <3> QED
      BY <3>1, ElementOfSeq
  <2>7. b = a \o <<c>>
    <3>1. PICK d : d = <<c>>
      OBVIOUS
    <3>2. d \in Seq(S) /\ Len(d) = 1 /\ d[1] = c
      BY <3>1
    <3>3. PICK w \in Seq(S) : w = a \o d /\ JoinedAs(a, d, w)
      BY <3>2, Joined
    <3>4. Len(a) = x /\ (\A i \in 1..x : a[i] = s[i]) /\ Len(b) = x + 1 /\ \A i \in 1..x + 1 : b[i] = s[i]
      BY <2>4, <2>5, Zenon DEF Begins
    <3>5. Len(w) = x + 1 /\ (\A i \in 1..x : w[i] = a[i]) /\ w[x + 1] = c
      <4>1. Len(w) = x + 1 /\ (\A i \in 1..x : w[i] = a[i]) /\ \A i \in 1..1 : w[x + i] = d[i]
        BY <3>2, <3>3, <3>4, Zenon DEF JoinedAs
      <4> QED
        BY <3>2, <4>1
    <3>6. \A i \in 1..x + 1 : b[i] = w[i]
      <4>1. \A i \in 1..x + 1 : i \in 1..x \/ i = x + 1
        OBVIOUS
      <4> QED
        BY <2>6, <3>4, <3>5, <4>1, Zenon
    <3>7. b = w
      BY <3>4, <3>5, <3>6, EqualBy, Zenon
    <3> QED
      BY <3>1, <3>3, <3>7
  <2>8. PICK r \in Seq(S) : r = Rest(s, k, v, x + 1)
    BY <1>1, <2>2, RestTyped
  <2>9. PICK d \in Seq(S) : d = <<c>>
    <3>1. <<c>> \in Seq(S)
      OBVIOUS
    <3> QED
      BY <3>1, Zenon
  <2>10. a \o (<<c>> \o r) = (a \o <<c>>) \o r
    <3>1. Regrouped(a, d, r)
      BY Regroup
    <3> QED
      BY <2>9, <3>1, Zenon DEF Regrouped
  <2>11. Become(x) = Become(x + 1)
    BY <2>3, <2>4, <2>5, <2>6, <2>7, <2>8, <2>10, Zenon
  <2>12. Become(p) = Become(p + (m + 1))
    BY <2>1, <2>2, <2>11, Zenon
  <2>13. m + 1 \in Nat
    OBVIOUS
  <2> QED
    BY <2>12, <2>13, Zenon
<1> HIDE DEF T
<1>4. \A m \in 0..e : m \in T
  BY <1>2, <1>3, UpTo
<1>5. Become(p) = Become(p + e)
  <2>1. e \in 0..e /\ e <= e
    OBVIOUS
  <2> HIDE DEF Become
  <2> QED
    BY <1>4, <2>1, Zenon DEF T
<1> QED
  BY <1>1, <1>5, Zenon

\* A place in Templates, and the texts of a run.
EditTypeOK ==
  op = "replaceTemplateWith" =>
    /\ str \in Seq(Chars) /\ key \in Seq(Chars) \ {<< >>} /\ value \in Seq(Chars)
    /\ index2 \in 0..Len(str)

\* t is s with v in the place of the key behind i characters, and the same
\* becomes of both.
Turned(t, s, k, v, p, i) ==
  /\ t = Until(s, i) \o v \o From(s, i + Len(k)) /\ i + Len(v) \in 0..Len(t)
  /\ Until(s, p) \o Rest(s, k, v, p) = Until(t, i + Len(v)) \o Rest(t, k, v, i + Len(v))

\* A turn that finds the key.
LEMMA TurnReplaces ==
  ASSUME NEW S, NEW s \in Seq(S), NEW k \in Seq(S), k # << >>, NEW v \in Seq(S),
         NEW p \in 0..Len(s), NEW i \in p..Len(s), Occurs(s, k, i),
         Free(s, k, p, i)
  PROVE  \E t \in Seq(S) : Turned(t, s, k, v, p, i)
<1>1. PICK n \in Nat, l \in Nat, h \in Nat : n = Len(s) /\ l = Len(k) /\ h = Len(v) /\ l # 0
  BY EmptySeq
<1>2. i \in Nat /\ i \in 0..n /\ i + l \in 0..n /\ i # n
  <2>1. i + l <= n
    BY <1>1, Zenon DEF Occurs
  <2> QED
    BY <1>1, <2>1
<1>3. PICK a \in Seq(S) : a = Until(s, i) /\ Begins(a, s, i)
  BY <1>1, <1>2, FromAt
<1>4. PICK d \in Nat : d = i + l
  BY <1>2
<1>5. PICK b \in Seq(S) : b = From(s, d) /\ Slice(b, s, d, n)
  BY <1>1, <1>2, <1>4, FromAt
<1>6. PICK av \in Seq(S) : av = a \o v /\ JoinedAs(a, v, av)
  BY Joined
<1>7. PICK t \in Seq(S) : t = av \o b /\ JoinedAs(av, b, t)
  BY Joined
<1>8. t = Until(s, i) \o v \o From(s, i + Len(k))
  BY <1>1, <1>3, <1>4, <1>5, <1>6, <1>7, Zenon
<1>9. PICK q \in Nat : q = i + h
  BY <1>2
<1>10. Len(a) = i /\ Len(b) = n - d
  BY <1>3, <1>5, Zenon DEF Begins, Slice
<1>11. Len(av) = q
  BY <1>1, <1>6, <1>9, <1>10, Zenon DEF JoinedAs
<1>12. PICK o \in Nat : o = Len(t) /\ o = q + (n - d) /\ q \in 0..o
  <2>1. Len(t) = q + (n - d)
    BY <1>7, <1>10, <1>11, Zenon DEF JoinedAs
  <2>2. q + (n - d) \in Nat /\ q \in 0..q + (n - d)
    BY <1>2, <1>4
  <2> QED
    BY <2>1, <2>2, Zenon
<1>13. Until(t, q) = av
  <2>1. PICK u \in Seq(S) : u = Until(t, q) /\ Begins(u, t, q)
    BY <1>12, FromAt
  <2>2. Len(u) = q /\ \A j \in 1..q : u[j] = t[j]
    BY <2>1, Zenon DEF Begins
  <2>3. \A j \in 1..q : t[j] = av[j]
    BY <1>7, <1>11, Zenon DEF JoinedAs
  <2>4. \A j \in 1..q : u[j] = av[j]
    BY <2>2, <2>3, Zenon
  <2> QED
    BY <1>11, <2>1, <2>2, <2>4, EqualBy, Zenon
<1>14. EndsLike(s, t, d, q)
  <2>1. n - d = o - q
    BY <1>2, <1>4, <1>12
  <2>2. ASSUME NEW j \in 1..n - d
        PROVE  s[d + j] = t[q + j]
    <3>1. b[j] = s[d + j]
      BY <1>5, Zenon DEF Slice
    <3>2. t[q + j] = b[j]
      BY <1>7, <1>10, <1>11, Zenon DEF JoinedAs
    <3> QED
      BY <3>1, <3>2, Zenon
  <2> QED
    BY <1>1, <1>12, <2>1, <2>2, Zenon DEF EndsLike
<1>15. Rest(s, k, v, d) = Rest(t, k, v, q)
  <2>1. d \in 0..Len(s) /\ q \in 0..Len(t)
    BY <1>1, <1>2, <1>4, <1>12
  <2> QED
    BY <1>14, <2>1, SameRest
<1>16. Rest(s, k, v, i) = v \o Rest(s, k, v, d)
  <2>1. RestIs(s, k, v, i)
    BY <1>1, <1>2, RestAt
  <2> QED
    BY <1>1, <1>2, <1>4, <2>1, Zenon DEF RestIs
<1>17. Until(s, p) \o Rest(s, k, v, p) = a \o Rest(s, k, v, i)
  <2>1. Until(s, p) \o Rest(s, k, v, p) = Until(s, i) \o Rest(s, k, v, i)
    BY NothingSkipped
  <2> QED
    BY <1>3, <2>1, Zenon
<1>18. PICK r \in Seq(S) : r = Rest(s, k, v, d)
  BY <1>1, <1>2, <1>4, RestTyped
<1>19. a \o (v \o r) = av \o r
  <2>1. Regrouped(a, v, r)
    BY Regroup
  <2> QED
    BY <1>6, <2>1, Zenon DEF Regrouped
<1>20. Until(s, p) \o Rest(s, k, v, p) = Until(t, q) \o Rest(t, k, v, q)
  BY <1>13, <1>15, <1>16, <1>17, <1>18, <1>19, Zenon
<1> QED
  BY <1>1, <1>8, <1>9, <1>12, <1>20, Zenon DEF Turned

-----------------------------------------------------------------------------
(* The property of replaceTemplateWith.                                    *)

\* A turn that does not.
LEMMA TurnEnds ==
  ASSUME NEW S, NEW s \in Seq(S), NEW k \in Seq(S), k # << >>, NEW v \in Seq(S),
         NEW p \in 0..Len(s), \A j \in p..Len(s) : ~Occurs(s, k, j)
  PROVE  Until(s, p) \o Rest(s, k, v, p) = Until(s, p) \o From(s, p)
<1>1. PICK n \in Nat : n = Len(s) /\ p \in 0..n /\ n \in p..n
  OBVIOUS
<1>2. Free(s, k, p, n)
  BY <1>1 DEF Free
<1>3. Until(s, p) \o Rest(s, k, v, p) = Until(s, n) \o Rest(s, k, v, n)
  BY <1>1, <1>2, NothingSkipped
<1>4. Rest(s, k, v, n) = << >>
  <2>1. RestIs(s, k, v, n)
    BY <1>1, RestAt
  <2> QED
    BY <1>1, <2>1, Zenon DEF RestIs
<1>5. PICK u \in Seq(S) : u = Until(s, n) /\ Begins(u, s, n)
  BY <1>1, FromAt
<1>6. u \o << >> = u
  BY ConcatEmptySeq
<1>7. u = s
  BY <1>1, <1>5, EqualBy, Zenon DEF Begins
<1>8. Until(s, p) \o From(s, p) = s
  <2>1. PICK a \in Seq(S) : a = Until(s, p) /\ Begins(a, s, p)
    BY <1>1, FromAt
  <2>2. PICK b \in Seq(S) : b = From(s, p) /\ Slice(b, s, p, n)
    BY <1>1, FromAt
  <2>3. PICK w \in Seq(S) : w = a \o b /\ JoinedAs(a, b, w)
    BY Joined
  <2>4. Len(a) = p /\ Len(b) = n - p /\ (\A i \in 1..p : a[i] = s[i]) /\ \A i \in 1..n - p : b[i] = s[p + i]
    BY <2>1, <2>2, Zenon DEF Begins, Slice
  <2>5. Len(w) = n /\ (\A i \in 1..p : w[i] = s[i]) /\ \A i \in 1..n - p : w[p + i] = s[p + i]
    <3>1. Len(w) = p + (n - p) /\ (\A i \in 1..p : w[i] = a[i]) /\ \A i \in 1..n - p : w[p + i] = b[i]
      BY <2>3, <2>4, Zenon DEF JoinedAs
    <3>2. p + (n - p) = n
      BY <1>1
    <3> QED
      BY <2>4, <3>1, <3>2, Zenon
  <2>6. ASSUME NEW i \in 1..n
        PROVE  w[i] = s[i]
    <3>1. i \in 1..p \/ \E j \in 1..n - p : i = p + j
      <4>1. i \notin 1..p => i - p \in 1..n - p /\ i = p + (i - p)
        BY <1>1
      <4> QED
        BY <4>1, Zenon
    <3> QED
      BY <2>5, <3>1, Zenon
  <2>7. w = s
    BY <1>1, <2>5, <2>6, EqualBy, Zenon
  <2> QED
    BY <2>1, <2>2, <2>3, <2>7, Zenon
<1> QED
  BY <1>3, <1>4, <1>5, <1>6, <1>7, <1>8, Zenon

\* The texts of a run of replaceTemplateWith are texts, and what is still to
\* be searched begins inside.
LEMMA EditTyped == StringSpec => []EditTypeOK
<1>1. StringInit => EditTypeOK
  <2> SUFFICES ASSUME StringInit, op = "replaceTemplateWith"
               PROVE  /\ str \in Seq(Chars) /\ key \in Seq(Chars) \ {<< >>}
                      /\ value \in Seq(Chars) /\ index2 \in 0..Len(str)
    BY DEF EditTypeOK
  <2>1. str \in Templates /\ key \in Keys /\ value \in Values /\ index2 = 0
    BY DEF StringInit, Converts, Edits
  <2>2. str \in Seq(Chars) /\ key \in Seq(Chars) \ {<< >>} /\ value \in Seq(Chars)
    BY <2>1, TextsAssumption, Zenon
  <2>3. Len(str) \in Nat
    BY <2>2
  <2> QED
    BY <2>1, <2>2, <2>3
<1>2. EditTypeOK /\ [StringNext]_stringVars => EditTypeOK'
  <2> SUFFICES ASSUME EditTypeOK, [StringNext]_stringVars
               PROVE  EditTypeOK'
    OBVIOUS
  <2>1. CASE replaceTemplateWith
    <3>1. PICK i : i = findFrom(str, key, index2)
      OBVIOUS
    <3>2. /\ op = "replaceTemplateWith" /\ op' = op /\ key' = key /\ value' = value
          /\ IF i = -1 THEN Stop(str)
             ELSE GoOn(Until(str, i) \o value \o From(str, i + Len(key)), i + Len(value))
      BY <2>1, <3>1, Zenon DEF replaceTemplateWith
    <3>3. /\ str \in Seq(Chars) /\ key \in Seq(Chars) /\ key # << >> /\ value \in Seq(Chars)
          /\ index2 \in 0..Len(str)
      BY <3>2 DEF EditTypeOK
    <3>4. FirstOf(i, str, key, index2)
      BY <3>1, <3>3, FoundBy
    <3>5. CASE i = -1
      <4>1. str' = str /\ index2' = index2
        BY <3>2, <3>5 DEF Stop
      <4> QED
        BY <3>2, <3>3, <4>1 DEF EditTypeOK
    <3>6. CASE i # -1
      <4>1. i \in index2..Len(str) /\ Occurs(str, key, i) /\ Free(str, key, index2, i)
        BY <3>4, <3>6, Zenon DEF FirstOf
      <4>2. PICK t \in Seq(Chars) : Turned(t, str, key, value, index2, i)
        BY <3>3, <4>1, TurnReplaces
      <4>3. str' = t /\ index2' = i + Len(value)
        BY <3>2, <3>6, <4>2, Zenon DEF GoOn, Turned
      <4>4. str' \in Seq(Chars) /\ index2' \in 0..Len(str')
        BY <4>2, <4>3, Zenon DEF Turned
      <4> QED
        BY <3>2, <3>3, <4>4, Zenon DEF EditTypeOK
    <3> QED
      BY <3>5, <3>6
  <2>2. CASE removePhraseAfter
    BY <2>2 DEF removePhraseAfter, EditTypeOK
  <2>3. CASE UNCHANGED stringVars
    BY <2>3 DEF stringVars, EditTypeOK
  <2> QED
    BY <2>1, <2>2, <2>3 DEF StringNext
<1> QED
  BY <1>1, <1>2, PTL DEF StringSpec

\* replaceTemplateWith replaces each place where the key stands, from the left,
\* and nothing else: a value is not searched again (StringModifier.cpp:26-35).
THEOREM ReplacesCorrect == StringSpec => ReplacesRest
<1>1. EditTypeOK /\ [StringNext]_stringVars =>
        [op = "replaceTemplateWith" =>
           Until(str, index2) \o Replaced(str, key, value, Len(str) - index2)
             = Until(str', index2') \o
                 (IF done' THEN From(str', index2')
                  ELSE Replaced(str', key, value, Len(str') - index2'))]_stringVars
  <2> SUFFICES ASSUME EditTypeOK, [StringNext]_stringVars, op = "replaceTemplateWith",
                      ~UNCHANGED stringVars
               PROVE  Until(str, index2) \o Rest(str, key, value, index2)
                        = Until(str', index2') \o
                            (IF done' THEN From(str', index2')
                             ELSE Rest(str', key, value, index2'))
    BY DEF Rest
  <2>1. replaceTemplateWith
    BY DEF StringNext, removePhraseAfter
  <2>2. PICK i : i = findFrom(str, key, index2)
    OBVIOUS
  <2>3. /\ ~done
        /\ IF i = -1 THEN Stop(str)
           ELSE GoOn(Until(str, i) \o value \o From(str, i + Len(key)), i + Len(value))
    BY <2>1, <2>2, Zenon DEF replaceTemplateWith
  <2>4. /\ str \in Seq(Chars) /\ key \in Seq(Chars) /\ key # << >> /\ value \in Seq(Chars)
        /\ index2 \in 0..Len(str)
    BY DEF EditTypeOK
  <2>5. FirstOf(i, str, key, index2)
    BY <2>2, <2>4, FoundBy
  <2>6. CASE i = -1
    <3>1. str' = str /\ index2' = index2 /\ done' = TRUE
      BY <2>3, <2>6 DEF Stop
    <3>2. \A j \in index2..Len(str) : ~Occurs(str, key, j)
      <4>1. -1 \notin index2..Len(str)
        BY <2>4
      <4> QED
        BY <2>5, <2>6, <4>1, Zenon DEF FirstOf
    <3>3. Until(str, index2) \o Rest(str, key, value, index2) = Until(str, index2) \o From(str, index2)
      BY <2>4, <3>2, TurnEnds
    <3> QED
      BY <3>1, <3>3, Zenon
  <2>7. CASE i # -1
    <3>1. /\ i \in index2..Len(str) /\ Occurs(str, key, i)
          /\ Free(str, key, index2, i)
      BY <2>5, <2>7, Zenon DEF FirstOf
    <3>2. PICK t \in Seq(Chars) : Turned(t, str, key, value, index2, i)
      BY <2>4, <3>1, TurnReplaces
    <3>3. str' = t /\ index2' = i + Len(value) /\ done' = done
      BY <2>3, <2>7, <3>2, Zenon DEF GoOn, Turned
    <3> QED
      BY <2>3, <3>2, <3>3, Zenon DEF Turned
  <2> QED
    BY <2>6, <2>7
<1>2. StringSpec => []EditTypeOK /\ [][StringNext]_stringVars
  BY EditTyped, PTL DEF StringSpec
<1> QED
  BY <1>1, <1>2, PTL DEF ReplacesRest
=============================================================================
