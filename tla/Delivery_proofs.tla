--------------------------- MODULE Delivery_proofs ---------------------------
(* Proofs about the way of a message: FrameStream, for any number of threads *)
(* that write, frames, and sizes of the buffers; and PageRequest, for any    *)
(* threads, addresses and requests.                                          *)
EXTENDS FrameStream, PageRequest, WellFoundedInduction, SequenceTheorems, TLAPS

-----------------------------------------------------------------------------
(* Frames and finding them.                                                  *)

LEMMA FrameFacts ==
  ASSUME NEW n \in Nat
  PROVE  /\ Len(FrameOf(n)) = 6 /\ DOMAIN FrameOf(n) = 1..6
         /\ FrameOf(n)[1] = -1 /\ FrameOf(n)[2] = -2
         /\ FrameOf(n)[3] = n /\ FrameOf(n)[4] = n
         /\ FrameOf(n)[5] = -3 /\ FrameOf(n)[6] = -4
BY DEF FrameOf, preStringBeacon, postStringBeacon, Text

LEMMA FrameTokens ==
  ASSUME NEW n \in 1..MaxFrames
  PROVE  FrameOf(n) \in Seq(Token)
<1>1. n \in Nat /\ n \in Token
  BY BoundsAssumption DEF Token
<1>2. <<-1, -2>> \in Seq(Token) /\ <<n, n>> \in Seq(Token) /\ <<-3, -4>> \in Seq(Token)
  BY <1>1 DEF Token
<1> QED
  BY <1>2 DEF FrameOf, preStringBeacon, postStringBeacon, Text

LEMMA Least ==
  ASSUME NEW S \in SUBSET Nat, S # {}
  PROVE  Min(S) \in S /\ \A y \in S : Min(S) <= y
<1> DEFINE R == OpToRel(<, Nat)
<1>1. IsWellFoundedOn(R, Nat)
  BY NatLessThanWellFounded
<1>2. \A x, y \in Nat : y < x => <<y, x>> \in R
  BY DEF OpToRel
<1> HIDE DEF R
<1>3. PICK x \in S : \A y \in S : ~(<<y, x>> \in R)
  BY <1>1, WFMin
<1>4. \A y \in S : ~(y < x)
  BY <1>2, <1>3
<1>5. \A y \in S : x <= y
  BY <1>4, S \subseteq Nat
<1> QED
  BY <1>5 DEF Min

LEMMA LeastOfTwo ==
  ASSUME NEW a \in Int, NEW b \in Int
  PROVE  Min({a, b}) = IF a <= b THEN a ELSE b
BY DEF Min

LEMMA IsPair ==
  ASSUME NEW S, NEW t \in Seq(S), Len(t) = 2, NEW a, NEW b
  PROVE  t = <<a, b>> <=> t[1] = a /\ t[2] = b
<1>1. ASSUME t[1] = a, t[2] = b
      PROVE  t = <<a, b>>
  <2>1. a \in S /\ b \in S
    <3>1. t[1] \in S /\ t[2] \in S
      BY ElementOfSeq, 1 \in 1..Len(t), 2 \in 1..Len(t)
    <3> QED
      BY <1>1, <3>1
  <2>2. <<a, b>> \in Seq(S) /\ Len(<<a, b>>) = 2
    BY <2>1
  <2>3. \A k \in 1..2 : t[k] = <<a, b>>[k]
    BY <1>1
  <2> QED
    BY <2>2, <2>3, SeqEqual
<1> QED
  BY <1>1

\* What a concatenation and a suffix hold.
LEMMA Appended ==
  ASSUME NEW S, NEW s \in Seq(S), NEW t \in Seq(S)
  PROVE  /\ s \o t \in Seq(S) /\ Len(s \o t) = Len(s) + Len(t)
         /\ \A i \in 1..Len(s) : (s \o t)[i] = s[i]
         /\ \A i \in 1..Len(t) : (s \o t)[Len(s) + i] = t[i]
OBVIOUS

LEMMA Part ==
  ASSUME NEW S, NEW s \in Seq(S), NEW m \in 1..Len(s) + 1, NEW n \in m - 1..Len(s)
  PROVE  /\ SubSeq(s, m, n) \in Seq(S) /\ Len(SubSeq(s, m, n)) = n - m + 1
         /\ \A i \in 1..n - m + 1 : SubSeq(s, m, n)[i] = s[m - 1 + i]
OBVIOUS

\* r is the first place of a pair from place i on, or 0.
FirstPair(s, a, b, i, r) ==
  /\ r # 0 => r \in i..Len(s) - 1 /\ s[r] = a /\ s[r + 1] = b
  /\ \A j \in i..Len(s) - 1 : s[j] = a /\ s[j + 1] = b => r # 0 /\ r <= j

\* find returns it.
LEMMA FindFacts ==
  ASSUME NEW S, NEW s \in Seq(S), NEW a, NEW b, NEW i \in Nat \ {0},
         NEW r, r = find(s, <<a, b>>, i)
  PROVE  FirstPair(s, a, b, i, r)
<1> DEFINE at == {j \in i..Len(s) - Len(<<a, b>>) + 1 : SubSeq(s, j, j + Len(<<a, b>>) - 1) = <<a, b>>}
<1>1. Len(s) \in Nat /\ Len(<<a, b>>) = 2
  OBVIOUS
<1>2. \A j \in i..Len(s) - 1 : SubSeq(s, j, j + 1) = <<a, b>> <=> s[j] = a /\ s[j + 1] = b
  <2> TAKE j \in i..Len(s) - 1
  <2> DEFINE t == SubSeq(s, j, j + 1)
  <2>1. t \in Seq(S) /\ Len(t) = 2 /\ t[1] = s[j] /\ t[2] = s[j + 1]
    OBVIOUS
  <2> HIDE DEF t
  <2>2. t = <<a, b>> <=> t[1] = a /\ t[2] = b
    BY <2>1, IsPair
  <2> QED
    BY <2>1, <2>2 DEF t
<1>3. at = {j \in i..Len(s) - 1 : s[j] = a /\ s[j + 1] = b}
  <2>1. \A j : j \in i..Len(s) - Len(<<a, b>>) + 1 <=> j \in i..Len(s) - 1
    BY <1>1
  <2>2. \A j \in i..Len(s) - 1 : j + Len(<<a, b>>) - 1 = j + 1
    BY <1>1
  <2> QED
    BY <1>2, <2>1, <2>2
<1>4. find(s, <<a, b>>, i) = IF at = {} THEN 0 ELSE Min(at)
  BY DEF find
<1>5. at \in SUBSET Nat
  BY <1>1, <1>3
<1> HIDE DEF at
<1>6. CASE at = {}
  BY <1>3, <1>4, <1>6 DEF FirstPair
<1>7. CASE at # {}
  <2>1. Min(at) \in at /\ \A j \in at : Min(at) <= j
    BY <1>5, <1>7, Least
  <2>2. r \in at /\ \A j \in at : r <= j
    BY <1>4, <1>7, <2>1, Zenon
  <2>3. r \in i..Len(s) - 1 /\ s[r] = a /\ s[r + 1] = b
    BY <1>3, <2>2
  <2>4. r # 0
    BY <1>1, <2>3
  <2>5. \A j \in i..Len(s) - 1 : s[j] = a /\ s[j + 1] = b => r <= j
    BY <1>3, <2>2
  <2> QED
    BY <2>3, <2>4, <2>5 DEF FirstPair
<1> QED
  BY <1>6, <1>7

-----------------------------------------------------------------------------
(* What has been written, received and cut.                                  *)

Bytes == [frame : 1..MaxFrames, byte : 1..6]

\* The i-th byte written.
Byte(i) == FrameOf(log[i].frame)[log[i].byte]

\* Byte k of frame n, once started, has been written.
Sent(n, k) == \A w \in Writers : writing[w] = n => k <= Written(w)

\* Who writes what: the rest of a frame of its own.
WritersInv ==
  \A w \in Writers :
     /\ writing[w] \in 0..started /\ Len(pending[w]) <= 6
     /\ writing[w] = 0 => pending[w] = << >>
     /\ \A v \in Writers : v # w /\ writing[v] = writing[w] => writing[w] = 0
     /\ \A k \in 1..Len(pending[w]) : pending[w][k] = FrameOf(writing[w])[Written(w) + k]

\* Every byte has been written or is pending, and the bytes of a frame come in
\* their order.
LogInv ==
  /\ \A i \in DOMAIN log : log[i].frame <= started /\ Sent(log[i].frame, log[i].byte)
  /\ \A n \in 1..started, k \in 1..6 :
        Sent(n, k) => \E i \in DOMAIN log : log[i] = [frame |-> n, byte |-> k]
  /\ \A i, j \in DOMAIN log :
        i < j /\ log[i].frame = log[j].frame => log[i].byte < log[j].byte

\* TCP and fullBuffer hold the bytes written last; fullBuffer begins after a
\* beacon.
BufferInv ==
  /\ Cut >= 0
  /\ \A i \in DOMAIN fullBuffer : fullBuffer[i] = Byte(Cut + i)
  /\ \A i \in DOMAIN stream : stream[i] = Byte(Cut + Len(fullBuffer) + i)
  /\ Cut # 0 => Byte(Cut) = -4

\* The text of frame n was written at i.
TextAt(n, i) == log[i] = [frame |-> n, byte |-> 3]

\* What comes out was written, and in this order.
OutInv ==
  /\ \A k \in DOMAIN out : \E i \in 1..Cut : TextAt(out[k], i)
  /\ \A k, l \in DOMAIN out : k < l =>
        \A i, j \in DOMAIN log : TextAt(out[k], i) /\ TextAt(out[l], j) => i < j

\* Frame n was written in one piece after the first q bytes, and nothing that
\* was begun before is continued after it.
Whole(n, q) == \A k \in 1..6 : q + k \in DOMAIN log /\ log[q + k] = [frame |-> n, byte |-> k]
Clean(q)    == \A i \in 1..q : \E j \in 1..q : log[j] = [frame |-> log[i].frame, byte |-> 6]

\* Such a frame is still to be cut out, or has come out.
ArriveInv ==
  \A n \in 1..started, q \in 0..Len(log) :
     Clean(q) /\ Whole(n, q) => q >= Cut \/ Contains(out, n)

\* The receive thread waits with nothing left that it could cut out.
IdleInv == ~parsing => index0 = 0 \/ index1 = 0

\* In the b bytes after c, the first preStringBeacon is at i0, and the first
\* postStringBeacon after that at i1.
Found(c, b, i0, i1) ==
  /\ i0 > 0 /\ i0 + 2 <= i1 /\ i1 + 1 <= b /\ c + b <= Len(log)
  /\ Byte(c + i0) = -1 /\ Byte(c + (i0 + 1)) = -2
  /\ \A j \in 1..b - 1 : Byte(c + j) = -1 /\ Byte(c + (j + 1)) = -2 => i0 <= j
  /\ Byte(c + i1) = -3 /\ Byte(c + (i1 + 1)) = -4
  /\ \A j \in i0 + 2..b - 1 : Byte(c + j) = -3 /\ Byte(c + (j + 1)) = -4 => i1 <= j

\* Inductive.
ReceiveInv == /\ StreamTypeOK /\ WritersInv /\ LogInv /\ BufferInv
              /\ OutInv /\ ArriveInv /\ IdleInv

LEMMA Types ==
  ASSUME StreamTypeOK
  PROVE  /\ log \in Seq(Bytes) /\ started \in Nat
         /\ \A w \in Writers : Written(w) = 6 - Len(pending[w]) /\ pending[w] \in Seq(Token)
                               /\ writing[w] \in Nat
<1>1. Len(FrameOf(1)) = 6
  BY FrameFacts, 1 \in Nat
<1>2. \A w \in Writers : writing[w] \in Nat /\ pending[w] \in Seq(Token)
  BY BoundsAssumption DEF StreamTypeOK
<1>3. \A w \in Writers : Len(FrameOf(writing[w])) = 6
  BY <1>2, FrameFacts
<1>4. log \in Seq([frame : 1..MaxFrames, byte : 1..Len(FrameOf(1))])
  BY DEF StreamTypeOK
<1>5. log \in Seq(Bytes)
  BY <1>1, <1>4, Zenon DEF Bytes
<1>6. started \in Nat
  BY BoundsAssumption DEF StreamTypeOK
<1>7. \A w \in Writers : Written(w) = 6 - Len(pending[w])
  BY <1>3, Zenon DEF Written
<1> QED
  BY <1>2, <1>5, <1>6, <1>7

\* What a byte written tells.
LEMMA ByteFacts ==
  ASSUME StreamTypeOK, NEW i \in DOMAIN log
  PROVE  /\ log[i] \in Bytes /\ log[i].frame \in 1..MaxFrames /\ log[i].byte \in 1..6
         /\ log[i] = [frame |-> log[i].frame, byte |-> log[i].byte]
         /\ log[i].byte = 1 <=> Byte(i) = -1
         /\ log[i].byte = 2 <=> Byte(i) = -2
         /\ log[i].byte \in {3, 4} <=> Byte(i) > 0
         /\ log[i].byte \in {3, 4} => Byte(i) = log[i].frame
         /\ log[i].byte = 5 <=> Byte(i) = -3
         /\ log[i].byte = 6 <=> Byte(i) = -4
         /\ Byte(i) \in Int
<1>1. log[i] \in Bytes
  <2>1. log \in Seq(Bytes)
    BY Types
  <2> QED
    BY <2>1
<1> DEFINE n == log[i].frame
           k == log[i].byte
<1>2. n \in 1..MaxFrames /\ k \in 1..6 /\ log[i] = [frame |-> n, byte |-> k]
  BY <1>1 DEF Bytes
<1>3. n \in Nat /\ n > 0
  BY <1>2, BoundsAssumption
<1>4. /\ FrameOf(n)[1] = -1 /\ FrameOf(n)[2] = -2 /\ FrameOf(n)[3] = n
      /\ FrameOf(n)[4] = n /\ FrameOf(n)[5] = -3 /\ FrameOf(n)[6] = -4
  BY <1>3, FrameFacts
<1>5. Byte(i) = FrameOf(n)[k]
  BY DEF Byte
<1> HIDE DEF n, k
<1>6. k = 1 \/ k = 2 \/ k = 3 \/ k = 4 \/ k = 5 \/ k = 6
  BY <1>2
<1>7. /\ k = 1 => Byte(i) = -1
      /\ k = 2 => Byte(i) = -2
      /\ k = 3 \/ k = 4 => Byte(i) = n
      /\ k = 5 => Byte(i) = -3
      /\ k = 6 => Byte(i) = -4
  BY <1>4, <1>5
<1>8. /\ n \in 1..MaxFrames /\ k \in 1..6 /\ log[i] = [frame |-> n, byte |-> k]
      /\ k = 1 <=> Byte(i) = -1
      /\ k = 2 <=> Byte(i) = -2
      /\ k \in {3, 4} <=> Byte(i) > 0
      /\ k \in {3, 4} => Byte(i) = n
      /\ k = 5 <=> Byte(i) = -3
      /\ k = 6 <=> Byte(i) = -4
      /\ Byte(i) \in Int
  BY <1>2, <1>3, <1>6, <1>7
<1> QED
  BY <1>1, <1>8 DEF n, k

\* A byte was written once.
LEMMA Once ==
  ASSUME StreamTypeOK, LogInv, NEW i \in DOMAIN log, NEW j \in DOMAIN log, log[i] = log[j]
  PROVE  i = j
<1>1. i \in Nat /\ j \in Nat /\ log[i].byte \in 1..6
  BY ByteFacts, Types
<1>2. ~(i < j) /\ ~(j < i)
  BY <1>1 DEF LogInv
<1> QED
  BY <1>1, <1>2

\* What a write leaves behind.
LEMMA WriteEffect ==
  ASSUME StreamTypeOK, WritersInv, NEW w \in Writers, Write(w)
  PROVE  \E n \in Nat :
           /\ n > 0 /\ n <= Len(pending[w]) /\ Len(stream) + n <= Capacity
           /\ writing[w] \in 1..started /\ started \in Nat
           /\ pending' = [pending EXCEPT ![w] = SubSeq(pending[w], n + 1, Len(pending[w]))]
           /\ log' \in Seq(Bytes) /\ Len(log') = Len(log) + n
           /\ \A i \in 1..Len(log) : log'[i] = log[i]
           /\ \A i \in 1..n : log'[Len(log) + i] = [frame |-> writing[w], byte |-> Written(w) + i]
           /\ stream' \in Seq(Token) /\ Len(stream') = Len(stream) + n
           /\ \A i \in 1..Len(stream) : stream'[i] = stream[i]
           /\ \A i \in 1..n : stream'[Len(stream) + i] = FrameOf(writing[w])[Written(w) + i]
           /\ UNCHANGED <<started, writing, fullBuffer, parsing, out>>
<1> DEFINE p == pending[w]
           n == Min({Len(p), Capacity - Len(stream)})
           bytes == SubSeq(p, 1, n)
           more == [i \in 1..n |-> [frame |-> writing[w], byte |-> Written(w) + i]]
<1>1. /\ p \in Seq(Token) /\ Len(p) \in Nat /\ stream \in Seq(Token) /\ Len(stream) \in Nat
      /\ Capacity \in Int /\ log \in Seq(Bytes)
      /\ Written(w) = 6 - Len(p) /\ writing[w] \in 0..MaxFrames /\ MaxFrames \in Nat
  <2>1. p \in Seq(Token) /\ Written(w) = 6 - Len(p) /\ log \in Seq(Bytes)
    BY Types
  <2>2. stream \in Seq(Token) /\ writing[w] \in 0..MaxFrames
    BY DEF StreamTypeOK
  <2>3. Capacity \in Int /\ MaxFrames \in Nat
    BY BoundsAssumption
  <2> HIDE DEF p
  <2>4. Len(p) \in Nat /\ Len(stream) \in Nat
    BY <2>1, <2>2
  <2> QED
    BY <2>1, <2>2, <2>3, <2>4
<1>2. /\ n > 0 /\ stream' = stream \o bytes /\ log' = log \o more
      /\ pending' = [pending EXCEPT ![w] = SubSeq(p, n + 1, Len(p))]
      /\ UNCHANGED <<started, writing, fullBuffer, parsing, out>>
  BY DEF Write
<1>3. n = IF Len(p) <= Capacity - Len(stream) THEN Len(p) ELSE Capacity - Len(stream)
  <2>1. Len(p) \in Int /\ Capacity - Len(stream) \in Int
    BY <1>1
  <2> QED
    BY <2>1, LeastOfTwo, Zenon
<1> HIDE DEF n
<1>4. n \in Nat /\ n > 0 /\ n <= Len(p) /\ Len(stream) + n <= Capacity
  <2> HIDE DEF p
  <2> QED
    BY <1>1, <1>2, <1>3
<1>5. /\ Len(p) <= 6 /\ writing[w] # 0 /\ writing[w] \in 1..started /\ started \in Nat
      /\ \A k \in 1..Len(p) : p[k] = FrameOf(writing[w])[Written(w) + k]
  <2>1. /\ writing[w] \in 0..started /\ Len(p) <= 6
        /\ writing[w] = 0 => p = << >>
        /\ \A k \in 1..Len(p) : p[k] = FrameOf(writing[w])[Written(w) + k]
    BY DEF WritersInv
  <2>2. started \in Nat
    BY Types
  <2> HIDE DEF p
  <2>3. writing[w] # 0
    BY <1>4, <2>1
  <2> QED
    BY <2>1, <2>2, <2>3
<1> HIDE DEF p
<1>6. /\ bytes \in Seq(Token) /\ Len(bytes) = n
      /\ \A i \in 1..n : bytes[i] = FrameOf(writing[w])[Written(w) + i]
  <2>1. \A i \in 1..n : p[i] \in Token /\ i \in 1..Len(p)
    BY <1>1, <1>4
  <2>2. /\ bytes \in Seq(Token) /\ Len(bytes) = n
        /\ \A i \in 1..n : bytes[i] = p[i]
    BY <1>1, <1>4
  <2> QED
    BY <1>5, <2>1, <2>2
<1>7. /\ more \in Seq(Bytes) /\ Len(more) = n
      /\ \A i \in 1..n : more[i] = [frame |-> writing[w], byte |-> Written(w) + i]
  <2>1. writing[w] \in 1..MaxFrames
    BY <1>1, <1>5
  <2>2. \A i \in 1..n : Written(w) + i \in 1..6
    <3> DEFINE l == Len(p)
    <3>1. l <= 6 /\ Written(w) = 6 - l /\ l \in Nat /\ n \in Nat /\ n <= l
      BY <1>1, <1>4, <1>5
    <3> HIDE DEF l
    <3> QED
      BY <3>1
  <2>3. \A i \in 1..n : [frame |-> writing[w], byte |-> Written(w) + i] \in Bytes
    BY <2>1, <2>2 DEF Bytes
  <2>4. more \in [1..n -> Bytes]
    BY <2>3
  <2> QED
    BY <1>4, <2>4
<1> HIDE DEF bytes, more
<1>8. /\ stream' \in Seq(Token) /\ Len(stream') = Len(stream) + n
      /\ \A i \in 1..Len(stream) : stream'[i] = stream[i]
      /\ \A i \in 1..n : stream'[Len(stream) + i] = FrameOf(writing[w])[Written(w) + i]
  <2>1. /\ stream \in Seq(Token) /\ bytes \in Seq(Token) /\ Len(bytes) = n
        /\ stream' = stream \o bytes
    BY <1>1, <1>2, <1>6
  <2>2. PICK a \in Seq(Token), b \in Seq(Token) : a = stream /\ b = bytes
    BY <2>1
  <2>3. /\ a \o b \in Seq(Token) /\ Len(a \o b) = Len(a) + Len(b)
        /\ \A i \in 1..Len(a) : (a \o b)[i] = a[i]
        /\ \A i \in 1..Len(b) : (a \o b)[Len(a) + i] = b[i]
    OBVIOUS
  <2>4. stream' = a \o b /\ Len(b) = n
    BY <2>1, <2>2
  <2>5. /\ stream' \in Seq(Token) /\ Len(stream') = Len(stream) + n
        /\ \A i \in 1..Len(stream) : stream'[i] = stream[i]
        /\ \A i \in 1..n : stream'[Len(stream) + i] = bytes[i]
    BY <2>2, <2>3, <2>4
  <2> QED
    BY <1>6, <2>5
<1>9. /\ log' \in Seq(Bytes) /\ Len(log') = Len(log) + n
      /\ \A i \in 1..Len(log) : log'[i] = log[i]
      /\ \A i \in 1..n : log'[Len(log) + i] = [frame |-> writing[w], byte |-> Written(w) + i]
  <2>1. /\ log \in Seq(Bytes) /\ more \in Seq(Bytes) /\ Len(more) = n
        /\ log' = log \o more
    BY <1>1, <1>2, <1>7
  <2>2. PICK a \in Seq(Bytes), b \in Seq(Bytes) : a = log /\ b = more
    BY <2>1
  <2>3. /\ a \o b \in Seq(Bytes) /\ Len(a \o b) = Len(a) + Len(b)
        /\ \A i \in 1..Len(a) : (a \o b)[i] = a[i]
        /\ \A i \in 1..Len(b) : (a \o b)[Len(a) + i] = b[i]
    OBVIOUS
  <2>4. log' = a \o b /\ Len(b) = n
    BY <2>1, <2>2
  <2>5. /\ log' \in Seq(Bytes) /\ Len(log') = Len(log) + n
        /\ \A i \in 1..Len(log) : log'[i] = log[i]
        /\ \A i \in 1..n : log'[Len(log) + i] = more[i]
    BY <2>2, <2>3, <2>4
  <2> QED
    BY <1>7, <2>5
<1> QED
  BY <1>2, <1>4, <1>5, <1>8, <1>9 DEF p

-----------------------------------------------------------------------------
(* One lemma for each kind of step.                                          *)

\* A new frame: none of its bytes has been written.
LEMMA SendStep ==
  ASSUME ReceiveInv, NEW w \in Writers, send(w)
  PROVE  ReceiveInv'
<1>1. /\ StreamTypeOK /\ WritersInv /\ LogInv /\ BufferInv /\ OutInv /\ ArriveInv /\ IdleInv
      /\ started \in Nat /\ log \in Seq(Bytes) /\ MaxFrames \in Nat
  BY Types, BoundsAssumption DEF ReceiveInv
<1>0. PICK m \in Nat : m = started + 1
  BY <1>1
<1>2. /\ pending[w] = << >> /\ started < MaxFrames /\ started' = m
      /\ writing' = [writing EXCEPT ![w] = m]
      /\ pending' = [pending EXCEPT ![w] = FrameOf(m)]
      /\ UNCHANGED <<stream, fullBuffer, parsing, out, log>>
  BY <1>0 DEF send
<1>3. m \in 1..MaxFrames /\ m \in Nat
  BY <1>0, <1>1, <1>2
<1>4. FrameOf(m) \in Seq(Token) /\ Len(FrameOf(m)) = 6
  BY <1>3, FrameTokens, FrameFacts
<1>5. StreamTypeOK'
  BY <1>1, <1>2, <1>3, <1>4 DEF StreamTypeOK
<1>6. /\ writing'[w] = m /\ pending'[w] = FrameOf(m)
      /\ \A v \in Writers : v # w => writing'[v] = writing[v] /\ pending'[v] = pending[v]
  BY <1>1, <1>2 DEF StreamTypeOK
<1>7. /\ Written(w) = 6 /\ Written(w)' = 0
      /\ \A v \in Writers : v # w => Written(v)' = Written(v)
  BY <1>1, <1>2, <1>4, <1>6, Types DEF Written
<1>8. \A v \in Writers : writing[v] \in 0..started /\ writing[v] # m
  BY <1>0, <1>1, <1>2 DEF WritersInv
<1>9. WritersInv'
  <2> SUFFICES ASSUME NEW v \in Writers
               PROVE  /\ writing'[v] \in 0..m /\ Len(pending'[v]) <= 6
                      /\ writing'[v] = 0 => pending'[v] = << >>
                      /\ \A u \in Writers : u # v /\ writing'[u] = writing'[v] => writing'[v] = 0
                      /\ \A k \in 1..Len(pending'[v]) :
                            pending'[v][k] = FrameOf(writing'[v])[Written(v)' + k]
    BY <1>2 DEF WritersInv
  <2>1. CASE v = w
    <3>1. m # 0 /\ m \in 0..m
      BY <1>3
    <3>2. \A u \in Writers : u # v => writing'[u] # m
      BY <1>6, <1>8, <2>1
    <3>3. \A k \in 1..Len(FrameOf(m)) : FrameOf(m)[k] = FrameOf(m)[0 + k]
      <4>1. \A k \in 1..Len(FrameOf(m)) : 0 + k = k
        BY <1>4
      <4> QED
        BY <4>1, Zenon
    <3>4. writing'[v] = m /\ pending'[v] = FrameOf(m) /\ Written(v)' = 0
      BY <1>6, <1>7, <2>1
    <3>5. \A k \in 1..Len(pending'[v]) : pending'[v][k] = FrameOf(writing'[v])[Written(v)' + k]
      BY <3>3, <3>4, Zenon
    <3>6. Len(pending'[v]) <= 6
      <4>1. Len(pending'[v]) = 6
        BY <1>4, <3>4, Zenon
      <4> QED
        BY <4>1
    <3> QED
      BY <3>1, <3>2, <3>4, <3>5, <3>6
  <2>2. CASE v # w
    <3>1. writing'[v] \in 0..m /\ writing'[v] # m
      BY <1>0, <1>1, <1>6, <1>8, <2>2
    <3>2. /\ Len(pending[v]) <= 6
          /\ writing[v] = 0 => pending[v] = << >>
          /\ \A u \in Writers : u # v /\ writing[u] = writing[v] => writing[v] = 0
          /\ \A k \in 1..Len(pending[v]) : pending[v][k] = FrameOf(writing[v])[Written(v) + k]
      BY <1>1 DEF WritersInv
    <3> QED
      BY <1>6, <1>7, <2>2, <3>1, <3>2
  <2> QED
    BY <2>1, <2>2
<1>10. \A n \in 1..started, k \in 1..6 : Sent(n, k)' <=> Sent(n, k)
  BY <1>0, <1>1, <1>6, <1>7, <1>8 DEF Sent, WritersInv
<1>11. \A k \in 1..6 : ~Sent(m, k)'
  <2> SUFFICES ASSUME NEW k \in 1..6, Sent(m, k)'
               PROVE  FALSE
    BY Zenon
  <2>1. k <= Written(w)'
    BY <1>6, Zenon DEF Sent
  <2> QED
    BY <1>7, <2>1
<1>12. \A i \in DOMAIN log : log[i].frame \in 1..started /\ log[i].byte \in 1..6
  BY <1>1, ByteFacts DEF LogInv
<1>13. LogInv'
  <2>1. \A i \in DOMAIN log : /\ log[i].frame <= m
                              /\ \A v \in Writers : writing'[v] = log[i].frame
                                                      => log[i].byte <= Written(v)'
    <3> TAKE i \in DOMAIN log
    <3>1. PICK f \in 1..started, k \in 1..6 : f = log[i].frame /\ k = log[i].byte
      BY <1>12
    <3>2. Sent(f, k)
      BY <1>1, <3>1 DEF LogInv
    <3>3. Sent(f, k)' /\ f <= m
      BY <1>0, <1>1, <1>10, <3>2
    <3> QED
      BY <3>1, <3>3 DEF Sent
  <2>2. ASSUME NEW n \in 1..m, NEW k \in 1..6, Sent(n, k)'
        PROVE  \E i \in DOMAIN log : log[i] = [frame |-> n, byte |-> k]
    <3>1. n \in 1..started
      BY <1>0, <1>1, <1>11, <2>2
    <3> QED
      BY <1>1, <1>10, <2>2, <3>1 DEF LogInv
  <2>3. \A i, j \in DOMAIN log :
           i < j /\ log[i].frame = log[j].frame => log[i].byte < log[j].byte
    BY <1>1 DEF LogInv
  <2> QED
    <3>1. \A i \in DOMAIN log' :
             /\ log'[i].frame <= started'
             /\ \A v \in Writers : writing'[v] = log'[i].frame => log'[i].byte <= Written(v)'
      BY <1>2, <2>1, Zenon
    <3>2. \A n \in 1..started', k \in 1..6 :
             Sent(n, k)' => \E i \in DOMAIN log' : log'[i] = [frame |-> n, byte |-> k]
      BY <1>2, <2>2, Zenon
    <3>3. \A i, j \in DOMAIN log' :
             i < j /\ log'[i].frame = log'[j].frame => log'[i].byte < log'[j].byte
      BY <1>2, <2>3, Zenon
    <3> QED
      BY <3>1, <3>2, <3>3, Zenon DEF LogInv, Sent
<1>14. BufferInv' /\ OutInv' /\ IdleInv'
  BY <1>1, <1>2 DEF BufferInv, OutInv, IdleInv, Cut, Byte, TextAt, index0, index1
<1>15. ArriveInv'
  <2>0. log' = log /\ out' = out /\ Cut' = Cut /\ started' = m
    BY <1>2 DEF Cut
  <2> SUFFICES ASSUME NEW n \in 1..m, NEW q \in 0..Len(log), Clean(q), Whole(n, q)
               PROVE  q >= Cut \/ Contains(out, n)
    <3>1. \A q : Clean(q)' <=> Clean(q)
      BY <2>0 DEF Clean
    <3>2. \A n, q : Whole(n, q)' <=> Whole(n, q)
      BY <2>0 DEF Whole
    <3> QED
      BY <2>0, <3>1, <3>2, Zenon DEF ArriveInv
  <2>1. q + 1 \in DOMAIN log /\ log[q + 1] = [frame |-> n, byte |-> 1]
    BY DEF Whole
  <2>2. n \in 1..started
    BY <1>12, <2>1
  <2> QED
    BY <1>1, <2>2 DEF ArriveInv
<1> QED
  BY <1>5, <1>9, <1>13, <1>14, <1>15 DEF ReceiveInv

\* A write that completes frame n leaves Cut before it: a cut ends with a
\* beacon.
LEMMA WriteStep ==
  ASSUME ReceiveInv, NEW w \in Writers, Write(w)
  PROVE  ReceiveInv'
<1>1. /\ StreamTypeOK /\ WritersInv /\ LogInv /\ BufferInv /\ OutInv /\ ArriveInv /\ IdleInv
      /\ started \in Nat /\ log \in Seq(Bytes) /\ MaxFrames \in Nat
  BY Types, BoundsAssumption DEF ReceiveInv
<1>2. PICK n \in Nat :
           /\ n > 0 /\ n <= Len(pending[w]) /\ Len(stream) + n <= Capacity
           /\ writing[w] \in 1..started /\ started \in Nat
           /\ pending' = [pending EXCEPT ![w] = SubSeq(pending[w], n + 1, Len(pending[w]))]
           /\ log' \in Seq(Bytes) /\ Len(log') = Len(log) + n
           /\ \A i \in 1..Len(log) : log'[i] = log[i]
           /\ \A i \in 1..n : log'[Len(log) + i] = [frame |-> writing[w], byte |-> Written(w) + i]
           /\ stream' \in Seq(Token) /\ Len(stream') = Len(stream) + n
           /\ \A i \in 1..Len(stream) : stream'[i] = stream[i]
           /\ \A i \in 1..n : stream'[Len(stream) + i] = FrameOf(writing[w])[Written(w) + i]
           /\ UNCHANGED <<started, writing, fullBuffer, parsing, out>>
  BY <1>1, WriteEffect
<1> DEFINE p == pending[w]
           r == SubSeq(p, n + 1, Len(p))
<1>3. p \in Seq(Token) /\ Len(p) \in Nat /\ Len(p) <= 6
  BY <1>1, Types DEF WritersInv
<1> HIDE DEF p
<1>4. r \in Seq(Token) /\ Len(r) = Len(p) - n /\ \A i \in 1..Len(r) : r[i] = p[n + i]
  BY <1>2, <1>3, SMTT(30) DEF p
<1> HIDE DEF r
<1>5. /\ pending'[w] = r /\ \A v \in Writers : v # w => pending'[v] = pending[v]
      /\ pending' \in [Writers -> Seq(Token)]
  BY <1>1, <1>2, <1>4 DEF StreamTypeOK, p, r
<1>6. log' \in Seq([frame : 1..MaxFrames, byte : 1..Len(FrameOf(1))])
  <2>1. Len(FrameOf(1)) = 6
    BY FrameFacts, 1 \in Nat
  <2> QED
    BY <1>2, <2>1, Zenon DEF Bytes
<1>7. StreamTypeOK'
  BY <1>1, <1>2, <1>5, <1>6 DEF StreamTypeOK
<1>8. /\ Written(w) = 6 - Len(p) /\ Written(w)' = Written(w) + n
      /\ \A v \in Writers : v # w => Written(v)' = Written(v)
  <2>1. \A v \in Writers : Len(FrameOf(writing[v])) = 6
    BY <1>1, Types, FrameFacts
  <2>2. \A v \in Writers : Written(v) = 6 - Len(pending[v]) /\ Written(v)' = 6 - Len(pending'[v])
    BY <1>2, <2>1, Zenon DEF Written
  <2>3. Written(w) = 6 - Len(p) /\ Written(w)' = 6 - (Len(p) - n)
    BY <1>4, <1>5, <2>2, Zenon DEF p
  <2>4. \A v \in Writers : v # w => Written(v)' = Written(v)
    BY <1>5, <2>2, Zenon
  <2> QED
    BY <1>2, <1>3, <2>3, <2>4
<1>0. PICK m \in 1..started : m = writing[w]
  BY <1>2
<1>9. /\ m \in 1..started /\ \A k \in 1..Len(p) : p[k] = FrameOf(m)[Written(w) + k]
      /\ \A v \in Writers : v # w => writing[v] # m
  BY <1>0, <1>1, <1>2 DEF WritersInv, p
<1>10. \A i \in 1..n : log'[Len(log) + i] = [frame |-> m, byte |-> Written(w) + i]
  BY <1>0, <1>2
<1>11. WritersInv'
  <2> SUFFICES ASSUME NEW v \in Writers
               PROVE  /\ writing[v] \in 0..started /\ Len(pending'[v]) <= 6
                      /\ writing[v] = 0 => pending'[v] = << >>
                      /\ \A u \in Writers : u # v /\ writing[u] = writing[v] => writing[v] = 0
                      /\ \A k \in 1..Len(pending'[v]) :
                            pending'[v][k] = FrameOf(writing[v])[Written(v)' + k]
    BY <1>2 DEF WritersInv
  <2>1. /\ writing[v] \in 0..started /\ Len(pending[v]) <= 6
        /\ writing[v] = 0 => pending[v] = << >>
        /\ \A u \in Writers : u # v /\ writing[u] = writing[v] => writing[v] = 0
        /\ \A k \in 1..Len(pending[v]) : pending[v][k] = FrameOf(writing[v])[Written(v) + k]
    BY <1>1 DEF WritersInv
  <2>2. CASE v = w
    <3>1. /\ Len(r) <= 6 /\ m # 0
          /\ \A k \in 1..Len(r) : r[k] = FrameOf(m)[Written(w) + (n + k)]
      BY <1>2, <1>3, <1>4, <1>9, SMTT(30)
    <3>2. \A k \in 1..Len(r) : Written(w) + (n + k) = Written(w)' + k
      BY <1>2, <1>3, <1>8
    <3> QED
      BY <1>0, <1>5, <2>1, <2>2, <3>1, <3>2
  <2>3. CASE v # w
    BY <1>5, <1>8, <2>1, <2>3
  <2> QED
    BY <2>2, <2>3
<1>12. /\ \A f, k : f # m => (Sent(f, k)' <=> Sent(f, k))
       /\ \A k : Sent(m, k) <=> k <= Written(w)
       /\ \A k : Sent(m, k)' <=> k <= Written(w)'
  <2>1. \A f, k : f # m => (Sent(f, k)' <=> Sent(f, k))
    BY <1>0, <1>2, <1>8, Zenon DEF Sent
  <2>2. \A k : Sent(m, k) <=> k <= Written(w)
    BY <1>0, <1>9, Zenon DEF Sent
  <2>3. \A k : Sent(m, k)' <=> k <= Written(w)'
    BY <1>0, <1>2, <1>9, Zenon DEF Sent
  <2> QED
    BY <2>1, <2>2, <2>3
<1>13. LogInv'
  <2> DEFINE l == Len(log)
  <2>1. /\ l \in Nat /\ DOMAIN log = 1..l /\ DOMAIN log' = 1..l + n
        /\ \A i \in 1..l : log'[i] = log[i]
    BY <1>1, <1>2
  <2>2. \A i \in 1..l : /\ log[i].frame \in 1..started /\ log[i].byte \in 1..6
                        /\ Sent(log[i].frame, log[i].byte)
    BY <1>1, <2>1, ByteFacts DEF LogInv
  <2>3. \A i, j \in 1..l : i < j /\ log[i].frame = log[j].frame => log[i].byte < log[j].byte
    BY <1>1, <2>1 DEF LogInv
  <2>4. \A k \in 1..n : /\ log'[l + k] = [frame |-> m, byte |-> Written(w) + k]
                        /\ log'[l + k].frame = m /\ log'[l + k].byte = Written(w) + k
    BY <1>10
  <2> HIDE DEF l
  <2>5. Written(w) \in Nat /\ Written(w)' = Written(w) + n /\ Written(w)' <= 6
    BY <1>2, <1>3, <1>8 DEF p
  <2>6. ASSUME NEW i \in 1..l + n
        PROVE  i \in 1..l \/ \E k \in 1..n : i = l + k
    <3>1. i \in 1..l \/ (i - l \in 1..n /\ i = l + (i - l))
      BY <2>1, <2>6
    <3> QED
      BY <3>1
  <2>7. \A f, k : k \in 1..6 /\ Sent(f, k) => Sent(f, k)'
    BY <1>12, <2>5
  <2>8. ASSUME NEW i \in 1..l + n
        PROVE  /\ log'[i].frame <= started
               /\ \A v \in Writers : writing[v] = log'[i].frame => log'[i].byte <= Written(v)'
    <3>1. CASE i \in 1..l
      <4>1. PICK f \in 1..started, k \in 1..6 : f = log'[i].frame /\ k = log'[i].byte /\ Sent(f, k)
        BY <2>1, <2>2, <3>1
      <4>2. Sent(f, k)' /\ f <= started
        BY <1>1, <2>7, <4>1
      <4> QED
        BY <1>2, <4>1, <4>2 DEF Sent
    <3>2. CASE \E k \in 1..n : i = l + k
      <4>1. PICK k \in 1..n : i = l + k
        BY <3>2
      <4>2. log'[i].frame = m /\ log'[i].byte = Written(w) + k
        BY <2>4, <4>1
      <4>3. Written(w) + k <= Written(w)'
        BY <2>5
      <4>4. \A v \in Writers : writing[v] = m => v = w
        BY <1>9
      <4> QED
        BY <1>0, <1>1, <4>2, <4>3, <4>4
    <3> QED
      BY <2>6, <3>1, <3>2
  <2>9. ASSUME NEW f \in 1..started, NEW k \in 1..6, Sent(f, k)'
        PROVE  \E i \in 1..l + n : log'[i] = [frame |-> f, byte |-> k]
    <3>1. CASE Sent(f, k)
      <4>1. PICK i \in 1..l : log[i] = [frame |-> f, byte |-> k]
        BY <1>1, <2>1, <3>1 DEF LogInv
      <4>2. i \in 1..l + n /\ log'[i] = [frame |-> f, byte |-> k]
        BY <2>1, <4>1
      <4> QED
        BY <4>2
    <3>2. CASE ~Sent(f, k)
      <4>1. f = m /\ ~(k <= Written(w)) /\ k <= Written(w)'
        BY <1>12, <2>9, <3>2
      <4>2. PICK d \in 1..n : k = Written(w) + d
        <5>1. k - Written(w) \in 1..n /\ k = Written(w) + (k - Written(w))
          BY <2>5, <4>1
        <5> QED
          BY <5>1
      <4>3. l + d \in 1..l + n /\ log'[l + d] = [frame |-> f, byte |-> k]
        BY <2>1, <2>4, <4>1, <4>2
      <4> QED
        BY <4>3
    <3> QED
      BY <3>1, <3>2
  <2>10. ASSUME NEW i \in 1..l + n, NEW j \in 1..l + n, i < j, log'[i].frame = log'[j].frame
         PROVE  log'[i].byte < log'[j].byte
    <3>1. CASE j \in 1..l
      <4>1. i \in 1..l
        BY <2>1, <2>10, <3>1
      <4> QED
        BY <2>1, <2>3, <2>10, <3>1, <4>1
    <3>2. CASE \E k \in 1..n : j = l + k
      <4>1. PICK k \in 1..n : j = l + k
        BY <3>2
      <4>2. log'[j].frame = m /\ log'[j].byte = Written(w) + k
        BY <2>4, <4>1
      <4>3. CASE i \in 1..l
        <5>1. PICK x \in 1..6 : x = log'[i].byte /\ Sent(m, x)
          BY <2>1, <2>2, <2>10, <4>2, <4>3
        <5>2. x <= Written(w)
          BY <1>12, <5>1
        <5> QED
          BY <2>5, <4>2, <5>1, <5>2
      <4>4. CASE \E d \in 1..n : i = l + d
        <5>1. PICK d \in 1..n : i = l + d
          BY <4>4
        <5>2. log'[i].byte = Written(w) + d
          BY <2>4, <5>1
        <5>3. d < k
          BY <2>1, <2>10, <4>1, <5>1
        <5> QED
          BY <2>5, <4>2, <5>2, <5>3
      <4> QED
        BY <2>6, <4>3, <4>4
    <3> QED
      BY <2>6, <3>1, <3>2
  <2>11. DOMAIN log' = 1..l + n /\ started' = started /\ writing' = writing
    BY <1>2, <2>1
  <2>12. \A i \in DOMAIN log' :
           /\ log'[i].frame <= started'
           /\ \A v \in Writers : writing'[v] = log'[i].frame => log'[i].byte <= Written(v)'
    BY <2>8, <2>11, Zenon
  <2>13. \A f \in 1..started', k \in 1..6 :
           Sent(f, k)' => \E i \in DOMAIN log' : log'[i] = [frame |-> f, byte |-> k]
    BY <2>9, <2>11, Zenon
  <2>14. \A i, j \in DOMAIN log' :
           i < j /\ log'[i].frame = log'[j].frame => log'[i].byte < log'[j].byte
    BY <2>10, <2>11, Zenon
  <2> QED
    BY <2>12, <2>13, <2>14, Zenon DEF LogInv, Sent
<1>14. /\ Cut' = Cut /\ Cut \in Nat /\ Cut <= Len(log) /\ fullBuffer' = fullBuffer /\ out' = out
       /\ started' = started /\ Len(fullBuffer) \in Nat /\ Len(stream) \in Nat /\ Len(log) \in Nat
       /\ Cut + Len(fullBuffer) + Len(stream) = Len(log)
  <2>1. Len(fullBuffer) \in Nat /\ Len(stream) \in Nat /\ Len(log) \in Nat
    BY <1>1 DEF StreamTypeOK
  <2>2. Cut = Len(log) - Len(stream) - Len(fullBuffer) /\ Cut >= 0
    BY <1>1 DEF Cut, BufferInv
  <2>3. Cut' = Len(log) + n - (Len(stream) + n) - Len(fullBuffer)
    BY <1>2 DEF Cut
  <2> QED
    BY <1>2, <2>1, <2>2, <2>3
<1>15. \A i \in 1..Len(log) : log'[i] = log[i]
  BY <1>2
<1>16. BufferInv'
  <2>1. PICK b \in Nat, t \in Nat, c \in Nat : b = Len(fullBuffer) /\ t = Len(stream) /\ c = Cut
    BY <1>14
  <2>2. /\ c + b + t = Len(log) /\ Cut' = c /\ Len(fullBuffer') = b /\ Len(stream') = t + n
        /\ DOMAIN fullBuffer' = 1..b /\ DOMAIN stream' = 1..t + n
    BY <1>1, <1>2, <1>14, <2>1 DEF StreamTypeOK
  <2>3. /\ \A i \in 1..b : fullBuffer[i] = FrameOf(log[c + i].frame)[log[c + i].byte]
        /\ \A i \in 1..t : stream[i] = FrameOf(log[c + b + i].frame)[log[c + b + i].byte]
        /\ c # 0 => FrameOf(log[c].frame)[log[c].byte] = -4
    <3>1. DOMAIN fullBuffer = 1..b /\ DOMAIN stream = 1..t
      BY <1>1, <2>1 DEF StreamTypeOK
    <3>2. \A i \in 1..b : fullBuffer[i] = Byte(c + i)
      BY <1>1, <2>1, <3>1 DEF BufferInv
    <3>3. \A i \in 1..t : stream[i] = Byte(c + b + i)
      BY <1>1, <2>1, <3>1 DEF BufferInv
    <3>4. c # 0 => Byte(c) = -4
      BY <1>1, <2>1 DEF BufferInv
    <3> QED
      BY <3>2, <3>3, <3>4, Zenon DEF Byte
  <2>4. /\ \A i \in 1..b : c + i \in 1..Len(log)
        /\ \A i \in 1..t : c + b + i \in 1..Len(log)
        /\ c # 0 => c \in 1..Len(log)
    BY <2>2
  <2>5. ASSUME NEW i \in 1..b
        PROVE  fullBuffer'[i] = FrameOf(log'[c + i].frame)[log'[c + i].byte]
    BY <1>14, <1>15, <2>3, <2>4
  <2>6. c # 0 => FrameOf(log'[c].frame)[log'[c].byte] = -4
    BY <1>15, <2>3, <2>4
  <2>7. ASSUME NEW i \in 1..t + n
        PROVE  stream'[i] = FrameOf(log'[c + b + i].frame)[log'[c + b + i].byte]
    <3>1. CASE i \in 1..t
      <4>1. stream'[i] = stream[i]
        BY <1>2, <2>1, <3>1
      <4> QED
        BY <1>15, <2>3, <2>4, <3>1, <4>1
    <3>2. CASE ~(i \in 1..t)
      <4>1. PICK d \in 1..n : i = t + d
        <5>1. i - t \in 1..n /\ i = t + (i - t)
          BY <3>2
        <5> QED
          BY <5>1
      <4>2. stream'[i] = FrameOf(m)[Written(w) + d]
        BY <1>0, <1>2, <2>1, <4>1
      <4>3. c + b + i = Len(log) + d
        BY <2>2, <4>1
      <4>4. log'[c + b + i] = [frame |-> m, byte |-> Written(w) + d]
        BY <1>10, <4>3
      <4> QED
        BY <4>2, <4>4
    <3> QED
      BY <3>1, <3>2
  <2>8. /\ \A i \in DOMAIN fullBuffer' : fullBuffer'[i] = Byte(Cut + i)'
        /\ \A i \in DOMAIN stream' : stream'[i] = Byte(Cut + Len(fullBuffer) + i)'
        /\ Cut' # 0 => Byte(Cut)' = -4
    BY <2>2, <2>5, <2>6, <2>7, Zenon DEF Byte
  <2> QED
    BY <1>14, <2>8 DEF BufferInv
<1>17. OutInv'
  <2>1. ASSUME NEW k \in DOMAIN out
        PROVE  \E i \in 1..Cut : TextAt(out[k], i) /\ log'[i] = [frame |-> out[k], byte |-> 3]
    <3>1. PICK i \in 1..Cut : TextAt(out[k], i)
      BY <1>1 DEF OutInv
    <3> QED
      BY <1>14, <1>15, <3>1 DEF TextAt
  <2>2. ASSUME NEW k \in DOMAIN out, NEW l \in DOMAIN out, k < l,
               NEW i \in DOMAIN log', NEW j \in DOMAIN log',
               log'[i] = [frame |-> out[k], byte |-> 3],
               log'[j] = [frame |-> out[l], byte |-> 3]
        PROVE  i < j
    <3>1. PICK x \in 1..Cut : TextAt(out[k], x) /\ log'[x] = log'[i]
      BY <2>1, <2>2
    <3>2. PICK y \in 1..Cut : TextAt(out[l], y) /\ log'[y] = log'[j]
      BY <2>1, <2>2
    <3>3. x = i /\ y = j
      <4>1. \A g, h \in DOMAIN log' : g < h => log'[g] # log'[h]
        <5>1. \A g \in DOMAIN log' : log'[g].byte \in 1..6
          <6> TAKE g \in DOMAIN log'
          <6>1. log'[g] \in Bytes
            BY <1>2
          <6> QED
            BY <6>1 DEF Bytes
        <5>2. \A g, h \in DOMAIN log' :
                 g < h /\ log'[g].frame = log'[h].frame => log'[g].byte < log'[h].byte
          BY <1>13 DEF LogInv
        <5> QED
          BY <5>1, <5>2
      <4>2. DOMAIN log' \subseteq Nat /\ x \in DOMAIN log' /\ y \in DOMAIN log'
        <5>1. log' \in Seq(Bytes) /\ Len(log') \in Nat
          BY <1>2
        <5>2. DOMAIN log' = 1..Len(log') /\ DOMAIN log' \subseteq Nat
          BY <5>1
        <5>3. Cut \in Nat /\ Cut <= Len(log')
          BY <1>2, <1>14
        <5> QED
          BY <5>2, <5>3
      <4> QED
        BY <3>1, <3>2, <4>1, <4>2
    <3>4. x \in DOMAIN log /\ y \in DOMAIN log
      BY <1>1, <1>14
    <3> QED
      BY <1>1, <2>2, <3>1, <3>2, <3>3, <3>4 DEF OutInv
  <2>3. \A k \in DOMAIN out : \E i \in 1..Cut : log'[i] = [frame |-> out[k], byte |-> 3]
    BY <2>1
  <2>4. \A k, l \in DOMAIN out : k < l =>
           \A i, j \in DOMAIN log' : /\ log'[i] = [frame |-> out[k], byte |-> 3]
                                     /\ log'[j] = [frame |-> out[l], byte |-> 3]
                                     => i < j
    BY <2>2, Zenon
  <2>5. /\ \A k \in DOMAIN out' : \E i \in 1..Cut' : log'[i] = [frame |-> out'[k], byte |-> 3]
        /\ \A k, l \in DOMAIN out' : k < l =>
              \A i, j \in DOMAIN log' : /\ log'[i] = [frame |-> out'[k], byte |-> 3]
                                        /\ log'[j] = [frame |-> out'[l], byte |-> 3]
                                        => i < j
    BY <1>14, <2>3, <2>4
  <2> QED
    BY <2>5, Zenon DEF OutInv, TextAt
<1>19. ArriveInv'
  <2> SUFFICES ASSUME NEW f \in 1..started, NEW q \in 0..Len(log'),
                      \A i \in 1..q : \E j \in 1..q : log'[j] = [frame |-> log'[i].frame, byte |-> 6],
                      \A k \in 1..6 : /\ q + k \in DOMAIN log'
                                      /\ log'[q + k] = [frame |-> f, byte |-> k],
                      ~(q >= Cut)
               PROVE  Contains(out, f)
    BY <1>14, Zenon DEF ArriveInv, Clean, Whole
  <2>1. PICK l \in Nat, c \in Nat : l = Len(log) /\ c = Cut
    BY <1>14
  <2>2. /\ q \in Nat /\ q < c /\ c \in 1..l /\ DOMAIN log = 1..l
        /\ \A i \in 1..l : log'[i] = log[i]
    BY <1>1, <1>2, <1>14, <2>1
  <2>3. CASE q + 6 <= l
    <3>0. (\A i \in 1..q : i \in 1..l) /\ (\A k \in 1..6 : q + k \in 1..l)
      <4>1. q \in Nat /\ l \in Nat /\ q + 6 <= l
        BY <2>2, <2>3
      <4>2. \A i \in 1..q : i \in 1..l
        BY <4>1
      <4>3. \A k \in 1..6 : q + k \in 1..l
        BY <4>1, SMTT(30)
      <4> QED
        BY <4>2, <4>3
    <3>1. /\ \A i \in 1..q : log'[i] = log[i]
          /\ \A k \in 1..6 : q + k \in 1..l /\ log'[q + k] = log[q + k]
      BY <2>2, <3>0
    <3>2. Clean(q)
      <4> SUFFICES ASSUME NEW i \in 1..q
                   PROVE  \E j \in 1..q : log[j] = [frame |-> log[i].frame, byte |-> 6]
        BY DEF Clean
      <4>1. PICK j \in 1..q : log'[j] = [frame |-> log'[i].frame, byte |-> 6]
        OBVIOUS
      <4>2. log'[i] = log[i] /\ log'[j] = log[j]
        BY <3>1
      <4> QED
        BY <4>1, <4>2
    <3>3. Whole(f, q)
      BY <2>2, <3>1 DEF Whole
    <3>4. q \in 0..Len(log) /\ ~(q >= Cut)
      BY <2>1, <2>2
    <3> QED
      BY <1>1, <3>2, <3>3, <3>4 DEF ArriveInv
  <2>4. CASE ~(q + 6 <= l)
    <3>1. Byte(c) = -4
      BY <1>1, <2>1, <2>2 DEF BufferInv
    <3>2. c \in DOMAIN log /\ log'[c] = log[c]
      BY <2>2
    <3>3. log'[c].byte = 6
      BY <1>1, <3>1, <3>2, ByteFacts
    <3>4. PICK k \in 1..5 : c = q + k
      <4>1. c - q \in 1..5 /\ c = q + (c - q)
        BY <2>2, <2>4
      <4> QED
        BY <4>1
    <3>5. k \in 1..6 /\ k # 6
      OBVIOUS
    <3>6. log'[c] = [frame |-> f, byte |-> k]
      BY <3>4, <3>5, Zenon
    <3>7. log'[c].byte = k
      BY <3>6
    <3> QED
      BY <3>3, <3>5, <3>7
  <2> QED
    BY <2>3, <2>4
<1>18. IdleInv'
  BY <1>1, <1>2 DEF IdleInv, index0, index1
<1> QED
  BY <1>7, <1>11, <1>13, <1>16, <1>17, <1>18, <1>19 DEF ReceiveInv

\* What was written is still right when nothing is written.
LEMMA LogKept ==
  ASSUME WritersInv, LogInv, UNCHANGED <<started, writing, pending, log>>
  PROVE  WritersInv' /\ LogInv'
<1>1. \A w : Written(w)' = Written(w)
  BY DEF Written
<1>2. \A n, k : Sent(n, k)' <=> Sent(n, k)
  BY <1>1, Zenon DEF Sent
<1>3. WritersInv'
  BY <1>1 DEF WritersInv
<1>4. LogInv'
  BY <1>2 DEF LogInv
<1> QED
  BY <1>3, <1>4

\* What came out is still right when nothing is written or cut.
LEMMA OutKept ==
  ASSUME OutInv, ArriveInv, UNCHANGED <<started, out, log>>, Cut' = Cut
  PROVE  OutInv' /\ ArriveInv'
<1>1. \A q : Clean(q)' <=> Clean(q)
  BY DEF Clean
<1>2. \A n, q : Whole(n, q)' <=> Whole(n, q)
  BY DEF Whole
<1>3. out' = out /\ log' = log /\ started' = started
  OBVIOUS
<1>4. ArriveInv'
  BY <1>1, <1>2, <1>3, Zenon DEF ArriveInv
<1>5. /\ \A k \in DOMAIN out : \E i \in 1..Cut : log[i] = [frame |-> out[k], byte |-> 3]
      /\ \A k, l \in DOMAIN out : k < l =>
            \A i, j \in DOMAIN log : /\ log[i] = [frame |-> out[k], byte |-> 3]
                                     /\ log[j] = [frame |-> out[l], byte |-> 3]
                                     => i < j
  BY Zenon DEF OutInv, TextAt
<1>6. /\ \A k \in DOMAIN out' : \E i \in 1..Cut' : log'[i] = [frame |-> out'[k], byte |-> 3]
      /\ \A k, l \in DOMAIN out' : k < l =>
            \A i, j \in DOMAIN log' : /\ log'[i] = [frame |-> out'[k], byte |-> 3]
                                      /\ log'[j] = [frame |-> out'[l], byte |-> 3]
                                      => i < j
  BY <1>3, <1>5
<1>7. OutInv'
  BY <1>6, Zenon DEF OutInv, TextAt
<1> QED
  BY <1>4, <1>7

\* Bytes move from TCP to fullBuffer.
LEMMA RecvStep ==
  ASSUME ReceiveInv, Recv
  PROVE  ReceiveInv'
<1>1. /\ StreamTypeOK /\ WritersInv /\ LogInv /\ BufferInv /\ OutInv /\ ArriveInv
      /\ stream \in Seq(Token) /\ fullBuffer \in Seq(Token) /\ log \in Seq(Bytes) /\ Capacity \in Int
      /\ Len(stream) <= Capacity
  BY Types, BoundsAssumption DEF ReceiveInv, StreamTypeOK
<1>2. PICK n \in 1..Min({MaxRead, Len(stream)}) :
         /\ fullBuffer' = fullBuffer \o SubSeq(stream, 1, n)
         /\ stream' = SubSeq(stream, n + 1, Len(stream))
  BY DEF Recv
<1>3. /\ parsing' = TRUE
      /\ UNCHANGED <<started, writing, pending, out, log>>
  BY DEF Recv
<1>4. n \in Nat /\ n > 0 /\ n <= Len(stream)
  <2>1. MaxRead \in Int /\ Len(stream) \in Int
    BY <1>1, BoundsAssumption
  <2>2. Min({MaxRead, Len(stream)}) = IF MaxRead <= Len(stream) THEN MaxRead ELSE Len(stream)
    BY <2>1, LeastOfTwo, Zenon
  <2> QED
    BY <2>1, <2>2
<1>5. PICK s \in Seq(Token), f \in Seq(Token) : s = stream /\ f = fullBuffer
  BY <1>1
<1>6. PICK t \in Seq(Token) : t = SubSeq(s, 1, n) /\ Len(t) = n /\ \A i \in 1..n : t[i] = s[i]
  <2>1. SubSeq(s, 1, n) \in Seq(Token) /\ Len(SubSeq(s, 1, n)) = n
    BY <1>4, <1>5
  <2>2. \A i \in 1..n : SubSeq(s, 1, n)[i] = s[i]
    BY <1>4, <1>5
  <2> QED
    BY <2>1, <2>2
<1>7. PICK u \in Seq(Token) : /\ u = SubSeq(s, n + 1, Len(s)) /\ Len(u) = Len(s) - n
                              /\ \A i \in 1..Len(u) : u[i] = s[n + i]
  <2>1. /\ SubSeq(s, n + 1, Len(s)) \in Seq(Token)
        /\ Len(SubSeq(s, n + 1, Len(s))) = Len(s) - n
    BY <1>4, <1>5
  <2>2. \A i \in 1..Len(s) - n : SubSeq(s, n + 1, Len(s))[i] = s[n + i]
    BY <1>4, <1>5
  <2> QED
    BY <2>1, <2>2
<1>8. PICK g \in Seq(Token) : /\ g = f \o t /\ Len(g) = Len(f) + n
                              /\ \A i \in 1..Len(f) : g[i] = f[i]
                              /\ \A i \in 1..n : g[Len(f) + i] = t[i]
  <2>1. f \o t \in Seq(Token) /\ Len(f \o t) = Len(f) + n
    BY <1>6
  <2>2. \A i \in 1..Len(f) : (f \o t)[i] = f[i]
    BY <1>6
  <2>3. \A i \in 1..n : (f \o t)[Len(f) + i] = t[i]
    BY <1>6
  <2> QED
    BY <2>1, <2>2, <2>3
<1>9. stream' = u /\ fullBuffer' = g
  BY <1>2, <1>5, <1>6, <1>7, <1>8
<1>10. StreamTypeOK'
  BY <1>1, <1>3, <1>4, <1>5, <1>7, <1>9 DEF StreamTypeOK
<1>11. WritersInv' /\ LogInv'
  BY <1>1, <1>3, LogKept
<1>12. PICK c \in Nat, b \in Nat : /\ c = Cut /\ b = Len(f) /\ Cut' = Cut
  <2>1. Cut = Len(log) - Len(s) - Len(f) /\ Cut >= 0 /\ Len(s) \in Nat /\ Len(f) \in Nat /\ Len(log) \in Nat
    BY <1>1, <1>5 DEF Cut, BufferInv
  <2>2. Cut' = Len(log) - (Len(s) - n) - (Len(f) + n)
    BY <1>3, <1>7, <1>8, <1>9 DEF Cut
  <2>3. Cut' = Cut /\ Cut \in Nat
    BY <1>4, <2>1, <2>2
  <2> QED
    BY <2>1, <2>3
<1>13. BufferInv'
  <2>1. /\ \A i \in 1..b : f[i] = Byte(c + i)
        /\ \A i \in 1..Len(s) : s[i] = Byte(c + b + i)
        /\ c # 0 => Byte(c) = -4
    <3>1. DOMAIN fullBuffer = 1..b /\ DOMAIN stream = 1..Len(s) /\ Len(fullBuffer) = b
      BY <1>5, <1>12
    <3>2. \A i \in 1..b : fullBuffer[i] = Byte(c + i)
      BY <1>1, <1>12, <3>1 DEF BufferInv
    <3>3. \A i \in 1..Len(s) : stream[i] = Byte(c + b + i)
      BY <1>1, <1>12, <3>1 DEF BufferInv
    <3>4. c # 0 => Byte(c) = -4
      BY <1>1, <1>12 DEF BufferInv
    <3> QED
      BY <1>5, <3>2, <3>3, <3>4
  <2>2. \A i : Byte(i)' = Byte(i)
    BY <1>3 DEF Byte
  <2>3. ASSUME NEW i \in 1..b + n
        PROVE  g[i] = Byte(c + i)
    <3>1. CASE i \in 1..b
      BY <1>8, <1>12, <2>1, <3>1
    <3>2. CASE ~(i \in 1..b)
      <4>1. PICK d \in 1..n : i = b + d
        <5>1. i - b \in 1..n /\ i = b + (i - b)
          BY <1>4, <3>2
        <5> QED
          BY <5>1
      <4>2. g[i] = s[d] /\ d \in 1..Len(s)
        BY <1>4, <1>5, <1>6, <1>8, <1>12, <4>1
      <4>3. c + b + d = c + i
        BY <4>1
      <4> QED
        BY <2>1, <4>2, <4>3
    <3> QED
      BY <3>1, <3>2
  <2>4. ASSUME NEW i \in 1..Len(s) - n
        PROVE  u[i] = Byte(c + (b + n) + i)
    <3>1. u[i] = s[n + i] /\ n + i \in 1..Len(s)
      BY <1>4, <1>7
    <3>2. c + b + (n + i) = c + (b + n) + i
      BY <1>4
    <3> QED
      BY <2>1, <3>1, <3>2
  <2>5. /\ DOMAIN fullBuffer' = 1..b + n /\ Len(fullBuffer') = b + n
        /\ DOMAIN stream' = 1..Len(s) - n
    BY <1>7, <1>8, <1>9, <1>12
  <2>6. /\ \A i \in DOMAIN fullBuffer' : fullBuffer'[i] = FrameOf(log[c + i].frame)[log[c + i].byte]
        /\ \A i \in DOMAIN stream' : stream'[i] = Byte(c + (b + n) + i)
    BY <1>9, <2>3, <2>4, <2>5, Zenon DEF Byte
  <2>7. /\ \A i \in DOMAIN fullBuffer' : fullBuffer'[i] = Byte(Cut + i)'
        /\ \A i \in DOMAIN stream' : stream'[i] = Byte(Cut + Len(fullBuffer) + i)'
        /\ Cut' # 0 => Byte(Cut)' = -4
    BY <1>3, <1>12, <2>1, <2>5, <2>6 DEF Byte
  <2> QED
    BY <1>12, <2>7 DEF BufferInv
<1>14. OutInv' /\ ArriveInv' /\ IdleInv'
  BY <1>1, <1>3, <1>12, OutKept DEF IdleInv
<1> QED
  BY <1>10, <1>11, <1>13, <1>14 DEF ReceiveInv

\* The loop ends when nothing more can be cut out.
LEMMA EndOfLoopStep ==
  ASSUME ReceiveInv, EndOfLoop
  PROVE  ReceiveInv'
<1>1. /\ StreamTypeOK /\ WritersInv /\ LogInv /\ BufferInv /\ OutInv /\ ArriveInv
      /\ index0 = 0 \/ index1 = 0
      /\ parsing' = FALSE
      /\ UNCHANGED <<started, writing, pending, stream, fullBuffer, out, log>>
  BY DEF ReceiveInv, EndOfLoop
<1>2. StreamTypeOK' /\ WritersInv' /\ LogInv'
  <2>1. StreamTypeOK'
    BY <1>1 DEF StreamTypeOK
  <2> QED
    BY <1>1, <2>1, LogKept
<1>3. Cut' = Cut
  BY <1>1 DEF Cut
<1>4. BufferInv'
  BY <1>1, <1>3 DEF BufferInv, Byte
<1>5. OutInv' /\ ArriveInv'
  BY <1>1, <1>3, OutKept
<1>6. IdleInv'
  BY <1>1 DEF IdleInv, index0, index1
<1> QED
  BY <1>2, <1>4, <1>5, <1>6 DEF ReceiveInv

\* What one turn of the loop cuts out: from the first preStringBeacon to the
\* first postStringBeacon after it.
LEMMA CutEffect ==
  ASSUME StreamTypeOK, BufferInv, CutMessage
  PROVE  \E c, b, i0, i1 \in Nat :
           /\ c = Cut /\ b = Len(fullBuffer) /\ Found(c, b, i0, i1)
           /\ Cut' = c + (i1 + 1)
           /\ fullBuffer' \in Seq(Token) /\ Len(fullBuffer') = b - (i1 + 1)
           /\ \A i \in 1..b - (i1 + 1) : fullBuffer'[i] = Byte(c + (i1 + 1) + i)
           /\ IF i1 = i0 + 4 /\ Byte(c + (i0 + 2)) = Byte(c + (i0 + 3)) /\ Byte(c + (i0 + 2)) > 0
              THEN out' = Append(out, Byte(c + (i0 + 2)))
              ELSE out' = out
           /\ UNCHANGED <<started, writing, pending, stream, parsing, log>>
<1>1. PICK f \in Seq(Token) : f = fullBuffer
  BY DEF StreamTypeOK
<1>2. PICK c \in Nat, b \in Nat : c = Cut /\ b = Len(f) /\ c + b <= Len(log)
  <2>1. Cut = Len(log) - Len(stream) - Len(f) /\ Cut >= 0
    BY <1>1 DEF Cut, BufferInv
  <2>2. Len(log) \in Nat /\ Len(stream) \in Nat /\ Len(f) \in Nat
    BY DEF StreamTypeOK
  <2>3. Cut \in Nat /\ Cut + Len(f) <= Len(log)
    BY <2>1, <2>2
  <2> QED
    BY <2>2, <2>3
<1>3. \A i \in 1..b : f[i] = Byte(c + i)
  BY <1>1, <1>2 DEF BufferInv
<1>4. PICK i0 : /\ i0 = index0 /\ i0 # 0
  BY DEF CutMessage
<1>5. /\ i0 \in 1..b - 1 /\ f[i0] = -1 /\ f[i0 + 1] = -2
      /\ \A j \in 1..b - 1 : f[j] = -1 /\ f[j + 1] = -2 => i0 <= j
  <2>1. i0 = find(f, <<-1, -2>>, 1) /\ 1 \in Nat \ {0}
    BY <1>1, <1>4 DEF index0, preStringBeacon
  <2>2. PICK x \in Int, y \in Int, z \in Nat \ {0} : x = -1 /\ y = -2 /\ z = 1
    BY <2>1
  <2>3. i0 = find(f, <<x, y>>, z)
    BY <2>1, <2>2
  <2>4. /\ i0 # 0 => i0 \in z..Len(f) - 1 /\ f[i0] = x /\ f[i0 + 1] = y
        /\ \A j \in z..Len(f) - 1 : f[j] = x /\ f[j + 1] = y => i0 # 0 /\ i0 <= j
    <3>1. FirstPair(f, x, y, z, i0)
      BY <2>3, FindFacts
    <3> QED
      BY <3>1 DEF FirstPair
  <2> QED
    BY <1>2, <1>4, <2>2, <2>4
<1>6. PICK i1 : /\ i1 = index1 /\ i1 # 0
  BY DEF CutMessage
<1>7. /\ i1 \in i0 + 2..b - 1 /\ f[i1] = -3 /\ f[i1 + 1] = -4
      /\ \A j \in i0 + 2..b - 1 : f[j] = -3 /\ f[j + 1] = -4 => i1 <= j
  <2>1. i1 = find(f, <<-3, -4>>, i0 + 2) /\ i0 + 2 \in Nat \ {0}
    BY <1>1, <1>4, <1>5, <1>6 DEF index1, preStringBeacon, postStringBeacon
  <2>2. PICK x \in Int, y \in Int, z \in Nat \ {0} : x = -3 /\ y = -4 /\ z = i0 + 2
    BY <2>1
  <2>3. i1 = find(f, <<x, y>>, z)
    BY <2>1, <2>2
  <2>4. /\ i1 # 0 => i1 \in z..Len(f) - 1 /\ f[i1] = x /\ f[i1 + 1] = y
        /\ \A j \in z..Len(f) - 1 : f[j] = x /\ f[j + 1] = y => i1 # 0 /\ i1 <= j
    <3>1. FirstPair(f, x, y, z, i1)
      BY <2>3, FindFacts
    <3> QED
      BY <3>1 DEF FirstPair
  <2> QED
    BY <1>2, <1>6, <2>2, <2>4
<1>8. c \in Nat /\ b \in Nat /\ i0 \in Nat /\ i1 \in Nat /\ i0 > 0 /\ i0 + 2 <= i1 /\ i1 + 1 <= b
  BY <1>2, <1>5, <1>7
<1>9. /\ Byte(c + i0) = -1 /\ Byte(c + (i0 + 1)) = -2
      /\ \A j \in 1..b - 1 : Byte(c + j) = -1 /\ Byte(c + (j + 1)) = -2 => i0 <= j
  <2>1. i0 \in 1..b /\ i0 + 1 \in 1..b /\ \A j \in 1..b - 1 : j \in 1..b /\ j + 1 \in 1..b
    BY <1>8
  <2> QED
    BY <1>3, <1>5, <2>1
<1>10. /\ Byte(c + i1) = -3 /\ Byte(c + (i1 + 1)) = -4
       /\ \A j \in i0 + 2..b - 1 : Byte(c + j) = -3 /\ Byte(c + (j + 1)) = -4 => i1 <= j
  <2>1. i1 \in 1..b /\ i1 + 1 \in 1..b /\ \A j \in i0 + 2..b - 1 : j \in 1..b /\ j + 1 \in 1..b
    BY <1>8
  <2> QED
    BY <1>3, <1>7, <2>1
<1>11. UNCHANGED <<started, writing, pending, stream, parsing, log>>
  BY DEF CutMessage
<1>12. PICK g \in Seq(Token) : /\ g = fullBuffer' /\ Len(g) = b - (i1 + 1)
                               /\ \A i \in 1..b - (i1 + 1) : g[i] = f[(i1 + 1) + i]
  <2>1. fullBuffer' = SubSeq(f, i1 + 2, b)
    BY <1>1, <1>2, <1>6 DEF CutMessage, afterMessage, postStringBeacon
  <2>2. /\ SubSeq(f, i1 + 2, b) \in Seq(Token) /\ Len(SubSeq(f, i1 + 2, b)) = b - (i1 + 1)
        /\ \A i \in 1..b - (i1 + 1) : SubSeq(f, i1 + 2, b)[i] = f[(i1 + 1) + i]
    <3>1. i1 + 2 \in 1..Len(f) + 1 /\ b \in (i1 + 2) - 1..Len(f)
      BY <1>2, <1>8
    <3>2. /\ SubSeq(f, i1 + 2, b) \in Seq(Token) /\ Len(SubSeq(f, i1 + 2, b)) = b - (i1 + 2) + 1
          /\ \A i \in 1..b - (i1 + 2) + 1 : SubSeq(f, i1 + 2, b)[i] = f[(i1 + 2) - 1 + i]
      BY <3>1, Part
    <3>3. b - (i1 + 2) + 1 = b - (i1 + 1)
      BY <1>8
    <3>4. \A i \in 1..b - (i1 + 1) : (i1 + 2) - 1 + i = (i1 + 1) + i
      BY <1>8
    <3> QED
      BY <3>2, <3>3, <3>4
  <2> QED
    BY <2>1, <2>2
<1>13. \A i \in 1..b - (i1 + 1) : g[i] = Byte(c + (i1 + 1) + i)
  <2> TAKE i \in 1..b - (i1 + 1)
  <2>1. (i1 + 1) + i \in 1..b /\ c + ((i1 + 1) + i) = c + (i1 + 1) + i
    BY <1>8
  <2> QED
    BY <1>3, <1>12, <2>1
<1>14. Cut' = c + (i1 + 1)
  <2>1. Cut' = Len(log) - Len(stream) - (b - (i1 + 1))
    BY <1>11, <1>12 DEF Cut
  <2>2. c = Len(log) - Len(stream) - b
    BY <1>1, <1>2 DEF Cut
  <2>3. Len(log) \in Nat /\ Len(stream) \in Nat
    BY DEF StreamTypeOK
  <2> QED
    BY <1>8, <2>1, <2>2, <2>3
<1>15. IF i1 = i0 + 4 /\ Byte(c + (i0 + 2)) = Byte(c + (i0 + 3)) /\ Byte(c + (i0 + 2)) > 0
       THEN out' = Append(out, Byte(c + (i0 + 2)))
       ELSE out' = out
  <2>1. PICK t \in Seq(Token) : /\ t = SubSeq(f, i0 + 2, i1 - 1) /\ Len(t) = i1 - (i0 + 2)
                                /\ \A i \in 1..i1 - (i0 + 2) : t[i] = f[i0 + 1 + i]
    <3>1. i0 + 2 \in 1..Len(f) + 1 /\ i1 - 1 \in (i0 + 2) - 1..Len(f)
      BY <1>2, <1>8
    <3>2. /\ SubSeq(f, i0 + 2, i1 - 1) \in Seq(Token)
          /\ Len(SubSeq(f, i0 + 2, i1 - 1)) = (i1 - 1) - (i0 + 2) + 1
          /\ \A i \in 1..(i1 - 1) - (i0 + 2) + 1 : SubSeq(f, i0 + 2, i1 - 1)[i] = f[(i0 + 2) - 1 + i]
      BY <3>1, Part
    <3>3. (i1 - 1) - (i0 + 2) + 1 = i1 - (i0 + 2) /\ (i0 + 2) - 1 = i0 + 1
      BY <1>8
    <3> QED
      BY <3>2, <3>3
  <2>2. t = newMessageString
    BY <1>1, <1>4, <1>6, <2>1 DEF newMessageString, preStringBeacon
  <2>3. out' = IF Parses(t) THEN Append(out, t[1]) ELSE out
    BY <2>2 DEF CutMessage
  <2>4. Len(t) = 2 <=> i1 = i0 + 4
    BY <1>8, <2>1
  <2>5. CASE Len(t) = 2
    <3>1. i1 - (i0 + 2) = 2 /\ i0 + 1 + 1 = i0 + 2 /\ i0 + 1 + 2 = i0 + 3
      BY <1>8, <2>4, <2>5
    <3>2. t[1] = f[i0 + 2] /\ t[2] = f[i0 + 3]
      <4>1. \A i \in 1..2 : t[i] = f[i0 + 1 + i]
        BY <2>1, <3>1
      <4> QED
        BY <3>1, <4>1, 1 \in 1..2, 2 \in 1..2
    <3>3. i0 + 2 \in 1..b /\ i0 + 3 \in 1..b
      BY <1>8, <2>4, <2>5
    <3>4. t[1] = Byte(c + (i0 + 2)) /\ t[2] = Byte(c + (i0 + 3))
      BY <1>3, <3>2, <3>3
    <3> QED
      BY <2>3, <2>4, <2>5, <3>4 DEF Parses
  <2>6. CASE Len(t) # 2
    BY <2>3, <2>4, <2>6 DEF Parses
  <2> QED
    BY <2>5, <2>6
<1>16. /\ fullBuffer' \in Seq(Token) /\ Len(fullBuffer') = b - (i1 + 1)
       /\ \A i \in 1..b - (i1 + 1) : fullBuffer'[i] = Byte(c + (i1 + 1) + i)
       /\ c = Cut /\ b = Len(fullBuffer) /\ c + b <= Len(log)
  BY <1>1, <1>2, <1>12, <1>13
<1>17. Found(c, b, i0, i1)
  BY <1>8, <1>9, <1>10, <1>16 DEF Found
<1> QED
  BY <1>8, <1>11, <1>14, <1>15, <1>16, <1>17

\* The bytes of a frame are written in their order.
LEMMA Order ==
  ASSUME StreamTypeOK, LogInv, NEW i \in DOMAIN log, NEW j \in DOMAIN log,
         log[i].frame = log[j].frame, log[i].byte < log[j].byte
  PROVE  i < j
<1>1. i \in Nat /\ j \in Nat /\ log[i].byte \in 1..6 /\ log[j].byte \in 1..6
  <2>1. log[i].byte \in 1..6 /\ log[j].byte \in 1..6
    BY ByteFacts, Zenon
  <2>2. log \in Seq(Bytes)
    BY Types
  <2> QED
    BY <2>1, <2>2
<1>2. ~(j < i)
  BY <1>1 DEF LogInv
<1>3. i # j
  BY <1>1
<1> QED
  BY <1>1, <1>2, <1>3

\* Where everything begun has been written to its end, a postStringBeacon in
\* one piece follows every byte that is not of a postStringBeacon.
LEMMA LastBeacon ==
  ASSUME StreamTypeOK, LogInv, NEW q \in 0..Len(log), Clean(q), NEW d \in 1..q,
         log[d].byte \in 1..4
  PROVE  \E x \in d + 1..q : x + 1 <= q /\ Byte(x) = -3 /\ Byte(x + 1) = -4
<1>1. /\ Len(log) \in Nat /\ DOMAIN log = 1..Len(log) /\ q \in Nat /\ d \in Nat
      /\ \A i \in 1..q : i \in DOMAIN log
  BY Types
<1>2. \A i \in 1..q : log[i].byte \in 1..6 /\ log[i].frame \in 1..started
  BY <1>1, ByteFacts, Types DEF LogInv
<1> DEFINE S == {k \in 0..q - d : log[q - k].byte \in 1..4}
<1>3. PICK k \in S : \A y \in S : k <= y
  <2>1. q - d \in S /\ S \in SUBSET Nat
    <3>1. q - d \in 0..q - d /\ q - (q - d) = d
      BY <1>1
    <3> QED
      BY <1>1, <3>1
  <2> HIDE DEF S
  <2>2. Min(S) \in S /\ \A y \in S : Min(S) <= y
    BY <2>1, Least, Zenon
  <2> QED
    BY <2>2
<1>4. PICK l \in d..q : l = q - k /\ log[l].byte \in 1..4
  BY <1>1, <1>3
<1>5. \A i \in l + 1..q : log[i].byte \in {5, 6}
  <2> TAKE i \in l + 1..q
  <2>1. q - i \in 0..q - d /\ q - (q - i) = i /\ ~(k <= q - i) /\ i \in 1..q
    BY <1>1, <1>3, <1>4
  <2>2. ~(log[i].byte \in 1..4)
    BY <1>3, <2>1
  <2> QED
    BY <1>2, <2>1, <2>2
<1>6. PICK f \in 1..started, g \in 1..q : f = log[l].frame /\ log[g] = [frame |-> f, byte |-> 6]
  <2>1. l \in 1..q
    BY <1>1, <1>4
  <2> QED
    BY <1>2, <2>1 DEF Clean
<1>7. PICK h \in DOMAIN log : log[h] = [frame |-> f, byte |-> 5]
  <2>1. g \in DOMAIN log /\ log[g].frame = f /\ log[g].byte = 6
    BY <1>1, <1>6
  <2>2. Sent(f, 6)
    <3>1. Sent(log[g].frame, log[g].byte)
      BY <2>1 DEF LogInv
    <3> QED
      BY <2>1, <3>1
  <2>3. \A w \in Writers : Written(w) \in Int
    <3>1. \A w \in Writers : Written(w) = 6 - Len(pending[w]) /\ pending[w] \in Seq(Token)
      BY Types
    <3> QED
      BY <3>1
  <2>4. Sent(f, 5)
    BY <2>2, <2>3 DEF Sent
  <2> QED
    BY <2>4, 5 \in 1..6 DEF LogInv
<1>8. l < h /\ h < g
  <2>1. /\ l \in DOMAIN log /\ g \in DOMAIN log
        /\ log[h].frame = f /\ log[h].byte = 5 /\ log[g].frame = f /\ log[g].byte = 6
        /\ log[l].byte < 5
    BY <1>1, <1>4, <1>6, <1>7
  <2>2. h < g
    BY <2>1, Order
  <2>3. l < h
    BY <1>6, <2>1, Order
  <2> QED
    BY <2>2, <2>3
<1> DEFINE T == {x \in h + 1..g : log[x].byte = 6}
<1>9. PICK y \in T : \A x \in T : y <= x
  <2>1. g \in T /\ T \in SUBSET Nat
    BY <1>1, <1>6, <1>7, <1>8
  <2> HIDE DEF T
  <2>2. Min(T) \in T /\ \A x \in T : Min(T) <= x
    BY <2>1, Least, Zenon
  <2> QED
    BY <2>2
<1>10. y - 1 \in d + 1..q /\ (y - 1) + 1 = y /\ y <= q /\ y \in DOMAIN log /\ y - 1 \in DOMAIN log
       /\ y - 1 \in h..g /\ y - 1 \in l + 1..q
  BY <1>1, <1>4, <1>7, <1>8, <1>9
<1>11. log[y - 1].byte = 5
  <2>1. CASE y - 1 = h
    BY <1>7, <2>1
  <2>2. CASE y - 1 # h
    <3>1. y - 1 \in h + 1..g /\ ~(y <= y - 1)
      BY <1>1, <1>7, <1>10, <2>2
    <3>2. log[y - 1].byte # 6
      BY <1>9, <3>1
    <3> QED
      BY <1>5, <1>10, <3>2
  <2> QED
    BY <2>1, <2>2
<1>12. Byte(y - 1) = -3 /\ Byte(y) = -4
  BY <1>9, <1>10, <1>11, ByteFacts
<1> QED
  BY <1>10, <1>12

\* A frame in one piece after q, where everything begun has ended, is the one
\* that is cut out, or is left in fullBuffer.
LEMMA CutWhole ==
  ASSUME StreamTypeOK, LogInv,
         NEW c \in Nat, NEW b \in Nat, NEW i0 \in Nat, NEW i1 \in Nat,
         Found(c, b, i0, i1),
         NEW n \in 1..started, NEW q \in 0..Len(log), Clean(q), Whole(n, q),
         q >= c, q < c + (i1 + 1)
  PROVE  /\ i1 = i0 + 4
         /\ Byte(c + (i0 + 2)) = n /\ Byte(c + (i0 + 3)) = n /\ n > 0
<1>0. /\ i0 > 0 /\ i0 + 2 <= i1 /\ i1 + 1 <= b /\ c + b <= Len(log)
      /\ Byte(c + i0) = -1 /\ Byte(c + (i0 + 1)) = -2
      /\ \A j \in 1..b - 1 : Byte(c + j) = -1 /\ Byte(c + (j + 1)) = -2 => i0 <= j
      /\ Byte(c + i1) = -3 /\ Byte(c + (i1 + 1)) = -4
      /\ \A j \in i0 + 2..b - 1 : Byte(c + j) = -3 /\ Byte(c + (j + 1)) = -4 => i1 <= j
  BY DEF Found
<1>1. /\ Len(log) \in Nat /\ DOMAIN log = 1..Len(log) /\ started \in Nat /\ n \in Nat /\ n > 0
      /\ \A i \in 1..b : c + i \in DOMAIN log
  BY <1>0, Types, SMTT(30)
<1>2. PICK z \in 0..i1 : q = c + z
  <2>1. q - c \in 0..i1 /\ q = c + (q - c)
    BY <1>0, <1>1
  <2> QED
    BY <2>1
<1>3. \A k \in 1..6 : c + (z + k) \in DOMAIN log /\ log[c + (z + k)] = [frame |-> n, byte |-> k]
  <2> TAKE k \in 1..6
  <2>1. c + (z + k) = q + k
    BY <1>2
  <2> QED
    BY <2>1 DEF Whole
<1>4. /\ Byte(c + (z + 1)) = -1 /\ Byte(c + (z + 2)) = -2
      /\ Byte(c + (z + 3)) = n /\ Byte(c + (z + 4)) = n
      /\ Byte(c + (z + 5)) = -3 /\ Byte(c + (z + 6)) = -4
  <2>1. ASSUME NEW k \in 1..6
        PROVE  Byte(c + (z + k)) = FrameOf(n)[k]
    <3>1. PICK i \in DOMAIN log : i = c + (z + k) /\ log[i] = [frame |-> n, byte |-> k]
      BY <1>3
    <3>2. log[i].frame = n /\ log[i].byte = k
      BY <3>1
    <3> QED
      BY <3>1, <3>2, Zenon DEF Byte
  <2>2. /\ FrameOf(n)[1] = -1 /\ FrameOf(n)[2] = -2 /\ FrameOf(n)[3] = n
        /\ FrameOf(n)[4] = n /\ FrameOf(n)[5] = -3 /\ FrameOf(n)[6] = -4
    BY <1>1, FrameFacts
  <2>3. 1 \in 1..6 /\ 2 \in 1..6 /\ 3 \in 1..6 /\ 4 \in 1..6 /\ 5 \in 1..6 /\ 6 \in 1..6
    OBVIOUS
  <2> QED
    BY <2>1, <2>2, <2>3, Zenon
<1>5. ~(i0 <= z)
  <2> SUFFICES ASSUME i0 <= z
               PROVE  FALSE
    OBVIOUS
  <2>1. i0 # z
    BY <1>0, <1>4
  <2>2. c + (i0 + 1) \in 1..q /\ c + (i0 + 1) \in DOMAIN log
    BY <1>0, <1>1, <1>2, <2>1
  <2>3. log[c + (i0 + 1)].byte = 2
    BY <1>0, <2>2, ByteFacts
  <2>4. PICK x \in c + (i0 + 1) + 1..q : x + 1 <= q /\ Byte(x) = -3 /\ Byte(x + 1) = -4
    <3>1. PICK d \in 1..q : d = c + (i0 + 1) /\ log[d].byte \in 1..4
      BY <1>0, <2>2, <2>3
    <3>2. \E x \in d + 1..q : x + 1 <= q /\ Byte(x) = -3 /\ Byte(x + 1) = -4
      BY <1>0, <3>1, LastBeacon
    <3> QED
      BY <1>0, <3>1, <3>2
  <2>5. PICK j \in i0 + 2..b - 1 : x = c + j /\ x + 1 = c + (j + 1) /\ j < z
    <3>1. /\ x - c \in i0 + 2..b - 1 /\ x = c + (x - c) /\ x + 1 = c + ((x - c) + 1)
          /\ x - c < z
      BY <1>0, <1>1, <1>2, <2>4
    <3> QED
      BY <1>0, <3>1
  <2>6. i1 <= j
    BY <1>0, <2>4, <2>5
  <2> QED
    BY <1>0, <2>5, <2>6
<1>6. i0 = z + 1
  <2>1. z + 1 \in 1..b - 1 /\ (z + 1) + 1 = z + 2
    BY <1>0, <1>5
  <2>2. i0 <= z + 1
    BY <1>0, <1>4, <2>1
  <2> QED
    BY <1>0, <1>5, <2>2
<1>7. i1 = z + 5
  <2>1. CASE i1 + 1 <= z + 6
    <3>1. PICK k \in 3..5 : i1 = z + k
      <4>1. i1 - z \in 3..5 /\ i1 = z + (i1 - z)
        BY <1>0, <1>6, <2>1
      <4> QED
        BY <1>0, <4>1
    <3>2. Byte(c + (z + k)) = -3
      BY <1>0, <3>1
    <3>3. n # -3
      BY <1>1
    <3>4. k # 3 /\ k # 4
      BY <1>4, <3>2, <3>3, Zenon
    <3> QED
      BY <3>1, <3>4
  <2>2. CASE ~(i1 + 1 <= z + 6)
    <3>1. z + 5 \in i0 + 2..b - 1 /\ (z + 5) + 1 = z + 6
      BY <1>0, <1>6, <2>2
    <3>2. i1 <= z + 5
      BY <1>0, <1>4, <3>1
    <3> QED
      BY <1>0, <2>2, <3>2
  <2> QED
    BY <1>0, <2>1, <2>2
<1>8. i0 + 2 = z + 3 /\ i0 + 3 = z + 4
  BY <1>0, <1>6
<1> QED
  BY <1>0, <1>1, <1>4, <1>6, <1>7, <1>8

\* The cut takes out the text that begins with byte p.
CutsText(c, i0, i1, p) ==
  /\ i1 = i0 + 4 /\ p = c + (i0 + 2)
  /\ Byte(c + (i0 + 2)) = Byte(c + (i0 + 3)) /\ Byte(c + (i0 + 2)) > 0

CutOff(c, i1, u) == c < u /\ u <= c + (i1 + 1)

\* What is cut out is the text of a frame, and the bytes up to the cut hold no
\* other after it.
LEMMA TextFound ==
  ASSUME StreamTypeOK, LogInv,
         NEW c \in Nat, NEW b \in Nat, NEW i0 \in Nat, NEW i1 \in Nat, NEW r,
         Found(c, b, i0, i1), CutsText(c, i0, i1, r)
  PROVE  /\ r \in DOMAIN log /\ Byte(r) \in 1..MaxFrames /\ TextAt(Byte(r), r) /\ CutOff(c, i1, r)
         /\ \A u \in DOMAIN log : r < u /\ CutOff(c, i1, u) => log[u].byte # 3
<1>0. /\ i0 > 0 /\ i0 + 2 <= i1 /\ i1 + 1 <= b /\ c + b <= Len(log)
      /\ Byte(c + i1) = -3 /\ Byte(c + (i1 + 1)) = -4
  BY DEF Found
<1>1. DOMAIN log = 1..Len(log) /\ Len(log) \in Nat /\ \A i \in 1..b : c + i \in DOMAIN log
  BY <1>0, Types
<1>a. /\ i1 = i0 + 4 /\ r = c + (i0 + 2)
      /\ Byte(c + (i0 + 2)) = Byte(c + (i0 + 3)) /\ Byte(c + (i0 + 2)) > 0
  BY DEF CutsText
<1>2. PICK p \in DOMAIN log : /\ p = c + (i0 + 2) /\ p + 1 = c + (i0 + 3) /\ p + 1 \in DOMAIN log
                              /\ p + 2 = c + i1 /\ p + 3 = c + (i1 + 1)
                              /\ p + 2 \in DOMAIN log /\ p + 3 \in DOMAIN log
  BY <1>0, <1>1, <1>a
<1>3. /\ log[p].byte \in {3, 4} /\ log[p + 1].byte \in {3, 4}
      /\ Byte(p) = log[p].frame /\ Byte(p + 1) = log[p + 1].frame
      /\ log[p].frame \in 1..MaxFrames
      /\ log[p] = [frame |-> log[p].frame, byte |-> log[p].byte]
  <2>1. Byte(p) > 0 /\ Byte(p + 1) > 0
    BY <1>2, <1>a
  <2> QED
    BY <1>2, <2>1, ByteFacts
<1>4. log[p].byte = 3 /\ log[p + 1].byte = 4
  <2>1. p < p + 1 /\ log[p].frame = log[p + 1].frame
    BY <1>1, <1>2, <1>3, <1>a
  <2>2. log[p].byte < log[p + 1].byte
    BY <1>2, <2>1 DEF LogInv
  <2> QED
    BY <1>3, <2>2
<1>5. log[p + 2].byte = 5 /\ log[p + 3].byte = 6
  <2>1. Byte(p + 2) = -3 /\ Byte(p + 3) = -4
    BY <1>0, <1>2
  <2> QED
    BY <1>2, <2>1, ByteFacts
<1>6. \A u \in DOMAIN log : p < u /\ CutOff(c, i1, u) => u = p + 1 \/ u = p + 2 \/ u = p + 3
  BY <1>1, <1>2 DEF CutOff
<1>7. \A u \in DOMAIN log : p < u /\ CutOff(c, i1, u) => log[u].byte # 3
  <2>1. 4 # 3 /\ 5 # 3 /\ 6 # 3
    OBVIOUS
  <2> QED
    BY <1>4, <1>5, <1>6, <2>1, Zenon
<1>8. TextAt(Byte(p), p) /\ Byte(p) \in 1..MaxFrames /\ p = r
  BY <1>2, <1>3, <1>4, <1>a DEF TextAt
<1>9. CutOff(c, i1, p)
  BY <1>0, <1>1, <1>2, <1>a DEF CutOff
<1> QED
  BY <1>7, <1>8, <1>9

\* The loop cuts a message out.
LEMMA CutStep ==
  ASSUME ReceiveInv, CutMessage
  PROVE  ReceiveInv'
<1>1. StreamTypeOK /\ WritersInv /\ LogInv /\ BufferInv /\ OutInv /\ ArriveInv
  BY DEF ReceiveInv
<1>2. PICK c \in Nat, b \in Nat, i0 \in Nat, i1 \in Nat :
           /\ c = Cut /\ b = Len(fullBuffer) /\ Found(c, b, i0, i1)
           /\ Cut' = c + (i1 + 1)
           /\ fullBuffer' \in Seq(Token) /\ Len(fullBuffer') = b - (i1 + 1)
           /\ \A i \in 1..b - (i1 + 1) : fullBuffer'[i] = Byte(c + (i1 + 1) + i)
           /\ IF i1 = i0 + 4 /\ Byte(c + (i0 + 2)) = Byte(c + (i0 + 3)) /\ Byte(c + (i0 + 2)) > 0
              THEN out' = Append(out, Byte(c + (i0 + 2)))
              ELSE out' = out
           /\ UNCHANGED <<started, writing, pending, stream, parsing, log>>
  BY <1>1, CutEffect
<1>0. i0 > 0 /\ i0 + 2 <= i1 /\ i1 + 1 <= b /\ c + b <= Len(log) /\ Byte(c + (i1 + 1)) = -4
  BY <1>2 DEF Found
<1>3. /\ Len(log) \in Nat /\ DOMAIN log = 1..Len(log) /\ DOMAIN out = 1..Len(out)
      /\ Len(out) \in Nat /\ out \in Seq(1..MaxFrames)
      /\ \A i \in 1..b : c + i \in DOMAIN log
  <2>1. Len(log) \in Nat /\ DOMAIN log = 1..Len(log)
    BY <1>1, Types
  <2>2. \A i \in 1..b : c + i \in 1..Len(log)
    BY <1>0, <1>2, <2>1
  <2>3. out \in Seq(1..MaxFrames)
    BY <1>1 DEF StreamTypeOK
  <2> QED
    BY <2>1, <2>2, <2>3
<1>4. /\ out' \in Seq(1..MaxFrames)
      /\ \A k \in DOMAIN out : k \in DOMAIN out' /\ out'[k] = out[k]
      /\ \A k \in DOMAIN out' :
            \/ k \in DOMAIN out
            \/ k = Len(out) + 1 /\ \E p \in c + 1..Cut' : log[p] = [frame |-> out'[k], byte |-> 3]
  <2> DEFINE Yes == i1 = i0 + 4 /\ Byte(c + (i0 + 2)) = Byte(c + (i0 + 3)) /\ Byte(c + (i0 + 2)) > 0
  <2>1. CASE Yes
    <3>1. PICK p : p = c + (i0 + 2) /\ CutsText(c, i0, i1, p)
      BY <2>1 DEF CutsText
    <3>2. p \in DOMAIN log /\ Byte(p) \in 1..MaxFrames /\ TextAt(Byte(p), p)
      BY <1>1, <1>2, <3>1, TextFound
    <3>4. PICK m \in 1..MaxFrames : m = Byte(p) /\ log[p] = [frame |-> m, byte |-> 3]
      BY <3>2 DEF TextAt
    <3>5. out' = Append(out, m)
      BY <1>0, <1>2, <2>1, <3>1, <3>4
    <3>6. p \in c + 1..Cut'
      BY <1>0, <1>2, <2>1, <3>1
    <3>7. PICK o \in Seq(1..MaxFrames) : o = out
      BY <1>3
    <3>8. /\ Append(o, m) \in Seq(1..MaxFrames) /\ DOMAIN Append(o, m) = 1..Len(o) + 1
          /\ \A k \in 1..Len(o) : Append(o, m)[k] = o[k]
          /\ Append(o, m)[Len(o) + 1] = m
      OBVIOUS
    <3>9. /\ out' \in Seq(1..MaxFrames) /\ DOMAIN out' = 1..Len(out) + 1
          /\ \A k \in 1..Len(out) : out'[k] = out[k]
          /\ out'[Len(out) + 1] = m
      BY <3>5, <3>7, <3>8
    <3>10. \A k \in 1..Len(out) + 1 : k \in 1..Len(out) \/ k = Len(out) + 1
      BY <1>3
    <3> QED
      BY <1>3, <3>4, <3>6, <3>9, <3>10
  <2>2. CASE ~Yes
    <3>1. out' = out
      BY <1>0, <1>2, <2>2
    <3> QED
      BY <1>3, <3>1
  <2> QED
    BY <2>1, <2>2
<1>5. StreamTypeOK'
  BY <1>0, <1>1, <1>2, <1>4 DEF StreamTypeOK
<1>6. WritersInv' /\ LogInv'
  BY <1>0, <1>1, <1>2 DEF WritersInv, LogInv, Written, Sent
<1>7. BufferInv'
  <2>1. \A i : Byte(i)' = Byte(i)
    BY <1>0, <1>2 DEF Byte
  <2>2. PICK d \in Nat, e \in Nat : d = c + (i1 + 1) /\ e = b - (i1 + 1) /\ d + e = c + b /\ d > 0
    <3>1. /\ c + (i1 + 1) \in Nat /\ b - (i1 + 1) \in Nat /\ c + (i1 + 1) > 0
          /\ (c + (i1 + 1)) + (b - (i1 + 1)) = c + b
      <4>1. i1 + 1 <= b
        BY <1>0, <1>2
      <4> QED
        BY <4>1
    <3> QED
      BY <3>1
  <2>3. Cut' = d /\ Len(fullBuffer') = e /\ DOMAIN fullBuffer' = 1..e
    BY <1>0, <1>2, <2>2
  <2>4. \A i \in DOMAIN stream : stream[i] = Byte(d + e + i)
    BY <1>0, <1>1, <1>2, <2>2 DEF BufferInv
  <2>5. \A i \in 1..e : fullBuffer'[i] = Byte(d + i)
    BY <1>0, <1>2, <2>2
  <2>6. stream' = stream /\ log' = log
    BY <1>0, <1>2
  <2>7. Byte(d) = -4
    BY <1>0, <1>2, <2>2
  <2>8. /\ \A i \in DOMAIN fullBuffer' : fullBuffer'[i] = FrameOf(log'[Cut' + i].frame)[log'[Cut' + i].byte]
        /\ \A i \in DOMAIN stream' : stream'[i] = Byte(d + e + i)'
        /\ FrameOf(log'[Cut'].frame)[log'[Cut'].byte] = -4
    BY <2>1, <2>3, <2>4, <2>5, <2>6, <2>7 DEF Byte
  <2>9. /\ \A i \in DOMAIN fullBuffer' : fullBuffer'[i] = Byte(Cut + i)'
        /\ \A i \in DOMAIN stream' : stream'[i] = Byte(Cut + Len(fullBuffer) + i)'
        /\ Byte(Cut)' = -4
    BY <2>3, <2>8, Zenon DEF Byte
  <2> QED
    BY <2>2, <2>3, <2>9 DEF BufferInv
<1>8. OutInv'
  <2>1. \A k \in DOMAIN out : \E i \in 1..c : log[i] = [frame |-> out[k], byte |-> 3]
    BY <1>0, <1>1, <1>2 DEF OutInv, TextAt
  <2>2. ASSUME NEW k \in DOMAIN out'
        PROVE  \E i \in 1..Cut' : log[i] = [frame |-> out'[k], byte |-> 3]
    <3>1. 1..c \subseteq 1..Cut' /\ c + 1..Cut' \subseteq 1..Cut'
      BY <1>0, <1>2
    <3>2. CASE k \in DOMAIN out
      BY <1>4, <2>1, <3>1, <3>2
    <3>3. CASE k \notin DOMAIN out
      BY <1>4, <3>1, <3>3
    <3> QED
      BY <3>2, <3>3
  <2>3. ASSUME NEW k \in DOMAIN out', NEW l \in DOMAIN out', k < l,
               NEW i \in DOMAIN log, NEW j \in DOMAIN log,
               log[i] = [frame |-> out'[k], byte |-> 3],
               log[j] = [frame |-> out'[l], byte |-> 3]
        PROVE  i < j
    <3>1. CASE l \in DOMAIN out
      <4>1. k \in DOMAIN out
        BY <1>3, <1>4, <2>3, <3>1
      <4>2. TextAt(out[k], i) /\ TextAt(out[l], j)
        BY <1>4, <2>3, <3>1, <4>1 DEF TextAt
      <4> QED
        BY <1>1, <2>3, <3>1, <4>1, <4>2 DEF OutInv
    <3>2. CASE l \notin DOMAIN out
      <4>1. PICK p \in c + 1..Cut' : log[p] = log[j]
        BY <1>4, <2>3, <3>2
      <4>2. p \in DOMAIN log
        BY <1>0, <1>2, <1>3
      <4>3. p = j
        BY <1>1, <4>1, <4>2, Once
      <4>4. k \in DOMAIN out
        BY <1>3, <1>4, <2>3, <3>2
      <4>5. PICK x \in 1..c : log[x] = log[i]
        BY <1>4, <2>1, <2>3, <4>4
      <4>6. x \in DOMAIN log
        BY <1>0, <1>2, <1>3
      <4>7. x = i
        BY <1>1, <4>5, <4>6, Once
      <4> QED
        BY <4>3, <4>7
    <3> QED
      BY <3>1, <3>2
  <2>4. log' = log
    BY <1>0, <1>2
  <2>5. /\ \A k \in DOMAIN out' : \E i \in 1..Cut' : log'[i] = [frame |-> out'[k], byte |-> 3]
        /\ \A k, l \in DOMAIN out' : k < l =>
              \A i, j \in DOMAIN log' : /\ log'[i] = [frame |-> out'[k], byte |-> 3]
                                        /\ log'[j] = [frame |-> out'[l], byte |-> 3]
                                        => i < j
    BY <2>2, <2>3, <2>4
  <2> QED
    BY <2>5, Zenon DEF OutInv, TextAt
<1>9. ArriveInv'
  <2>1. \A q : Clean(q)' <=> Clean(q)
    BY <1>0, <1>2 DEF Clean
  <2>2. \A n, q : Whole(n, q)' <=> Whole(n, q)
    BY <1>0, <1>2 DEF Whole
  <2>3. started' = started /\ log' = log
    BY <1>0, <1>2
  <2>4. ASSUME NEW n \in 1..started, NEW q \in 0..Len(log), Clean(q), Whole(n, q), ~(q >= Cut')
        PROVE  Contains(out', n)
    <3>1. CASE Contains(out, n)
      <4>1. PICK k \in DOMAIN out : out[k] = n
        BY <1>3, <3>1 DEF Contains
      <4>2. k \in 1..Len(out') /\ out'[k] = n
        BY <1>4, <4>1
      <4> QED
        BY <4>2 DEF Contains
    <3>2. CASE ~Contains(out, n)
      <4>1. q >= c /\ q < c + (i1 + 1)
        <5>1. q >= Cut
          BY <1>1, <2>4, <3>2 DEF ArriveInv
        <5> QED
          BY <1>0, <1>2, <1>3, <2>4, <5>1
      <4>2. /\ i1 = i0 + 4 /\ Byte(c + (i0 + 2)) = n /\ Byte(c + (i0 + 3)) = n /\ n > 0
        BY <1>0, <1>1, <1>2, <2>4, <4>1, CutWhole, SMTT(30)
      <4>3. out' = Append(out, n)
        BY <1>0, <1>2, <4>2
      <4>4. Len(out') = Len(out) + 1 /\ out'[Len(out) + 1] = n
        BY <1>3, <4>3
      <4>5. Len(out) + 1 \in 1..Len(out')
        BY <1>3, <4>4
      <4> QED
        BY <4>4, <4>5 DEF Contains
    <3> QED
      BY <3>1, <3>2
  <2> QED
    BY <2>1, <2>2, <2>3, <2>4, Zenon DEF ArriveInv
<1>10. IdleInv'
  BY <1>0, <1>2 DEF IdleInv, CutMessage
<1> QED
  BY <1>5, <1>6, <1>7, <1>8, <1>9, <1>10 DEF ReceiveInv

-----------------------------------------------------------------------------
LEMMA ReceiveInit ==
  ASSUME StreamInit
  PROVE  ReceiveInv
<1>1. /\ started = 0 /\ writing = [w \in Writers |-> 0] /\ pending = [w \in Writers |-> << >>]
      /\ stream = << >> /\ fullBuffer = << >> /\ parsing = FALSE /\ out = << >> /\ log = << >>
  BY DEF StreamInit
<1>2. MaxFrames \in Nat /\ Capacity \in Nat
  BY BoundsAssumption
<1>3. StreamTypeOK
  <2>1. pending \in [Writers -> Seq(Token)] /\ writing \in [Writers -> 0..MaxFrames]
    BY <1>1, <1>2
  <2>2. stream \in Seq(Token) /\ Len(stream) <= Capacity /\ fullBuffer \in Seq(Token)
    BY <1>1, <1>2
  <2>3. /\ log \in Seq([frame : 1..MaxFrames, byte : 1..Len(FrameOf(1))])
        /\ out \in Seq(1..MaxFrames)
    BY <1>1
  <2>4. started \in 0..MaxFrames /\ parsing \in BOOLEAN
    <3>1. 0 \in 0..MaxFrames
      BY <1>2
    <3> QED
      BY <1>1, <3>1, Zenon
  <2> QED
    BY <2>1, <2>2, <2>3, <2>4 DEF StreamTypeOK
<1>4. WritersInv
  BY <1>1 DEF WritersInv
<1>5. LogInv
  BY <1>1 DEF LogInv
<1>6. Cut = 0
  <2>1. Len(log) = 0 /\ Len(stream) = 0 /\ Len(fullBuffer) = 0
    BY <1>1
  <2> QED
    BY <2>1 DEF Cut
<1>7. BufferInv
  BY <1>1, <1>6 DEF BufferInv
<1>8. OutInv
  BY <1>1 DEF OutInv
<1>9. ArriveInv
  BY <1>1 DEF ArriveInv
<1>10. IdleInv
  <2>1. PICK f \in Seq(Token) : f = fullBuffer /\ Len(f) = 0
    <3>1. << >> \in Seq(Token) /\ Len(<< >>) = 0
      OBVIOUS
    <3> QED
      BY <1>1, <3>1, Zenon
  <2>0. PICK i0 : i0 = index0
    OBVIOUS
  <2>2. PICK x \in Int, y \in Int, z \in Nat \ {0} : x = -1 /\ y = -2 /\ z = 1
    OBVIOUS
  <2>3. i0 = find(f, <<x, y>>, z)
    BY <2>0, <2>1, <2>2 DEF index0, preStringBeacon
  <2>4. i0 # 0 => i0 \in z..Len(f) - 1
    <3>1. FirstPair(f, x, y, z, i0)
      BY <2>3, FindFacts
    <3> QED
      BY <3>1 DEF FirstPair
  <2> QED
    BY <2>0, <2>1, <2>2, <2>4 DEF IdleInv
<1> QED
  BY <1>3, <1>4, <1>5, <1>7, <1>8, <1>9, <1>10 DEF ReceiveInv

LEMMA ReceiveNext ==
  ASSUME ReceiveInv, [StreamNext]_streamVars
  PROVE  ReceiveInv'
<1>1. CASE \E w \in Writers : send(w)
  BY <1>1, SendStep
<1>2. CASE \E w \in Writers : Write(w)
  BY <1>2, WriteStep
<1>3. CASE Recv
  BY <1>3, RecvStep
<1>4. CASE CutMessage
  BY <1>4, CutStep
<1>5. CASE EndOfLoop
  BY <1>5, EndOfLoopStep
<1>6. CASE UNCHANGED streamVars
  <2>1. UNCHANGED <<started, writing, pending, stream, fullBuffer, parsing, out, log>>
    BY <1>6 DEF streamVars
  <2>2. StreamTypeOK' /\ WritersInv' /\ LogInv'
    BY <2>1 DEF ReceiveInv, StreamTypeOK, WritersInv, LogInv, Written, Sent
  <2>3. Cut' = Cut
    BY <2>1 DEF Cut
  <2>4. BufferInv'
    BY <2>1, <2>3 DEF ReceiveInv, BufferInv, Byte
  <2>5. OutInv' /\ ArriveInv'
    BY <2>1, <2>3, OutKept DEF ReceiveInv
  <2>6. IdleInv'
    BY <2>1 DEF ReceiveInv, IdleInv, index0, index1
  <2> QED
    BY <2>2, <2>4, <2>5, <2>6 DEF ReceiveInv
<1> QED
  BY <1>1, <1>2, <1>3, <1>4, <1>5, <1>6 DEF StreamNext

\* ReceiveInv is an invariant: however the threads' writes are cut and mixed,
\* what has been received and not cut is the rest of what was written, and it
\* begins right after a beacon (PeerManager::send and PeerManager::receive).
THEOREM ReceiveInvariant == StreamSpec => []ReceiveInv
<1>1. StreamInit => ReceiveInv
  BY ReceiveInit
<1>2. ReceiveInv /\ [StreamNext]_streamVars => ReceiveInv'
  BY ReceiveNext
<1> QED
  BY <1>1, <1>2, PTL DEF StreamSpec

-----------------------------------------------------------------------------
LEMMA InOrder ==
  ASSUME ReceiveInv
  PROVE  OutInOrder
<1>1. /\ StreamTypeOK /\ OutInv /\ DOMAIN log = 1..Len(log) /\ Len(log) \in Nat
      /\ Cut \in Int /\ Cut <= Len(log)
  <2>1. StreamTypeOK /\ OutInv /\ BufferInv
    BY DEF ReceiveInv
  <2>2. log \in Seq(Bytes)
    BY <2>1, Types
  <2>3. Len(stream) \in Nat /\ Len(fullBuffer) \in Nat
    BY <2>1 DEF StreamTypeOK
  <2>4. Cut = Len(log) - Len(stream) - Len(fullBuffer)
    BY DEF Cut
  <2> QED
    BY <2>1, <2>2, <2>3, <2>4
<1> SUFFICES ASSUME NEW k \in DOMAIN out, NEW l \in DOMAIN out, k < l
             PROVE  /\ out[k] # out[l]
                    /\ Apart(out[k], out[l]) => Min(BytesOf(out[k])) < Min(BytesOf(out[l]))
  BY Zenon DEF OutInOrder
<1>2. PICK x \in DOMAIN log, y \in DOMAIN log :
         log[x] = [frame |-> out[k], byte |-> 3] /\ log[y] = [frame |-> out[l], byte |-> 3]
  <2>1. \A i \in 1..Cut : i \in DOMAIN log
    BY <1>1
  <2> QED
    BY <1>1, <2>1 DEF OutInv, TextAt
<1>3. x < y
  BY <1>1, <1>2 DEF OutInv, TextAt
<1>4. out[k] # out[l]
  <2>1. SUFFICES ASSUME out[k] = out[l]
                 PROVE  FALSE
    OBVIOUS
  <2>2. y < x
    BY <1>1, <1>2, <2>1 DEF OutInv, TextAt
  <2> QED
    BY <1>1, <1>3, <2>2
<1>5. x \in BytesOf(out[k]) /\ y \in BytesOf(out[l])
  BY <1>2 DEF BytesOf
<1>6. /\ BytesOf(out[k]) \in SUBSET Nat /\ BytesOf(out[l]) \in SUBSET Nat
      /\ BytesOf(out[k]) # {} /\ BytesOf(out[l]) # {}
  BY <1>1, <1>5 DEF BytesOf
<1>7. Min(BytesOf(out[k])) \in BytesOf(out[k]) /\ Min(BytesOf(out[l])) \in BytesOf(out[l])
  BY <1>6, Least
<1>8. ASSUME Apart(out[k], out[l])
      PROVE  Min(BytesOf(out[k])) < Min(BytesOf(out[l]))
  <2>1. ~(y < x)
    BY <1>1, <1>3
  <2>2. \A i \in BytesOf(out[k]), j \in BytesOf(out[l]) : i < j
    BY <1>5, <1>8, <2>1, Zenon DEF Apart
  <2> QED
    BY <1>7, <2>2
<1> QED
  BY <1>4, <1>8

-----------------------------------------------------------------------------
\* All of frame n has been written, and nothing between its first byte and its
\* last is of another frame.
AllSent(n) == \A k \in 1..6 : \E i \in DOMAIN log : log[i] = [frame |-> n, byte |-> k]

Alone(n) ==
  \A i, a, z \in DOMAIN log :
     /\ log[a] = [frame |-> n, byte |-> 1] /\ log[z] = [frame |-> n, byte |-> 6]
     /\ a < i /\ i < z
     => log[i].frame = n

\* Such a frame was written in one piece.
LEMMA Together ==
  ASSUME StreamTypeOK, LogInv, NEW n \in 1..started, AllSent(n), Alone(n)
  PROVE  \E q \in 0..Len(log) : Whole(n, q)
<1>1. DOMAIN log = 1..Len(log) /\ Len(log) \in Nat /\ started \in Nat
  BY Types
<1>4. PICK at \in [1..6 -> DOMAIN log] : \A k \in 1..6 : log[at[k]] = [frame |-> n, byte |-> k]
  <2> DEFINE a == [k \in 1..6 |-> CHOOSE i \in DOMAIN log : log[i] = [frame |-> n, byte |-> k]]
  <2>1. ASSUME NEW k \in 1..6
        PROVE  a[k] \in DOMAIN log /\ log[a[k]] = [frame |-> n, byte |-> k]
    <3>1. PICK i \in DOMAIN log : log[i] = [frame |-> n, byte |-> k]
      BY DEF AllSent
    <3> QED
      BY <3>1
  <2>2. a \in [1..6 -> DOMAIN log]
    BY <2>1
  <2> QED
    BY <2>1, <2>2
<1>5. \A i \in DOMAIN log : log[i].byte \in 1..6
  BY ByteFacts, Zenon
<1>6. \A i, j \in DOMAIN log :
         log[i].frame = log[j].frame => (i < j <=> log[i].byte < log[j].byte)
  <2>1. \A i, j \in DOMAIN log : log[i].frame = log[j].frame /\ i < j => log[i].byte < log[j].byte
    BY DEF LogInv
  <2>2. \A i, j \in DOMAIN log : log[i].frame = log[j].frame /\ log[i].byte < log[j].byte => i < j
    BY Order
  <2> QED
    BY <2>1, <2>2
<1>7. \A k \in 1..6 : at[k] \in DOMAIN log /\ log[at[k]].frame = n /\ log[at[k]].byte = k
  BY <1>4
<1>8. ASSUME NEW i \in DOMAIN log, at[1] < i, i < at[6]
      PROVE  log[i].frame = n
  <2>1. /\ log[at[1]] = [frame |-> n, byte |-> 1] /\ log[at[6]] = [frame |-> n, byte |-> 6]
        /\ at[1] \in DOMAIN log /\ at[6] \in DOMAIN log
    BY <1>4, 1 \in 1..6, 6 \in 1..6
  <2> QED
    BY <1>8, <2>1, Zenon DEF Alone
<1>9. ASSUME NEW k \in 1..5
      PROVE  at[k + 1] = at[k] + 1
  <2>1. k \in 1..6 /\ k + 1 \in 1..6 /\ 1 \in 1..6 /\ 6 \in 1..6
    OBVIOUS
  <2>2. PICK x \in DOMAIN log, y \in DOMAIN log :
           /\ x = at[k] /\ log[x].frame = n /\ log[x].byte = k
           /\ y = at[k + 1] /\ log[y].frame = n /\ log[y].byte = k + 1
    BY <1>7, <2>1, Zenon
  <2>3. PICK v \in DOMAIN log, z \in DOMAIN log :
           /\ v = at[1] /\ log[v].frame = n /\ log[v].byte = 1
           /\ z = at[6] /\ log[z].frame = n /\ log[z].byte = 6
    BY <1>7, <2>1, Zenon
  <2>4. x < y
    BY <1>6, <2>2
  <2>5. v = x \/ v < x
    <3>1. CASE k = 1
      BY <2>2, <2>3, <3>1
    <3>2. CASE k # 1
      BY <1>6, <2>2, <2>3, <3>2
    <3> QED
      BY <3>1, <3>2
  <2>6. y = z \/ y < z
    <3>1. CASE k = 5
      BY <2>2, <2>3, <3>1
    <3>2. CASE k # 5
      BY <1>6, <2>2, <2>3, <3>2
    <3> QED
      BY <3>1, <3>2
  <2>7. PICK l \in Nat : DOMAIN log = 1..l
    BY <1>1
  <2>8. x \in Nat /\ y \in Nat /\ v \in Nat /\ z \in Nat
    <3>1. \A j \in 1..l : j \in Nat
      OBVIOUS
    <3>2. x \in 1..l /\ y \in 1..l /\ v \in 1..l /\ z \in 1..l
      BY <2>7, Zenon
    <3> QED
      BY <3>1, <3>2, Zenon
  <2>9. y = x + 1 => at[k + 1] = at[k] + 1
    BY <2>2, Zenon
  <2>10. SUFFICES ASSUME x + 1 < y
                 PROVE  FALSE
    BY <2>8, <2>9, <2>4
  <2>11. PICK i \in DOMAIN log : i = x + 1
    BY <2>7, <2>10, SMTT(30)
  <2>12. v < i /\ i < z /\ x < i /\ i < y
    BY <2>5, <2>6, <2>10, <2>11, <2>8
  <2>13. log[i].frame = n
    BY <1>8, <2>3, <2>12
  <2>14. k < log[i].byte /\ log[i].byte < k + 1
    BY <1>6, <2>2, <2>12, <2>13
  <2>15. log[i].byte \in 1..6
    BY <1>5
  <2> QED
    BY <2>14, <2>15
<1>10. PICK q \in 0..Len(log) : at[1] = q + 1
  <2>1. at[1] - 1 \in 0..Len(log) /\ at[1] = (at[1] - 1) + 1
    BY <1>1, <1>7
  <2> QED
    BY <2>1
<1>11. \A k \in 1..6 : at[k] = q + k
  <2>1. at[2] = at[1] + 1 /\ at[3] = at[2] + 1 /\ at[4] = at[3] + 1
        /\ at[5] = at[4] + 1 /\ at[6] = at[5] + 1
    BY <1>9
  <2>2. at[1] = q + 1 /\ at[2] = q + 2 /\ at[3] = q + 3 /\ at[4] = q + 4 /\ at[5] = q + 5
        /\ at[6] = q + 6
    BY <1>10, <2>1
  <2>3. \A k \in 1..6 : k = 1 \/ k = 2 \/ k = 3 \/ k = 4 \/ k = 5 \/ k = 6
    OBVIOUS
  <2> QED
    BY <2>2, <2>3, Zenon
<1> QED
  BY <1>4, <1>7, <1>11 DEF Whole

\* A frame that did not mix with another was written in one piece, and
\* everything begun before it was ended before it.
LEMMA OnePiece ==
  ASSUME ReceiveInv, Quiet, NEW n \in 1..started, Undisturbed(n)
  PROVE  \E q \in 0..Len(log) : Clean(q) /\ Whole(n, q)
<1>1. /\ StreamTypeOK /\ WritersInv /\ LogInv /\ DOMAIN log = 1..Len(log) /\ Len(log) \in Nat
      /\ started \in Nat
  BY Types DEF ReceiveInv
<1>2. \A f, k : k \in 1..6 => Sent(f, k)
  <2>1. \A w \in Writers : Written(w) = 6
    <3> TAKE w \in Writers
    <3>1. pending[w] = << >> /\ Written(w) = 6 - Len(pending[w])
      BY <1>1, Types DEF Quiet
    <3> QED
      BY <3>1
  <2> QED
    BY <2>1 DEF Sent
<1>3. \A f \in 1..started, k \in 1..6 : \E i \in DOMAIN log : log[i] = [frame |-> f, byte |-> k]
  BY <1>1, <1>2 DEF LogInv
<1>4. \A i \in DOMAIN log : log[i].frame \in 1..started /\ log[i].byte \in 1..6
  <2> TAKE i \in DOMAIN log
  <2>1. log[i].frame \in 1..MaxFrames /\ log[i].byte \in 1..6
    BY <1>1, ByteFacts
  <2>2. log[i].frame <= started
    BY <1>1 DEF LogInv
  <2> QED
    BY <1>1, <2>1, <2>2
<1>5. ASSUME NEW i \in DOMAIN log, log[i].frame # n,
             NEW a \in BytesOf(n), NEW z \in BytesOf(n)
      PROVE  ~(a < i /\ i < z)
  <2>1. Apart(log[i].frame, n)
    BY <1>4, <1>5 DEF Undisturbed
  <2>2. i \in BytesOf(log[i].frame)
    BY DEF BytesOf
  <2>3. i < a \/ z < i
    BY <1>5, <2>1, <2>2, Zenon DEF Apart
  <2>4. i \in Nat /\ a \in Nat /\ z \in Nat
    BY <1>1 DEF BytesOf
  <2> QED
    BY <2>3, <2>4
<1>6. Alone(n)
  <2> SUFFICES ASSUME NEW i \in DOMAIN log, NEW a \in DOMAIN log, NEW z \in DOMAIN log,
                      log[a] = [frame |-> n, byte |-> 1], log[z] = [frame |-> n, byte |-> 6],
                      a < i, i < z
               PROVE  log[i].frame = n
    BY Zenon DEF Alone
  <2>1. a \in BytesOf(n) /\ z \in BytesOf(n)
    BY DEF BytesOf
  <2> QED
    BY <1>5, <2>1
<1>7. PICK q \in 0..Len(log) : Whole(n, q)
  BY <1>1, <1>3, <1>6, Together DEF AllSent
<1>8. Clean(q)
  <2> SUFFICES ASSUME NEW i \in 1..q
               PROVE  \E j \in 1..q : log[j] = [frame |-> log[i].frame, byte |-> 6]
    BY DEF Clean
  <2>1. PICK b \in DOMAIN log : b = q + 1 /\ log[b].frame = n /\ log[b].byte = 1
    BY <1>7, 1 \in 1..6, SMTT(30) DEF Whole
  <2>2. i \in DOMAIN log /\ i < b
    BY <1>1, <2>1
  <2>3. PICK f \in 1..started : f = log[i].frame
    BY <1>4, <2>2
  <2>4. f # n
    <3>1. SUFFICES ASSUME log[i].frame = log[b].frame
                   PROVE  FALSE
      BY <2>1, <2>3
    <3>2. log[i].byte < log[b].byte
      BY <1>1, <2>2, <3>1 DEF LogInv
    <3>3. log[i].byte \in 1..6
      BY <1>4, <2>2
    <3> QED
      BY <2>1, <3>2, <3>3
  <2>5. PICK j \in DOMAIN log : log[j] = [frame |-> f, byte |-> 6]
    BY <1>3, 6 \in 1..6
  <2>6. j < b
    <3>1. i \in BytesOf(f) /\ j \in BytesOf(f) /\ b \in BytesOf(n) /\ ~(b < i)
      BY <1>1, <2>1, <2>2, <2>3, <2>5 DEF BytesOf
    <3>2. Apart(f, n)
      BY <2>4 DEF Undisturbed
    <3> QED
      BY <3>1, <3>2, Zenon DEF Apart
  <2>7. j \in 1..q
    BY <1>1, <2>1, <2>6
  <2> QED
    BY <2>3, <2>5, <2>7
<1> QED
  BY <1>7, <1>8

LEMMA UndisturbedArrived ==
  ASSUME ReceiveInv
  PROVE  UndisturbedArrive
<1> SUFFICES ASSUME Quiet, NEW n \in 1..started, Undisturbed(n), ~Contains(out, n)
             PROVE  FALSE
  BY Zenon DEF UndisturbedArrive
<1>1. /\ StreamTypeOK /\ BufferInv /\ ArriveInv /\ DOMAIN log = 1..Len(log) /\ Len(log) \in Nat
      /\ started \in Nat
  BY Types DEF ReceiveInv
<1>2. PICK q \in 0..Len(log) : Clean(q) /\ Whole(n, q)
  BY OnePiece
<1>3. PICK f \in Seq(Token), c \in Nat :
         f = fullBuffer /\ c = Cut /\ Len(f) \in Nat /\ c + Len(f) = Len(log) /\ q >= c
  <2>1. Len(stream) = 0
    BY DEF Quiet
  <2>2. fullBuffer \in Seq(Token) /\ Len(fullBuffer) \in Nat
    BY <1>1 DEF StreamTypeOK
  <2>3. Cut = Len(log) - 0 - Len(fullBuffer) /\ Cut >= 0
    BY <1>1, <2>1 DEF Cut, BufferInv
  <2>4. Cut \in Nat /\ Cut + Len(fullBuffer) = Len(log)
    BY <1>1, <2>2, <2>3
  <2>5. q >= Cut
    BY <1>1, <1>2 DEF ArriveInv
  <2> QED
    BY <2>2, <2>4, <2>5
<1>4. PICK z \in Nat : q = c + z /\ z + 6 <= Len(f)
  <2>1. q + 6 \in 1..Len(log)
    BY <1>1, <1>2, 6 \in 1..6 DEF Whole
  <2>2. q - c \in Nat /\ q = c + (q - c) /\ (q - c) + 6 <= Len(f)
    BY <1>1, <1>3, <2>1
  <2> QED
    BY <2>2
\* fullBuffer holds the frame.
<1>5. f[z + 1] = -1 /\ f[z + 2] = -2 /\ f[z + 5] = -3 /\ f[z + 6] = -4
  <2>1. ASSUME NEW k \in 1..6
        PROVE  f[z + k] = FrameOf(n)[k]
    <3>1. z + k \in DOMAIN f /\ c + (z + k) = q + k
      BY <1>3, <1>4
    <3>2. f[z + k] = Byte(q + k)
      <4>1. f[z + k] = Byte(c + (z + k))
        BY <1>1, <1>3, <3>1 DEF BufferInv
      <4> QED
        BY <3>1, <4>1
    <3>3. PICK i \in DOMAIN log : i = q + k /\ log[i] = [frame |-> n, byte |-> k]
      BY <1>2 DEF Whole
    <3>4. log[i].frame = n /\ log[i].byte = k
      BY <3>3
    <3> QED
      BY <3>2, <3>3, <3>4, Zenon DEF Byte
  <2>2. n \in Nat
    BY <1>1
  <2>3. FrameOf(n)[1] = -1 /\ FrameOf(n)[2] = -2 /\ FrameOf(n)[5] = -3 /\ FrameOf(n)[6] = -4
    BY <2>2, FrameFacts
  <2>4. 1 \in 1..6 /\ 2 \in 1..6 /\ 5 \in 1..6 /\ 6 \in 1..6
    OBVIOUS
  <2> QED
    BY <2>1, <2>3, <2>4, Zenon
\* So the receive thread finds it, or an earlier one.
<1>6. PICK i0 : i0 = index0
  OBVIOUS
<1>7. i0 # 0 /\ i0 \in Nat /\ i0 <= z + 1
  <2>1. PICK x \in Int, y \in Int, o \in Nat \ {0} : x = -1 /\ y = -2 /\ o = 1
    OBVIOUS
  <2>2. i0 = find(f, <<x, y>>, o)
    BY <1>3, <1>6, <2>1 DEF index0, preStringBeacon
  <2>3. /\ i0 # 0 => i0 \in o..Len(f) - 1 /\ f[i0] = x /\ f[i0 + 1] = y
        /\ \A j \in o..Len(f) - 1 : f[j] = x /\ f[j + 1] = y => i0 # 0 /\ i0 <= j
    <3>1. FirstPair(f, x, y, o, i0)
      BY <2>2, FindFacts
    <3> QED
      BY <3>1 DEF FirstPair
  <2>4. z + 1 \in o..Len(f) - 1 /\ (z + 1) + 1 = z + 2
    BY <1>3, <1>4, <2>1
  <2>5. i0 # 0 /\ i0 <= z + 1
    BY <1>5, <2>1, <2>3, <2>4
  <2> QED
    BY <2>1, <2>3, <2>5
<1>8. PICK i1 : i1 = index1
  OBVIOUS
<1>9. i1 # 0
  <2>1. PICK x \in Int, y \in Int, o \in Nat \ {0} : x = -3 /\ y = -4 /\ o = i0 + 2
    BY <1>7
  <2>2. i1 = find(f, <<x, y>>, o)
    BY <1>3, <1>6, <1>8, <2>1 DEF index1, preStringBeacon, postStringBeacon
  <2>3. \A j \in o..Len(f) - 1 : f[j] = x /\ f[j + 1] = y => i1 # 0 /\ i1 <= j
    <3>1. FirstPair(f, x, y, o, i1)
      BY <2>2, FindFacts
    <3> QED
      BY <3>1 DEF FirstPair
  <2>4. z + 5 \in o..Len(f) - 1 /\ (z + 5) + 1 = z + 6
    BY <1>3, <1>4, <1>7, <2>1
  <2> QED
    BY <1>5, <2>1, <2>3, <2>4
<1> QED
  BY <1>6, <1>7, <1>8, <1>9 DEF ReceiveInv, IdleInv, Quiet

\* Only frames that mix are spoilt: when nothing more moves, every other one
\* has come out (PeerManager::send and PeerManager::receive).
THEOREM ArriveCorrect == StreamSpec => []UndisturbedArrive
<1>1. ReceiveInv => UndisturbedArrive
  BY UndisturbedArrived
<1> QED
  BY <1>1, ReceiveInvariant, PTL

\* What comes out, comes out once and in the order in which it was written, and
\* all that can come out does, for any threads, frames and buffers
\* (PeerManager::receive).
THEOREM StreamCorrect == StreamSpec => []StreamInv
<1>1. ReceiveInv => StreamTypeOK /\ OutInOrder
  BY InOrder DEF ReceiveInv
<1>2. StreamTypeOK /\ OutInOrder /\ UndisturbedArrive => StreamInv
  BY DEF StreamInv
<1> QED
  BY <1>1, <1>2, ReceiveInvariant, ArriveCorrect, PTL

-----------------------------------------------------------------------------
(* Channel.                                                                  *)

\* Open and Mixed of any bytes l.
OpenIn(l, j) ==
  {l[i].frame : i \in 1..j - 1} \ {l[i].frame : i \in {k \in 1..j - 1 : l[k].byte = 6}}

MixedIn(l) ==
  UNION {OpenIn(l, j) \cup {l[j].frame} :
            j \in {k \in DOMAIN l : OpenIn(l, k) \ {l[k].frame} # {}}}

TextsIn(l) == {[msg |-> l[i].frame, at |-> i] : i \in {j \in DOMAIN l : l[j].byte = 3}}

\* Byte j got into frame m.
GotInto(l, j, m) == j \in DOMAIN l /\ m \in OpenIn(l, j) /\ m # l[j].frame

\* Frame m has a byte before the j-th of l, and has its last byte there.
BegunIn(l, j, m) == \E i \in 1..j - 1 : l[i].frame = m
EndedIn(l, j, m) == \E i \in 1..j - 1 : l[i].frame = m /\ l[i].byte = 6

LEMMA OpenFacts ==
  ASSUME NEW l, NEW j, NEW m
  PROVE  m \in OpenIn(l, j) <=> BegunIn(l, j, m) /\ ~EndedIn(l, j, m)
BY DEF OpenIn, BegunIn, EndedIn

LEMMA MixedFacts ==
  ASSUME NEW l, NEW n
  PROVE  n \in MixedIn(l) <=>
           \E j, m : GotInto(l, j, m) /\ (n \in OpenIn(l, j) \/ n = l[j].frame)
BY DEF MixedIn, GotInto

IsText(l, x) == \E i \in DOMAIN l : l[i].byte = 3 /\ x = [msg |-> l[i].frame, at |-> i]

LEMMA TextFacts ==
  ASSUME NEW l, NEW x
  PROVE  x \in TextsIn(l) <=> IsText(l, x)
BY DEF TextsIn, IsText

LEMMA MixedTypes ==
  ASSUME NEW l \in Seq(Bytes)
  PROVE  /\ MixedIn(l) \subseteq 1..MaxFrames
         /\ \A m \in MixedIn(l) : MixedIn(l) # {m}
<1>1. DOMAIN l = 1..Len(l) /\ Len(l) \in Nat /\ \A i \in DOMAIN l : l[i].frame \in 1..MaxFrames
  <2>1. DOMAIN l = 1..Len(l) /\ Len(l) \in Nat /\ \A i \in 1..Len(l) : l[i] \in Bytes
    OBVIOUS
  <2> QED
    BY <2>1 DEF Bytes
<1>2. \A j \in DOMAIN l : \A m \in OpenIn(l, j) : m \in 1..MaxFrames
  <2> TAKE j \in DOMAIN l
  <2> TAKE m \in OpenIn(l, j)
  <2>1. PICK i \in 1..j - 1 : l[i].frame = m
    <3>1. BegunIn(l, j, m)
      BY OpenFacts, Zenon
    <3> QED
      BY <3>1 DEF BegunIn
  <2>2. i \in DOMAIN l
    BY <1>1
  <2> QED
    BY <1>1, <2>1, <2>2
<1>3. ASSUME NEW n \in MixedIn(l)
      PROVE  n \in 1..MaxFrames /\ \E m \in MixedIn(l) : m # n
  <2>1. PICK j, m : GotInto(l, j, m) /\ (n \in OpenIn(l, j) \/ n = l[j].frame)
    BY MixedFacts, Zenon
  <2>2. j \in DOMAIN l /\ m \in OpenIn(l, j) /\ m # l[j].frame
    BY <2>1, Zenon DEF GotInto
  <2>3. m \in MixedIn(l) /\ l[j].frame \in MixedIn(l)
    BY <2>1, <2>2, MixedFacts, Zenon
  <2>4. n \in 1..MaxFrames
    BY <1>1, <1>2, <2>1, <2>2, Zenon
  <2> QED
    BY <2>2, <2>3, <2>4, Zenon
<1> QED
  BY <1>3

\* What has run into another frame stays so.
LEMMA MixedGrows ==
  ASSUME NEW l \in Seq(Bytes), NEW k \in Seq(Bytes), Len(l) <= Len(k),
         \A i \in 1..Len(l) : k[i] = l[i]
  PROVE  MixedIn(l) \subseteq MixedIn(k)
<1>1. /\ DOMAIN l = 1..Len(l) /\ Len(l) \in Nat
      /\ \A i \in DOMAIN l : i \in DOMAIN k /\ k[i] = l[i]
  OBVIOUS
<1>2. ASSUME NEW j \in DOMAIN l, NEW m
      PROVE  m \in OpenIn(l, j) <=> m \in OpenIn(k, j)
  <2>1. \A i \in 1..j - 1 : k[i] = l[i]
    BY <1>1
  <2>2. /\ BegunIn(l, j, m) <=> BegunIn(k, j, m)
        /\ EndedIn(l, j, m) <=> EndedIn(k, j, m)
    BY <2>1 DEF BegunIn, EndedIn
  <2> QED
    BY <2>2, OpenFacts, Zenon
<1>3. ASSUME NEW n \in MixedIn(l)
      PROVE  n \in MixedIn(k)
  <2>1. PICK j, m : GotInto(l, j, m) /\ (n \in OpenIn(l, j) \/ n = l[j].frame)
    BY MixedFacts, Zenon
  <2>2. j \in DOMAIN l /\ m \in OpenIn(l, j) /\ m # l[j].frame
    BY <2>1, Zenon DEF GotInto
  <2>3. GotInto(k, j, m) /\ (n \in OpenIn(k, j) \/ n = k[j].frame)
    BY <1>1, <1>2, <2>1, <2>2, Zenon DEF GotInto
  <2> QED
    BY <2>3, MixedFacts, Zenon
<1> QED
  BY <1>3

LEMMA Same ==
  Mixed = MixedIn(log) /\ Texts = TextsIn(log) /\ (Mixed)' = MixedIn(log') /\ (Texts)' = TextsIn(log')
<1>1. \A j : Open(j) = OpenIn(log, j)
  BY Zenon DEF Open, OpenIn
<1>2. \A j : Open(j)' = OpenIn(log', j)
  BY Zenon DEF Open, OpenIn
<1> QED
  BY <1>1, <1>2, Zenon DEF Mixed, MixedIn, Texts, TextsIn

\* A frame that has run into no other: bytes after its first and before its
\* last are its own, and it begins where everything else has ended.
LEMMA Unmixed ==
  ASSUME NEW n, n \notin Mixed, NEW j \in DOMAIN log
  PROVE  /\ BegunIn(log, j, n) /\ ~EndedIn(log, j, n) => log[j].frame = n
         /\ log[j].frame = n => \A m : BegunIn(log, j, m) /\ m # n => EndedIn(log, j, m)
<1>1. n \notin MixedIn(log)
  BY Same, Zenon
<1>2. \A m : GotInto(log, j, m) => ~(n \in OpenIn(log, j)) /\ n # log[j].frame
  BY <1>1, MixedFacts, Zenon
<1>3. \A m : m \in OpenIn(log, j) <=> BegunIn(log, j, m) /\ ~EndedIn(log, j, m)
  BY OpenFacts, Zenon
<1> QED
  BY <1>2, <1>3, Zenon DEF GotInto

\* Such a frame, once something has ended after its text was begun, was written
\* in one piece.
LEMMA UnmixedWhole ==
  ASSUME StreamTypeOK, LogInv, NEW n \in 1..started, n \notin Mixed,
         NEW u \in DOMAIN log, TextAt(n, u),
         NEW d \in DOMAIN log, u < d, log[d].byte = 6
  PROVE  \E q \in 0..Len(log) : q + 3 = u /\ Clean(q) /\ Whole(n, q)
<1>1. DOMAIN log = 1..Len(log) /\ Len(log) \in Nat /\ log[u].frame = n /\ log[u].byte = 3
  BY Types DEF TextAt
<1>2. PICK g \in DOMAIN log : log[g].frame = n /\ log[g].byte = 6
  <2>1. CASE log[d].frame = n
    BY <2>1
  <2>2. CASE log[d].frame # n
    <3>1. BegunIn(log, d, n)
      <4>1. u \in 1..d - 1
        BY <1>1
      <4> QED
        BY <1>1, <4>1 DEF BegunIn
    <3>2. EndedIn(log, d, n)
      BY <2>2, <3>1, Unmixed, Zenon
    <3>3. PICK k \in 1..d - 1 : log[k].frame = n /\ log[k].byte = 6
      BY <3>2 DEF EndedIn
    <3>4. k \in DOMAIN log
      BY <1>1
    <3> QED
      BY <3>3, <3>4
  <2> QED
    BY <2>1, <2>2
<1>3. AllSent(n)
  <2>1. Sent(n, 6)
    <3>1. Sent(log[g].frame, log[g].byte)
      BY DEF LogInv
    <3> QED
      BY <1>2, <3>1, Zenon
  <2>2. \A w \in Writers : Written(w) \in Int
    <3>1. \A w \in Writers : Written(w) = 6 - Len(pending[w]) /\ pending[w] \in Seq(Token)
      BY Types
    <3> QED
      BY <3>1
  <2>3. \A k \in 1..6 : Sent(n, k)
    BY <2>1, <2>2 DEF Sent
  <2> QED
    BY <2>3 DEF LogInv, AllSent
<1>4. Alone(n)
  <2> SUFFICES ASSUME NEW i \in DOMAIN log, NEW a \in DOMAIN log, NEW z \in DOMAIN log,
                      log[a] = [frame |-> n, byte |-> 1], log[z] = [frame |-> n, byte |-> 6],
                      a < i, i < z
               PROVE  log[i].frame = n
    BY Zenon DEF Alone
  <2>1. a \in 1..i - 1 /\ log[a].frame = n
    BY <1>1
  <2>2. BegunIn(log, i, n)
    BY <2>1 DEF BegunIn
  <2>3. ASSUME NEW k \in 1..i - 1, log[k].frame = n, log[k].byte = 6
        PROVE  FALSE
    <3>1. k \in DOMAIN log /\ k < z
      BY <1>1
    <3>2. log[k].byte < log[z].byte
      <4>1. log[k].frame = log[z].frame
        BY <2>3
      <4> QED
        BY <3>1, <4>1 DEF LogInv
    <3> QED
      BY <2>3, <3>2
  <2>4. ~EndedIn(log, i, n)
    BY <2>3 DEF EndedIn
  <2> QED
    BY <2>2, <2>4, Unmixed, Zenon
<1>5. PICK q \in 0..Len(log) : Whole(n, q)
  BY <1>3, <1>4, Together
<1>6. q + 3 = u
  <2>1. q + 3 \in DOMAIN log /\ log[q + 3] = log[u]
    BY <1>5, 3 \in 1..6 DEF Whole, TextAt
  <2> QED
    BY <2>1, Once
<1>7. Clean(q)
  <2> SUFFICES ASSUME NEW i \in 1..q
               PROVE  \E j \in 1..q : log[j] = [frame |-> log[i].frame, byte |-> 6]
    BY DEF Clean
  <2>1. PICK b \in DOMAIN log : b = q + 1 /\ log[b].frame = n /\ log[b].byte = 1
    BY <1>5, 1 \in 1..6, SMTT(30) DEF Whole
  <2>2. i \in DOMAIN log /\ i < b /\ 1..b - 1 = 1..q /\ i \in 1..b - 1
    BY <1>1, <2>1
  <2>3. log[i].frame # n
    <3>1. SUFFICES ASSUME log[i].frame = log[b].frame
                   PROVE  FALSE
      BY <2>1
    <3>2. log[i].byte < log[b].byte
      BY <2>2, <3>1 DEF LogInv
    <3>3. log[i].byte \in 1..6
      BY <2>2, ByteFacts
    <3> QED
      BY <2>1, <3>2, <3>3
  <2>4. BegunIn(log, b, log[i].frame)
    BY <2>2 DEF BegunIn
  <2>5. EndedIn(log, b, log[i].frame)
    BY <2>1, <2>3, <2>4, Unmixed, Zenon
  <2>6. PICK j \in 1..b - 1 : log[j].frame = log[i].frame /\ log[j].byte = 6
    BY <2>5 DEF EndedIn
  <2>7. j \in DOMAIN log
    BY <1>1
  <2>8. log[j] = [frame |-> log[j].frame, byte |-> log[j].byte]
    BY <2>7, ByteFacts
  <2> QED
    BY <2>2, <2>6, <2>8
<1> QED
  BY <1>5, <1>6, <1>7

\* A frame that has run into no other is not passed over.
LEMMA NotPassed ==
  ASSUME ReceiveInv,
         NEW c \in Nat, NEW b \in Nat, NEW i0 \in Nat, NEW i1 \in Nat,
         Found(c, b, i0, i1), c = Cut,
         NEW n \in 1..MaxFrames, n \notin Mixed, NEW u \in DOMAIN log, CutOff(c, i1, u), TextAt(n, u)
  PROVE  CutsText(c, i0, i1, u)
<1>1. StreamTypeOK /\ LogInv /\ BufferInv
  BY DEF ReceiveInv
<1>2. /\ i0 > 0 /\ i0 + 2 <= i1 /\ i1 + 1 <= b /\ c + b <= Len(log) /\ Byte(c + (i1 + 1)) = -4
  BY DEF Found
<1>3. DOMAIN log = 1..Len(log) /\ Len(log) \in Nat /\ started \in Nat
  BY <1>1, Types
<1>4. PICK d \in DOMAIN log : d = c + (i1 + 1) /\ u <= d /\ c < u
  BY <1>2, <1>3 DEF CutOff
<1>5. log[d].byte = 6 /\ log[u].byte = 3 /\ log[u].frame = n
  BY <1>1, <1>2, <1>4, ByteFacts DEF TextAt
<1>6. u < d
  BY <1>3, <1>4, <1>5
<1>7. n \in 1..started
  <2>1. log[u].frame <= started
    BY <1>1, <1>4 DEF LogInv
  <2>2. MaxFrames \in Nat
    BY BoundsAssumption
  <2> QED
    BY <1>3, <1>5, <2>1, <2>2
<1>8. PICK q \in 0..Len(log) : q + 3 = u /\ Clean(q) /\ Whole(n, q)
  BY <1>1, <1>4, <1>5, <1>6, <1>7, UnmixedWhole
<1>9. q >= c
  <2> SUFFICES ASSUME q < c
               PROVE  FALSE
    BY <1>3
  <2>1. PICK k \in {1, 2} : c = q + k
    BY <1>3, <1>4, <1>8
  <2>2. k \in 1..6
    OBVIOUS
  <2>3. c \in DOMAIN log /\ log[c] = [frame |-> n, byte |-> k]
    BY <1>8, <2>1, <2>2 DEF Whole
  <2>4. Byte(c) = -4
    BY <1>1, <1>3, <2>3 DEF BufferInv
  <2>5. log[c].byte = 6
    BY <1>1, <2>3, <2>4, ByteFacts
  <2> QED
    BY <2>3, <2>5
<1>10. q < c + (i1 + 1)
  BY <1>3, <1>4, <1>8
<1>11. i1 = i0 + 4 /\ Byte(c + (i0 + 2)) = n /\ Byte(c + (i0 + 3)) = n /\ n > 0
  BY <1>1, <1>7, <1>8, <1>9, <1>10, CutWhole, SMTT(30)
<1>12. PICK p : p = c + (i0 + 2) /\ CutsText(c, i0, i1, p)
  BY <1>11 DEF CutsText
<1>13. p \in DOMAIN log /\ TextAt(Byte(p), p)
  BY <1>1, <1>12, TextFound
<1>14. p = u
  <2>1. log[p] = log[u]
    BY <1>11, <1>12, <1>13 DEF TextAt
  <2> QED
    BY <1>1, <1>13, <2>1, Once
<1> QED
  BY <1>12, <1>14

\* What is under way.
LEMMA OnTheWay ==
  ASSUME StreamTypeOK, NEW y \in Texts
  PROVE  y.at \in DOMAIN log /\ y.at \in Nat /\ TextAt(y.msg, y.at) /\ y.msg \in 1..MaxFrames
         /\ y = [msg |-> y.msg, at |-> y.at]
<1>1. y \in TextsIn(log)
  BY Same, Zenon
<1>2. IsText(log, y)
  BY <1>1, TextFacts, Zenon
<1>3. PICK i \in DOMAIN log : log[i].byte = 3 /\ y = [msg |-> log[i].frame, at |-> i]
  BY <1>2 DEF IsText
<1>4. log[i] = [frame |-> log[i].frame, byte |-> log[i].byte] /\ log[i].frame \in 1..MaxFrames
  BY ByteFacts
<1>5. y.msg = log[i].frame /\ y.at = i /\ i \in Nat
  BY <1>3, Types
<1> QED
  BY <1>3, <1>4, <1>5 DEF TextAt

LEMMA ChannelKept ==
  ASSUME UNCHANGED <<log, out>>, Cut' = Cut
  PROVE  UNCHANGED Chan!chvars
<1>1. Mixed' = Mixed /\ Texts' = Texts
  BY Same, Zenon
<1> QED
  BY <1>1 DEF Chan!chvars, Begun, UnderWay

\* A turn of the loop takes the message that it cuts out, or loses what it
\* passes over.
LEMMA CutChannel ==
  ASSUME ReceiveInv, CutMessage
  PROVE  Chan!CNext
<1>1. StreamTypeOK /\ LogInv /\ BufferInv
  BY DEF ReceiveInv
<1>2. PICK c \in Nat, b \in Nat, i0 \in Nat, i1 \in Nat :
           /\ c = Cut /\ b = Len(fullBuffer) /\ Found(c, b, i0, i1)
           /\ Cut' = c + (i1 + 1)
           /\ IF i1 = i0 + 4 /\ Byte(c + (i0 + 2)) = Byte(c + (i0 + 3)) /\ Byte(c + (i0 + 2)) > 0
              THEN out' = Append(out, Byte(c + (i0 + 2)))
              ELSE out' = out
           /\ log' = log
  BY <1>1, CutEffect
<1>3. Mixed' = Mixed /\ Texts' = Texts
  BY <1>2, Same, Zenon
<1>4. Begun' = Begun /\ UnderWay' = {y \in Texts : y.at > Cut'}
  BY <1>3, Zenon DEF Begun, UnderWay
<1>5. UnderWay = {y \in Texts : y.at > c}
  BY <1>2 DEF UnderWay
<1>6. \A y \in Texts : y.at > c /\ ~(y.at > Cut') <=> CutOff(c, i1, y.at)
  BY <1>1, <1>2, OnTheWay, SMTT(30) DEF CutOff
<1>7. ASSUME NEW y \in Texts, CutOff(c, i1, y.at), y.msg \notin Mixed
      PROVE  CutsText(c, i0, i1, y.at)
  <2>1. y.at \in DOMAIN log /\ TextAt(y.msg, y.at) /\ y.msg \in 1..MaxFrames
    BY <1>1, OnTheWay
  <2> QED
    BY <1>2, <1>7, <2>1, NotPassed
<1>8. CASE out' = out
  <2>1. ~CutsText(c, i0, i1, c + (i0 + 2))
    <3>1. \A m : Append(out, m) # out
      BY <1>1 DEF StreamTypeOK
    <3> QED
      BY <1>2, <1>8, <3>1 DEF CutsText
  <2>2. \A p : ~CutsText(c, i0, i1, p)
    BY <2>1, Zenon DEF CutsText
  <2>3. UnderWay' \subseteq UnderWay
    <3>1. \A y \in Texts : y.at > Cut' => y.at > c
      BY <1>1, <1>2, OnTheWay
    <3> QED
      BY <1>4, <1>5, <3>1
  <2>4. \A y \in UnderWay \ UnderWay' : y.msg \in Mixed
    BY <1>4, <1>5, <1>6, <1>7, <2>2
  <2>5. Chan!Lose
    BY <1>3, <1>4, <1>8, <2>3, <2>4 DEF Chan!Lose
  <2> QED
    BY <2>5 DEF Chan!CNext
<1>9. CASE out' # out
  <2>1. PICK p : CutsText(c, i0, i1, p) /\ out' = Append(out, Byte(p))
    BY <1>2, <1>9 DEF CutsText
  <2>2. /\ p \in DOMAIN log /\ Byte(p) \in 1..MaxFrames /\ TextAt(Byte(p), p) /\ CutOff(c, i1, p)
        /\ \A u \in DOMAIN log : p < u /\ CutOff(c, i1, u) => log[u].byte # 3
    BY <1>1, <1>2, <2>1, TextFound
  <2>3. PICK x : x = [msg |-> Byte(p), at |-> p]
    OBVIOUS
  <2>4. x \in Texts /\ x.at = p /\ x.msg = Byte(p)
    <3>1. IsText(log, x)
      BY <2>2, <2>3 DEF TextAt, IsText
    <3>2. x \in TextsIn(log)
      BY <3>1, TextFacts, Zenon
    <3> QED
      BY <2>3, <3>2, Same, Zenon
  <2>5. x \in UnderWay
    BY <1>5, <1>6, <2>2, <2>4
  <2>6. ASSUME NEW y \in UnderWay, y.at < x.at
        PROVE  y.msg \in Mixed
    <3>1. SUFFICES ASSUME y.msg \notin Mixed
                   PROVE  FALSE
      OBVIOUS
    <3>2. y \in Texts /\ y.at > c /\ y.at \in Nat /\ p \in Nat
      BY <1>1, <1>5, <2>4, OnTheWay
    <3>3. CutOff(c, i1, y.at)
      BY <1>2, <2>2, <2>4, <2>6, <3>2 DEF CutOff
    <3>4. CutsText(c, i0, i1, y.at)
      BY <1>7, <3>1, <3>2, <3>3
    <3>5. y.at = p
      BY <2>1, <3>4 DEF CutsText
    <3> QED
      BY <2>4, <2>6, <3>2, <3>5
  <2>7. UnderWay' = {y \in UnderWay : y.at > x.at}
    <3>1. ASSUME NEW y \in Texts
          PROVE  y.at > Cut' <=> y.at > c /\ y.at > p
      <4>1. y.at \in DOMAIN log /\ y.at \in Nat /\ p \in Nat /\ log[y.at].byte = 3
        <5>1. TextAt(y.msg, y.at) /\ y.at \in DOMAIN log /\ y.at \in Nat
          BY <1>1, OnTheWay
        <5>2. p \in Nat
          BY <1>1, <2>4, OnTheWay
        <5> QED
          BY <5>1, <5>2 DEF TextAt
      <4>2. ~(p < y.at /\ CutOff(c, i1, y.at))
        BY <2>2, <4>1
      <4> QED
        BY <1>2, <2>2, <4>1, <4>2 DEF CutOff
    <3> QED
      BY <1>4, <1>5, <2>4, <3>1
  <2>8. Chan!Take(x)
    BY <1>3, <1>4, <2>1, <2>4, <2>6, <2>7 DEF Chan!Take
  <2> QED
    BY <2>5, <2>8 DEF Chan!CNext
<1> QED
  BY <1>8, <1>9

\* A write puts a message in the channel if it holds the first byte of a text,
\* and may make frames collide.
LEMMA WriteChannel ==
  ASSUME ReceiveInv, NEW w \in Writers, Write(w)
  PROVE  Chan!CNext
<1>1. /\ StreamTypeOK /\ WritersInv /\ LogInv /\ BufferInv
      /\ started \in Nat /\ log \in Seq(Bytes) /\ Len(log) \in Nat /\ MaxFrames \in Nat
  BY Types, BoundsAssumption DEF ReceiveInv
<1>2. PICK n \in Nat :
           /\ n > 0 /\ n <= Len(pending[w])
           /\ writing[w] \in 1..started
           /\ log' \in Seq(Bytes) /\ Len(log') = Len(log) + n
           /\ \A i \in 1..Len(log) : log'[i] = log[i]
           /\ \A i \in 1..n : log'[Len(log) + i] = [frame |-> writing[w], byte |-> Written(w) + i]
           /\ Len(stream') = Len(stream) + n
           /\ UNCHANGED <<started, writing, fullBuffer, parsing, out>>
  BY <1>1, WriteEffect
<1>3. PICK l \in Nat, h \in Nat, m \in 1..MaxFrames :
         l = Len(log) /\ h = Written(w) /\ m = writing[w] /\ m \in 1..started
  <2>1. Written(w) = 6 - Len(pending[w]) /\ pending[w] \in Seq(Token) /\ Len(pending[w]) <= 6
    BY <1>1, Types DEF WritersInv
  <2>2. Written(w) \in Nat
    BY <2>1
  <2>3. writing[w] \in 1..MaxFrames
    BY <1>1, <1>2 DEF StreamTypeOK
  <2> QED
    BY <1>1, <1>2, <2>2, <2>3
<1>4. Cut' = Cut /\ Cut <= l
  <2>1. /\ Cut' = Len(log') - Len(stream') - Len(fullBuffer)
        /\ Cut = Len(log) - Len(stream) - Len(fullBuffer)
    BY <1>2 DEF Cut
  <2>2. Len(stream) \in Nat /\ Len(fullBuffer) \in Nat
    BY <1>1 DEF StreamTypeOK
  <2> QED
    BY <1>1, <1>2, <1>3, <2>1, <2>2
<1>5. Chan!Collide
  <2>1. Mixed \subseteq Mixed'
    <3>1. MixedIn(log) \subseteq MixedIn(log')
      BY <1>1, <1>2, MixedGrows, SMTT(30)
    <3> QED
      BY <3>1, Same, Zenon
  <2>2. Mixed' \subseteq 1..MaxFrames /\ \A k \in Mixed' : Mixed' # {k}
    <3>1. MixedIn(log') \subseteq 1..MaxFrames /\ \A k \in MixedIn(log') : MixedIn(log') # {k}
      BY <1>2, MixedTypes
    <3> QED
      BY <3>1, Same, Zenon
  <2> QED
    BY <2>1, <2>2 DEF Chan!Collide
<1>6. \A x : x \in Texts' <=> IsText(log', x)
  BY Same, TextFacts, Zenon
<1>7. \A x : x \in Texts <=> IsText(log, x)
  BY Same, TextFacts, Zenon
<1>8. /\ DOMAIN log = 1..l /\ DOMAIN log' = 1..l + n /\ \A i \in 1..l : i \in 1..l + n /\ log'[i] = log[i]
      /\ \A i \in 1..n : l + i \in 1..l + n /\ log'[l + i].frame = m /\ log'[l + i].byte = h + i
      /\ \A i \in 1..l + n : i \in 1..l \/ \E k \in 1..n : i = l + k
  <2>1. \A i \in 1..l + n : i \in 1..l \/ (i - l \in 1..n /\ i = l + (i - l))
    OBVIOUS
  <2>2. \A i \in 1..l + n : i \in 1..l \/ \E k \in 1..n : i = l + k
    BY <2>1
  <2>3. ASSUME NEW i \in 1..n
        PROVE  l + i \in 1..l + n /\ log'[l + i].frame = m /\ log'[l + i].byte = h + i
    <3>1. log'[l + i] = [frame |-> m, byte |-> h + i]
      BY <1>2, <1>3
    <3> QED
      BY <3>1
  <2> QED
    BY <1>1, <1>2, <1>3, <2>2, <2>3
<1>9. Texts \subseteq Texts'
  <2> SUFFICES ASSUME NEW x \in Texts
               PROVE  IsText(log', x)
    BY <1>6
  <2>1. IsText(log, x)
    BY <1>7
  <2> QED
    BY <1>8, <2>1 DEF IsText
<1>10. CASE \E k \in 1..n : h + k = 3
  <2>1. PICK k \in 1..n : h + k = 3
    BY <1>10
  <2>2. PICK p \in 1..l + n : p = l + k /\ log'[p].frame = m /\ log'[p].byte = 3
    BY <1>8, <2>1
  <2>3. PICK x : x = [msg |-> m, at |-> p] /\ x.msg = m /\ x.at = p
    <3>1. [msg |-> m, at |-> p].msg = m /\ [msg |-> m, at |-> p].at = p
      OBVIOUS
    <3> QED
      BY <3>1, Zenon
  <2>4. Texts' = Texts \cup {x}
    <3>1. IsText(log', x)
      BY <1>8, <2>2, <2>3 DEF IsText
    <3>2. ASSUME NEW y \in Texts'
          PROVE  y \in Texts \cup {x}
      <4>1. PICK i \in 1..l + n : log'[i].byte = 3 /\ y = [msg |-> log'[i].frame, at |-> i]
        BY <1>6, <1>8, <3>2 DEF IsText
      <4>2. CASE i \in 1..l
        <5>1. IsText(log, y)
          BY <1>8, <4>1, <4>2 DEF IsText
        <5> QED
          BY <1>7, <5>1
      <4>3. CASE i \notin 1..l
        <5>1. PICK j \in 1..n : i = l + j
          BY <1>8, <4>3
        <5>2. log'[i].frame = m /\ log'[i].byte = h + j
          BY <1>8, <5>1
        <5>3. i = p
          BY <2>1, <2>2, <4>1, <5>1, <5>2
        <5> QED
          BY <2>3, <4>1, <5>2, <5>3
      <4> QED
        BY <4>2, <4>3
    <3> QED
      BY <1>6, <1>9, <3>1, <3>2
  <2>5. m \notin Begun
    <3>1. SUFFICES ASSUME NEW y \in Texts, y.msg = m
                   PROVE  FALSE
      BY Zenon DEF Begun
    <3>2. TextAt(m, y.at) /\ y.at \in DOMAIN log
      BY <1>1, <3>1, OnTheWay
    <3>3. Sent(m, 3)
      <4>1. log[y.at].frame = m /\ log[y.at].byte = 3
        BY <3>2 DEF TextAt
      <4>2. Sent(log[y.at].frame, log[y.at].byte)
        BY <1>1, <3>2 DEF LogInv
      <4> QED
        BY <4>1, <4>2
    <3>4. 3 <= h
      BY <1>3, <3>3 DEF Sent
    <3> QED
      BY <2>1, <3>4
  <2>6. Begun' = Begun \cup {m}
    BY <2>3, <2>4 DEF Begun
  <2>7. UnderWay' = UnderWay \cup {x} /\ x \in UnderWay'
    <3>1. x.at > Cut'
      <4>1. Cut \in Int
        BY <1>1 DEF Cut, StreamTypeOK
      <4> QED
        BY <1>4, <2>2, <2>3, <4>1
    <3> QED
      BY <1>4, <2>4, <3>1 DEF UnderWay
  <2>8. \A y \in UnderWay : y.at < x.at
    <3> TAKE y \in UnderWay
    <3>1. y.at \in 1..l
      BY <1>1, <1>8, OnTheWay DEF UnderWay
    <3> QED
      BY <2>1, <2>2, <2>3, <3>1
  <2>9. Chan!Put(m)
    BY <1>2, <1>5, <2>3, <2>5, <2>6, <2>7, <2>8 DEF Chan!Put
  <2> QED
    BY <2>9 DEF Chan!CNext
<1>11. CASE ~\E k \in 1..n : h + k = 3
  <2>1. Texts' = Texts
    <3>1. ASSUME NEW y \in Texts'
          PROVE  y \in Texts
      <4>1. PICK i \in 1..l + n : log'[i].byte = 3 /\ y = [msg |-> log'[i].frame, at |-> i]
        BY <1>6, <1>8, <3>1 DEF IsText
      <4>2. i \in 1..l
        <5>1. SUFFICES ASSUME NEW j \in 1..n, i = l + j
                       PROVE  FALSE
          BY <1>8
        <5>2. log'[i].byte = h + j
          BY <1>8, <5>1
        <5> QED
          BY <1>11, <4>1, <5>2
      <4>3. IsText(log, y)
        BY <1>8, <4>1, <4>2 DEF IsText
      <4> QED
        BY <1>7, <4>3
    <3> QED
      BY <1>9, <3>1
  <2>2. Begun' = Begun /\ UnderWay' = UnderWay
    BY <1>4, <2>1 DEF Begun, UnderWay
  <2>3. Chan!Spoil
    BY <1>2, <1>5, <2>2 DEF Chan!Spoil
  <2> QED
    BY <2>3 DEF Chan!CNext
<1> QED
  BY <1>10, <1>11

\* Nothing is cut when bytes are received.
LEMMA RecvKeeps ==
  ASSUME StreamTypeOK, Recv
  PROVE  Cut' = Cut /\ UNCHANGED <<log, out>>
<1>1. PICK s \in Seq(Token), f \in Seq(Token) : s = stream /\ f = fullBuffer
  BY DEF StreamTypeOK
<1>2. PICK n \in 1..Min({MaxRead, Len(s)}) :
         fullBuffer' = f \o SubSeq(s, 1, n) /\ stream' = SubSeq(s, n + 1, Len(s))
  BY <1>1 DEF Recv
<1>3. n \in Nat /\ n > 0 /\ n <= Len(s)
  <2>1. MaxRead \in Int /\ Len(s) \in Int
    BY BoundsAssumption
  <2>2. Min({MaxRead, Len(s)}) = IF MaxRead <= Len(s) THEN MaxRead ELSE Len(s)
    BY <2>1, LeastOfTwo, Zenon
  <2> QED
    BY <2>1, <2>2
<1>4. SubSeq(s, 1, n) \in Seq(Token) /\ Len(SubSeq(s, 1, n)) = n
      /\ Len(SubSeq(s, n + 1, Len(s))) = Len(s) - n
  BY <1>3
<1>5. Len(f \o SubSeq(s, 1, n)) = Len(f) + n
  BY <1>4
<1>6. Len(log) \in Nat /\ UNCHANGED <<log, out>>
  BY DEF StreamTypeOK, Recv
<1>7. /\ Cut = Len(log) - Len(s) - Len(f)
      /\ Cut' = Len(log) - (Len(s) - n) - (Len(f) + n)
  BY <1>1, <1>2, <1>4, <1>5, <1>6 DEF Cut
<1> QED
  BY <1>3, <1>6, <1>7

\* One step of the stream is one step of Channel or none.
LEMMA ChannelStep ==
  ASSUME ReceiveInv, [StreamNext]_streamVars
  PROVE  [Chan!CNext]_(Chan!chvars)
<1>1. CASE \E w \in Writers : send(w)
  <2>1. UNCHANGED <<log, out>> /\ Cut' = Cut
    BY <1>1 DEF send, Cut
  <2> QED
    BY <2>1, ChannelKept
<1>2. CASE \E w \in Writers : Write(w)
  BY <1>2, WriteChannel
<1>3. CASE Recv
  BY <1>3, RecvKeeps, ChannelKept DEF ReceiveInv
<1>4. CASE CutMessage
  BY <1>4, CutChannel
<1>5. CASE EndOfLoop
  <2>1. UNCHANGED <<log, out>> /\ Cut' = Cut
    BY <1>5 DEF EndOfLoop, Cut
  <2> QED
    BY <2>1, ChannelKept
<1>6. CASE UNCHANGED streamVars
  <2>1. UNCHANGED <<log, out>> /\ Cut' = Cut
    BY <1>6 DEF streamVars, Cut
  <2> QED
    BY <2>1, ChannelKept
<1> QED
  BY <1>1, <1>2, <1>3, <1>4, <1>5, <1>6 DEF StreamNext

\* The stream implements Channel: at every moment, and for any threads that
\* write and buffers, the receive thread passes over no frame that ran into no
\* other, and hands the messages on in their order, once each
\* (PeerManager::send and PeerManager::receive).
THEOREM ChannelCorrect == StreamSpec => ImplementsChannel
<1>1. StreamInit => Chan!CInit
  <2> SUFFICES ASSUME StreamInit
               PROVE  Chan!CInit
    OBVIOUS
  <2>1. DOMAIN log = {} /\ out = << >>
    BY DEF StreamInit
  <2>2. Texts = {} /\ Mixed = {}
    BY <2>1, Zenon DEF Texts, Mixed
  <2>3. Begun = {} /\ UnderWay = {}
    BY <2>2 DEF Begun, UnderWay
  <2> QED
    BY <2>1, <2>2, <2>3 DEF Chan!CInit
<1>2. ReceiveInv /\ [StreamNext]_streamVars => [Chan!CNext]_(Chan!chvars)
  BY ChannelStep
<1> QED
  BY <1>1, <1>2, ReceiveInvariant, PTL DEF StreamSpec, ImplementsChannel, Chan!CSpec

\* With one thread that writes, the frame begun last is the one that is written
\* and the bytes lie in the order of the frames.
SoleInv ==
  /\ \A w \in Writers : writing[w] = started
  /\ \A i, j \in DOMAIN log : i < j => log[i].frame <= log[j].frame

LEMMA SoleStep ==
  ASSUME \A v, w \in Writers : v = w, ReceiveInv, SoleInv, [StreamNext]_streamVars
  PROVE  SoleInv'
<1>1. /\ StreamTypeOK /\ WritersInv /\ LogInv /\ log \in Seq(Bytes) /\ started \in Nat
      /\ \A w \in Writers : writing[w] = started
      /\ \A i, j \in DOMAIN log : i < j => log[i].frame <= log[j].frame
  BY Types DEF ReceiveInv, SoleInv
<1>2. ASSUME UNCHANGED <<log, writing, started>>
      PROVE  SoleInv'
  BY <1>2 DEF SoleInv
<1>3. ASSUME NEW w \in Writers, send(w)
      PROVE  SoleInv'
  <2>1. writing' = [writing EXCEPT ![w] = started + 1] /\ started' = started + 1 /\ log' = log
    BY <1>3 DEF send
  <2>2. \A v \in Writers : writing'[v] = started'
    BY <1>1, <2>1 DEF StreamTypeOK
  <2> QED
    BY <1>1, <2>1, <2>2 DEF SoleInv
<1>4. ASSUME NEW w \in Writers, Write(w)
      PROVE  SoleInv'
  <2>1. PICK n \in Nat :
           /\ n > 0 /\ log' \in Seq(Bytes) /\ Len(log') = Len(log) + n
           /\ \A i \in 1..Len(log) : log'[i] = log[i]
           /\ \A i \in 1..n : log'[Len(log) + i] = [frame |-> writing[w], byte |-> Written(w) + i]
           /\ UNCHANGED <<started, writing>>
    BY <1>1, <1>4, WriteEffect
  <2>2. PICK l \in Nat : l = Len(log) /\ DOMAIN log = 1..l /\ DOMAIN log' = 1..l + n
    BY <1>1, <2>1
  <2>3. \A i \in 1..l : log'[i].frame = log[i].frame /\ log[i].frame \in Nat /\ log[i].frame <= started
    <3> TAKE i \in 1..l
    <3>1. log[i].frame \in 1..MaxFrames
      BY <1>1, <2>2, ByteFacts
    <3>2. log[i].frame <= started
      BY <1>1, <2>2 DEF LogInv
    <3> QED
      BY <2>1, <2>2, <3>1, <3>2, BoundsAssumption
  <2>4. ASSUME NEW i \in 1..n
        PROVE  log'[l + i].frame = started
    <3>1. log'[l + i] = [frame |-> writing[w], byte |-> Written(w) + i]
      BY <2>1, <2>2, <2>4
    <3>2. log'[l + i].frame = writing[w]
      BY <3>1
    <3> QED
      BY <1>1, <3>2
  <2>5. \A i \in 1..l + n : i \notin 1..l => log'[i].frame = started
    <3> SUFFICES ASSUME NEW i \in 1..l + n, i \notin 1..l
                 PROVE  log'[i].frame = started
      OBVIOUS
    <3>1. i - l \in 1..n /\ l + (i - l) = i
      OBVIOUS
    <3> QED
      BY <2>4, <3>1
  <2>6. ASSUME NEW i \in 1..l + n, NEW j \in 1..l + n, i < j
        PROVE  log'[i].frame <= log'[j].frame
    <3>1. CASE j \in 1..l
      BY <1>1, <2>2, <2>3, <2>6, <3>1, SMTT(30)
    <3>2. CASE j \notin 1..l
      BY <1>1, <2>3, <2>5, <3>2
    <3> QED
      BY <3>1, <3>2
  <2> QED
    BY <1>1, <2>1, <2>2, <2>6 DEF SoleInv
<1>5. CASE Recv
  BY <1>2, <1>5 DEF Recv
<1>6. CASE CutMessage
  BY <1>2, <1>6 DEF CutMessage
<1>7. CASE EndOfLoop
  BY <1>2, <1>7 DEF EndOfLoop
<1>8. CASE UNCHANGED streamVars
  BY <1>2, <1>8 DEF streamVars
<1> QED
  BY <1>3, <1>4, <1>5, <1>6, <1>7, <1>8 DEF StreamNext

LEMMA SoleUnmixed ==
  ASSUME ReceiveInv, SoleInv
  PROVE  Mixed = {}
<1>1. /\ StreamTypeOK /\ LogInv /\ DOMAIN log = 1..Len(log) /\ Len(log) \in Nat /\ started \in Nat
      /\ \A w \in Writers : writing[w] = started
      /\ \A i, j \in DOMAIN log : i < j => log[i].frame <= log[j].frame
  BY Types DEF ReceiveInv, SoleInv
<1>2. ASSUME NEW j, NEW m, GotInto(log, j, m)
      PROVE  FALSE
  <2>1. j \in DOMAIN log /\ m # log[j].frame /\ BegunIn(log, j, m) /\ ~EndedIn(log, j, m)
    BY <1>2, OpenFacts, Zenon DEF GotInto
  <2>2. PICK i \in 1..j - 1 : log[i].frame = m
    BY <2>1 DEF BegunIn
  <2>3. i \in DOMAIN log /\ i < j
    BY <1>1, <2>1
  <2>4. /\ log[i].frame \in 1..MaxFrames /\ log[j].frame \in 1..MaxFrames
        /\ log[i].frame <= log[j].frame /\ log[j].frame <= started
    BY <1>1, <2>1, <2>3, ByteFacts DEF LogInv
  <2>5. m \in 1..started /\ m < started /\ m < log[j].frame
    BY <1>1, <2>1, <2>2, <2>4, BoundsAssumption
  <2>6. Sent(m, 6)
    BY <1>1, <2>5 DEF Sent
  <2>7. PICK k \in DOMAIN log : log[k] = [frame |-> m, byte |-> 6]
    BY <1>1, <2>5, <2>6, 6 \in 1..6 DEF LogInv
  <2>8. log[k].frame = m /\ log[k].byte = 6
    BY <2>7
  <2>9. ~(j < k) /\ j # k
    BY <1>1, <2>1, <2>4, <2>5, <2>8
  <2>10. k \in 1..j - 1
    BY <1>1, <2>1, <2>9
  <2> QED
    BY <2>1, <2>8, <2>10 DEF EndedIn
<1>3. \A n : n \notin MixedIn(log)
  BY <1>2, MixedFacts, Zenon
<1>4. MixedIn(log) = {}
  BY <1>3
<1> QED
  BY <1>4, Same, Zenon

\* Where one thread writes to a socket, no frames run into each other, so with
\* ChannelCorrect nothing is ever lost: what spoils a stream is only the second
\* writer, the heart beat that does not take mutex_peers
\* (PeerManager.cpp:236-252, 302-314, 366-389).
THEOREM OneWriterCorrect ==
  ASSUME \A v, w \in Writers : v = w
  PROVE  StreamSpec => [](Mixed = {})
<1>1. StreamInit => SoleInv
  BY DEF StreamInit, SoleInv
<1>2. ReceiveInv /\ SoleInv /\ [StreamNext]_streamVars => SoleInv'
  BY SoleStep
<1>3. ReceiveInv /\ SoleInv => Mixed = {}
  BY SoleUnmixed
<1> QED
  BY <1>1, <1>2, <1>3, ReceiveInvariant, PTL DEF StreamSpec
-----------------------------------------------------------------------------
(* Pages.                                                                    *)

\* r has arrived: it is in the inbox, was handed on, is kept as an answer, or
\* has ended a call.
Arrived(r) == \/ Contains(inbox, r) \/ Contains(handed, r)
              \/ asking # NULL /\ asking.answer = r
              \/ \E o \in outcomes : o.reply = r

DistinctIds(s) == \A i, j \in DOMAIN s : s[i].id = s[j].id => i = j

\* No two requests or replies on their way are the same.
WayInv ==
  /\ DistinctIds(requests) /\ DistinctIds(replies)
  /\ \A i \in DOMAIN requests : requests[i].id <= sent
  /\ \A i \in DOMAIN replies : replies[i].id <= sent
  /\ \A i \in DOMAIN replies, j \in DOMAIN requests : replies[i].id # requests[j].id

\* What has arrived is no longer on its way.
ArrivedInv ==
  \A r \in Reply : Arrived(r) => /\ r.id <= sent
                                 /\ \A i \in DOMAIN replies : replies[i].id # r.id
                                 /\ \A j \in DOMAIN requests : requests[j].id # r.id

\* The answer that is kept is nowhere else.
AnswerInv ==
  asking # NULL /\ asking.answer # NULL =>
     /\ ~Contains(inbox, asking.answer) /\ ~Contains(handed, asking.answer)
     /\ \A o \in outcomes : o.reply # asking.answer

\* Nor is a reply that has ended a call.
OutcomeInv ==
  /\ \A o, q \in outcomes : o # q /\ o.reply # NULL => o.reply # q.reply
  /\ \A o \in outcomes : o.reply # NULL => ~Contains(inbox, o.reply) /\ ~Contains(handed, o.reply)

CallerInv == \A t \in Threads : pc[t] # "idle" => mine[t] # NULL

\* Inductive.
PageIInv == /\ PageInv /\ CallerInv
            /\ WayInv /\ ArrivedInv /\ AnswerInv /\ OutcomeInv

LEMMA ContainsAppend ==
  ASSUME NEW S, NEW s \in Seq(S), NEW m \in S, NEW r
  PROVE  Contains(Append(s, m), r) <=> Contains(s, r) \/ r = m
<1>1. /\ Len(Append(s, m)) = Len(s) + 1 /\ Append(s, m)[Len(s) + 1] = m
      /\ \A i \in 1..Len(s) : Append(s, m)[i] = s[i]
  OBVIOUS
<1>2. \A i \in 1..Len(s) + 1 : i \in 1..Len(s) \/ i = Len(s) + 1
  OBVIOUS
<1>3. Len(s) + 1 \in 1..Len(s) + 1 /\ \A i \in 1..Len(s) : i \in 1..Len(s) + 1
  OBVIOUS
<1> QED
  BY <1>1, <1>2, <1>3 DEF Contains

LEMMA ContainsTail ==
  ASSUME NEW S, NEW s \in Seq(S), s # << >>, NEW r
  PROVE  /\ Contains(Tail(s), r) => Contains(s, r)
         /\ Contains(s, Head(s)) /\ Head(s) \in S /\ Tail(s) \in Seq(S)
<1>1. /\ Len(Tail(s)) = Len(s) - 1 /\ Tail(s) \in Seq(S)
      /\ \A i \in 1..Len(s) - 1 : Tail(s)[i] = s[i + 1]
      /\ Head(s) = s[1] /\ 1 \in 1..Len(s)
  OBVIOUS
<1>2. \A i \in 1..Len(s) - 1 : i + 1 \in 1..Len(s)
  OBVIOUS
<1>3. Head(s) \in S
  BY <1>1
<1> QED
  BY <1>1, <1>2, <1>3 DEF Contains

LEMMA ContainsBoth ==
  ASSUME NEW S, NEW s \in Seq(S), NEW t \in Seq(S), NEW r
  PROVE  Contains(s \o t, r) => Contains(s, r) \/ Contains(t, r)
<1>1. /\ Len(s \o t) = Len(s) + Len(t)
      /\ \A i \in 1..Len(s) : (s \o t)[i] = s[i]
      /\ \A i \in 1..Len(t) : (s \o t)[Len(s) + i] = t[i]
  BY Appended
<1> SUFFICES ASSUME Contains(s \o t, r)
             PROVE  Contains(s, r) \/ Contains(t, r)
  OBVIOUS
<1>2. PICK i \in 1..Len(s) + Len(t) : (s \o t)[i] = r
  BY <1>1 DEF Contains
<1>3. CASE i \in 1..Len(s)
  BY <1>1, <1>2, <1>3 DEF Contains
<1>4. CASE ~(i \in 1..Len(s))
  <2>1. PICK j \in 1..Len(t) : i = Len(s) + j
    <3>1. i - Len(s) \in 1..Len(t) /\ i = Len(s) + (i - Len(s))
      BY <1>4
    <3> QED
      BY <3>1
  <2> QED
    BY <1>1, <1>2, <2>1 DEF Contains
<1> QED
  BY <1>3, <1>4

LEMMA DistinctAppend ==
  ASSUME NEW S, NEW s \in Seq(S), NEW m \in S, DistinctIds(s),
         \A i \in DOMAIN s : s[i].id # m.id
  PROVE  DistinctIds(Append(s, m))
<1>1. /\ DOMAIN s = 1..Len(s)
      /\ DOMAIN Append(s, m) = 1..Len(s) + 1 /\ Append(s, m)[Len(s) + 1] = m
      /\ \A i \in 1..Len(s) : Append(s, m)[i] = s[i]
  OBVIOUS
<1>2. \A i \in 1..Len(s) + 1 : i \in 1..Len(s) \/ i = Len(s) + 1
  OBVIOUS
<1> QED
  BY <1>1, <1>2 DEF DistinctIds

LEMMA DistinctTail ==
  ASSUME NEW S, NEW s \in Seq(S), s # << >>, DistinctIds(s)
  PROVE  /\ DistinctIds(Tail(s))
         /\ \A i \in DOMAIN Tail(s) : i + 1 \in DOMAIN s /\ Tail(s)[i] = s[i + 1]
         /\ \A i \in DOMAIN Tail(s) : Tail(s)[i].id # Head(s).id
<1>1. /\ DOMAIN s = 1..Len(s) /\ DOMAIN Tail(s) = 1..Len(s) - 1 /\ Head(s) = s[1]
      /\ \A i \in 1..Len(s) - 1 : Tail(s)[i] = s[i + 1]
  OBVIOUS
<1>2. \A i, j \in 1..Len(s) - 1 : i + 1 \in 1..Len(s) /\ i + 1 # 1 /\ (i + 1 = j + 1 => i = j)
  OBVIOUS
<1>3. s # << >> => 1 \in 1..Len(s)
  OBVIOUS
<1> QED
  BY <1>1, <1>2, <1>3 DEF DistinctIds

\* While nothing arrives and no call ends, who has what stays.
LEMMA SameMail ==
  ASSUME UNCHANGED <<inbox, handed, asking, outcomes>>
  PROVE  /\ \A r : Arrived(r)' <=> Arrived(r)
         /\ AnswerInv' <=> AnswerInv
         /\ OutcomeInv' <=> OutcomeInv
BY DEF Arrived, AnswerInv, OutcomeInv

LEMMA PageTypes ==
  ASSUME TypeOK
  PROVE  /\ sent \in Nat /\ MaxRequests \in Nat
         /\ \A i \in DOMAIN requests : requests[i] \in Request /\ requests[i].id \in Nat
         /\ \A i \in DOMAIN replies : replies[i] \in Reply /\ replies[i].id \in Nat
         /\ \A r \in Reply : r.id \in Nat /\ r # NULL
<1>1. MaxRequests \in Nat /\ sent \in Nat
  BY MaxRequestsAssumption DEF TypeOK
<1>2. \A r \in Request : r.id \in Nat
  BY <1>1 DEF Request, Ids
<1>3. \A r \in Reply : r.id \in Nat /\ r # NULL
  BY <1>1, NullAssumption DEF Reply, Ids
<1> QED
  BY <1>1, <1>2, <1>3 DEF TypeOK

LEMMA SendRequestStep ==
  ASSUME PageIInv, NEW t \in Threads, NEW u \in Urls, SendRequest(t, u)
  PROVE  PageIInv'
<1>1. /\ TypeOK /\ WaiterIsCaller /\ CallerInv /\ WayInv /\ ArrivedInv
      /\ AnswerInv /\ OutcomeInv
  BY DEF PageIInv, PageInv
<1>2. PICK m : m = [id |-> sent + 1, url |-> u]
  OBVIOUS
<1>3. /\ pc[t] = "idle" /\ sent < MaxRequests /\ sent' = sent + 1
      /\ requests' = Append(requests, m) /\ mine' = [mine EXCEPT ![t] = m]
      /\ pc' = [pc EXCEPT ![t] = "sent"]
      /\ UNCHANGED <<inbox, handed, asking, connected, replies, outcomes>>
  BY <1>2 DEF SendRequest, mailVars
<1>4. m \in Request /\ m.id = sent + 1 /\ m # NULL
  <2>1. sent + 1 \in 1..MaxRequests
    BY <1>1, <1>3, PageTypes
  <2>2. m \in Request /\ m.id = sent + 1
    BY <1>2, <2>1 DEF Request, Ids
  <2> QED
    BY <2>2, NullAssumption
<1>5. TypeOK'
  <2>1. Append(requests, m) \in Seq(Request)
    BY <1>1, <1>4 DEF TypeOK
  <2>2. sent + 1 \in 0..MaxRequests
    BY <1>1, <1>3, PageTypes
  <2> QED
    BY <1>1, <1>3, <1>4, <2>1, <2>2 DEF TypeOK
<1>6. /\ pc'[t] = "sent" /\ mine'[t] = m
      /\ \A v \in Threads : v # t => pc'[v] = pc[v] /\ mine'[v] = mine[v]
  BY <1>1, <1>3 DEF TypeOK
<1>7. WaiterIsCaller' /\ CallerInv'
  <2>1. asking # NULL => asking.by \in Threads
    BY <1>1 DEF TypeOK, Box!Request
  <2> QED
    BY <1>1, <1>3, <1>4, <1>6, <2>1 DEF WaiterIsCaller, CallerInv
<1>8. PICK q \in Seq(Request), g \in Nat :
         q = requests /\ g = sent
  BY <1>1, PageTypes DEF TypeOK
<1>9. /\ DOMAIN Append(q, m) = 1..Len(q) + 1 /\ Append(q, m)[Len(q) + 1] = m
      /\ DOMAIN q = 1..Len(q) /\ \A i \in 1..Len(q) : Append(q, m)[i] = q[i]
      /\ \A i \in 1..Len(q) + 1 : i \in 1..Len(q) \/ i = Len(q) + 1
  OBVIOUS
<1>10. WayInv'
  <2>1. \A i \in DOMAIN q : q[i].id <= g /\ q[i].id # m.id
    BY <1>1, <1>4, <1>8, PageTypes DEF WayInv
  <2>2. DistinctIds(Append(q, m))
    BY <1>1, <1>4, <1>8, <2>1, DistinctAppend DEF WayInv
  <2>3. \A i \in DOMAIN replies : replies[i].id <= g + 1 /\ replies[i].id # m.id
    BY <1>1, <1>4, <1>8, PageTypes DEF WayInv
  <2>4. \A i \in DOMAIN Append(q, m) : /\ Append(q, m)[i].id <= g + 1
                                       /\ \A j \in DOMAIN replies : replies[j].id # Append(q, m)[i].id
    <3> TAKE i \in DOMAIN Append(q, m)
    <3>1. CASE i \in 1..Len(q)
      <4>1. q[i].id \in Nat /\ q[i].id <= g
        BY <1>1, <1>8, <1>9, <2>1, <3>1, PageTypes
      <4>2. \A j \in DOMAIN replies : replies[j].id # q[i].id
        BY <1>1, <1>8, <1>9, <3>1 DEF WayInv
      <4> QED
        BY <1>9, <3>1, <4>1, <4>2
    <3>2. CASE i = Len(q) + 1
      BY <1>4, <1>8, <1>9, <2>3, <3>2
    <3> QED
      BY <1>9, <3>1, <3>2
  <2>5. requests' = Append(q, m) /\ sent' = g + 1 /\ replies' = replies /\ DistinctIds(replies)
    BY <1>1, <1>3, <1>8 DEF WayInv
  <2> QED
    BY <2>2, <2>3, <2>4, <2>5 DEF WayInv, DistinctIds
<1>11. ArrivedInv'
  <2> SUFFICES ASSUME NEW r \in Reply, Arrived(r)
               PROVE  /\ r.id <= g + 1
                      /\ \A i \in DOMAIN replies : replies[i].id # r.id
                      /\ \A j \in DOMAIN Append(q, m) : Append(q, m)[j].id # r.id
    <3>1. \A r : Arrived(r)' <=> Arrived(r)
      BY <1>3, SameMail
    <3>2. requests' = Append(q, m) /\ sent' = g + 1 /\ replies' = replies
      BY <1>3, <1>8
    <3> QED
      BY <3>1, <3>2, Zenon DEF ArrivedInv
  <2>1. /\ r.id <= g /\ r.id \in Nat
        /\ \A i \in DOMAIN replies : replies[i].id # r.id
        /\ \A j \in DOMAIN q : q[j].id # r.id
    BY <1>1, <1>8, PageTypes DEF ArrivedInv
  <2> QED
    BY <1>4, <1>8, <1>9, <2>1
<1>12. AnswerInv' /\ OutcomeInv'
  BY <1>1, <1>3, SameMail
<1> QED
  BY <1>5, <1>7, <1>10, <1>11, <1>12 DEF PageIInv, PageInv

\* A call enters waitFor.
LEMMA EnterWaitStep ==
  ASSUME PageIInv, NEW t \in Threads, EnterWait(t)
  PROVE  PageIInv'
<1>1. /\ TypeOK /\ WaiterIsCaller /\ CallerInv /\ WayInv /\ ArrivedInv
      /\ AnswerInv /\ OutcomeInv
  BY DEF PageIInv, PageInv
<1>2. PICK a : a = [by |-> t, from |-> Server, kind |-> ReplyType, answer |-> NULL]
  OBVIOUS
<1>3. /\ pc[t] = "sent" /\ asking = NULL /\ asking' = a /\ pc' = [pc EXCEPT ![t] = "waiting"]
      /\ UNCHANGED <<inbox, handed, connected, requests, replies, sent, mine, outcomes>>
  BY <1>2 DEF EnterWait, Box!Ask
<1>4. a \in Box!Request /\ a # NULL /\ a.by = t /\ a.answer = NULL
  BY <1>2, NullAssumption DEF Box!Request
<1>5. TypeOK'
  BY <1>1, <1>3, <1>4 DEF TypeOK
<1>6. pc'[t] = "waiting" /\ \A v \in Threads : v # t => pc'[v] = pc[v]
  BY <1>1, <1>3 DEF TypeOK
<1>7. WaiterIsCaller' /\ CallerInv'
  BY <1>1, <1>3, <1>4, <1>6 DEF WaiterIsCaller, CallerInv
<1>8. WayInv' /\ OutcomeInv'
  BY <1>1, <1>3 DEF WayInv, DistinctIds, OutcomeInv
<1>9. \A r \in Reply : Arrived(r)' => Arrived(r)
  <2>1. \A r \in Reply : r # NULL
    BY <1>1, PageTypes
  <2> QED
    BY <1>3, <1>4, <2>1 DEF Arrived
<1>10. ArrivedInv'
  BY <1>1, <1>3, <1>9 DEF ArrivedInv
<1>11. AnswerInv'
  BY <1>3, <1>4 DEF AnswerInv
<1> QED
  BY <1>5, <1>7, <1>8, <1>10, <1>11 DEF PageIInv, PageInv

\* A call ends, with an answer or without.
LEMMA EndStep ==
  ASSUME PageIInv, NEW t \in Threads, NEW ok \in BOOLEAN, NEW r \in Reply \cup {NULL},
         pc[t] # "idle", EndCall(t, ok, r), UNCHANGED <<inbox, handed>>,
         \/ asking' = asking /\ r = NULL /\ pc[t] = "sent"
         \/ asking' = NULL /\ asking # NULL /\ asking.by = t /\ r \in {NULL, asking.answer}
  PROVE  PageIInv'
<1>1. /\ TypeOK /\ WaiterIsCaller /\ CallerInv /\ WayInv /\ ArrivedInv
      /\ AnswerInv /\ OutcomeInv
  BY DEF PageIInv, PageInv
<1>2. PICK e : e = [id |-> mine[t].id, url |-> mine[t].url, ok |-> ok, reply |-> r]
  OBVIOUS
<1>3. /\ pc' = [pc EXCEPT ![t] = "idle"] /\ mine' = [mine EXCEPT ![t] = NULL]
      /\ outcomes' = outcomes \cup {e}
      /\ UNCHANGED <<inbox, handed, connected, requests, replies, sent>>
  BY <1>2 DEF EndCall
<1>4. mine[t] \in Request
  BY <1>1 DEF TypeOK, CallerInv
<1>5. e \in Outcome /\ e.reply = r /\ e.ok = ok /\ e.url = mine[t].url
  BY <1>2, <1>4 DEF Request, Outcome
<1>6. TypeOK'
  BY <1>1, <1>3, <1>5 DEF TypeOK
<1>7. pc'[t] = "idle" /\ \A v \in Threads : v # t => pc'[v] = pc[v] /\ mine'[v] = mine[v]
  BY <1>1, <1>3 DEF TypeOK
<1>8. WaiterIsCaller' /\ CallerInv'
  <2>1. asking # NULL => asking.by \in Threads
    BY <1>1 DEF TypeOK, Box!Request
  <2>2. CASE asking' = asking /\ pc[t] = "sent"
    BY <1>1, <1>7, <2>1, <2>2 DEF WaiterIsCaller, CallerInv
  <2>3. CASE asking' = NULL /\ asking # NULL /\ asking.by = t
    BY <1>1, <1>7, <2>1, <2>3 DEF WaiterIsCaller, CallerInv
  <2> QED
    BY <2>2, <2>3
<1>9. WayInv'
  BY <1>1, <1>3 DEF WayInv, DistinctIds
<1>10. \A x \in Reply : Arrived(x)' => Arrived(x)
  <2>1. \A x \in Reply : x # NULL
    BY <1>1, PageTypes
  <2> QED
    BY <1>3, <1>5, <2>1 DEF Arrived
<1>11. ArrivedInv'
  BY <1>1, <1>3, <1>10 DEF ArrivedInv
<1>12. AnswerInv'
  BY <1>1, <1>3, <1>5 DEF AnswerInv
<1>13. r # NULL => /\ ~Contains(inbox, r) /\ ~Contains(handed, r)
                   /\ \A o \in outcomes : o.reply # r
  BY <1>1 DEF AnswerInv
<1>14. OutcomeInv'
  BY <1>1, <1>3, <1>5, <1>13 DEF OutcomeInv
<1> QED
  BY <1>6, <1>8, <1>9, <1>11, <1>12, <1>14 DEF PageIInv, PageInv

LEMMA WaitRefusedStep ==
  ASSUME PageIInv, NEW t \in Threads, WaitRefused(t)
  PROVE  PageIInv'
<1>1. /\ pc[t] = "sent" /\ EndCall(t, FALSE, NULL)
      /\ UNCHANGED <<inbox, handed>> /\ asking' = asking
  BY DEF WaitRefused, mailVars
<1> QED
  BY <1>1, EndStep

LEMMA WaitEndsStep ==
  ASSUME PageIInv, NEW t \in Threads, WaitReturns(t) \/ WaitTimesOut(t)
  PROVE  PageIInv'
<1>1. pc[t] = "waiting" /\ asking # NULL /\ asking' = NULL /\ UNCHANGED <<inbox, handed>>
  BY DEF WaitReturns, WaitTimesOut, Box!EndAsk
<1>2. asking.by = t /\ asking.answer \in Reply \cup {NULL}
  BY <1>1 DEF PageIInv, PageInv, WaiterIsCaller, TypeOK, Box!Request
<1>3. CASE WaitTimesOut(t)
  <2>1. EndCall(t, FALSE, NULL)
    BY <1>3 DEF WaitTimesOut
  <2> QED
    BY <1>1, <1>2, <2>1, EndStep
<1>4. CASE WaitReturns(t)
  <2>1. PICK ok \in BOOLEAN, r \in Reply : ok = rightPage(t, r) /\ r = asking.answer
    <3>1. asking.answer \in Reply /\ asking.answer.page \in BOOLEAN
      BY <1>2, <1>4 DEF WaitReturns, Reply
    <3> QED
      BY <3>1 DEF rightPage
  <2>2. EndCall(t, ok, r) /\ r # NULL
    BY <1>4, <2>1 DEF WaitReturns
  <2> QED
    BY <1>1, <1>2, <2>1, <2>2, EndStep
<1> QED
  BY <1>3, <1>4

\* A reply arrives: it is nowhere else.
LEMMA ReceiveStep ==
  ASSUME PageIInv, Receive
  PROVE  PageIInv'
<1>1. /\ TypeOK /\ WaiterIsCaller /\ CallerInv /\ WayInv /\ ArrivedInv
      /\ AnswerInv /\ OutcomeInv
  BY DEF PageIInv, PageInv
<1>2. PICK q \in Seq(Reply), s \in Seq(Reply) : q = replies /\ q # << >> /\ s = inbox
  BY <1>1 DEF TypeOK, Receive
<1>3. PICK m \in Reply : m = Head(q) /\ m # NULL /\ Contains(q, m) /\ Tail(q) \in Seq(Reply)
  BY <1>1, <1>2, ContainsTail, PageTypes
<1>4. /\ Box!Arrive(m) /\ replies' = Tail(q)
      /\ UNCHANGED <<connected, requests, sent, pc, mine, outcomes>>
  BY <1>2, <1>3 DEF Receive, taken
<1>5. PICK i0 \in DOMAIN replies : replies[i0] = m
  BY <1>2, <1>3 DEF Contains
<1>6. /\ m.id <= sent /\ \A j \in DOMAIN requests : m.id # requests[j].id
      /\ ~Arrived(m)
  BY <1>1, <1>5 DEF WayInv, ArrivedInv
<1>7. /\ ~Contains(inbox, m) /\ ~Contains(handed, m)
      /\ (asking # NULL => asking.answer # m) /\ \A o \in outcomes : o.reply # m
  BY <1>6 DEF Arrived
<1>8. \/ /\ asking # NULL /\ asking' = [asking EXCEPT !.answer = m]
         /\ inbox' = inbox /\ handed' = handed
      \/ inbox' = Append(s, m) /\ handed' = handed /\ asking' = asking
  BY <1>2, <1>4 DEF Box!Arrive, Box!Fits
<1>9. /\ handed' = handed
      /\ inbox' \in Seq(Reply)
      /\ \A r : Contains(inbox', r) => Contains(inbox, r) \/ r = m
      /\ inbox' # inbox => asking' = asking
      /\ inbox' = inbox \/ asking' = asking
  <2>1. Append(s, m) \in Seq(Reply) /\ \A r : Contains(Append(s, m), r) => Contains(s, r) \/ r = m
    BY ContainsAppend
  <2> QED
    BY <1>2, <1>8, <2>1
<1>10. \/ asking' = asking
       \/ /\ inbox' = inbox /\ asking # NULL /\ asking' \in Box!Request
          /\ asking'.by = asking.by /\ asking'.answer = m
  <2>1. asking # NULL => asking \in Box!Request
    BY <1>1 DEF TypeOK
  <2> QED
    BY <1>8, <2>1 DEF Box!Request
<1>11. TypeOK'
  BY <1>1, <1>3, <1>4, <1>9, <1>10 DEF TypeOK
<1>12. WaiterIsCaller' /\ CallerInv'
  BY <1>1, <1>4, <1>10, NullAssumption DEF WaiterIsCaller, CallerInv
<1>13. /\ DistinctIds(Tail(q))
       /\ \A i \in DOMAIN Tail(q) : i + 1 \in DOMAIN replies /\ Tail(q)[i] = replies[i + 1]
       /\ \A i \in DOMAIN Tail(q) : Tail(q)[i].id # m.id
  <2>1. DistinctIds(q)
    BY <1>1, <1>2 DEF WayInv
  <2>2. /\ DistinctIds(Tail(q))
        /\ \A i \in DOMAIN Tail(q) : i + 1 \in DOMAIN q /\ Tail(q)[i] = q[i + 1]
        /\ \A i \in DOMAIN Tail(q) : Tail(q)[i].id # Head(q).id
    BY <1>2, <2>1, DistinctTail
  <2> QED
    BY <1>2, <1>3, <2>2
<1>14. WayInv'
  <2>1. /\ DistinctIds(requests) /\ \A i \in DOMAIN requests : requests[i].id <= sent
        /\ \A i \in DOMAIN Tail(q) : Tail(q)[i].id <= sent
        /\ \A i \in DOMAIN Tail(q), j \in DOMAIN requests : Tail(q)[i].id # requests[j].id
    BY <1>1, <1>13 DEF WayInv
  <2> QED
    BY <1>4, <1>13, <2>1 DEF WayInv, DistinctIds
<1>15. \A r \in Reply : Arrived(r)' => Arrived(r) \/ r = m
  BY <1>4, <1>9, <1>10 DEF Arrived
<1>16. ArrivedInv'
  <2> SUFFICES ASSUME NEW r \in Reply, Arrived(r) \/ r = m
               PROVE  /\ r.id <= sent
                      /\ \A i \in DOMAIN Tail(q) : Tail(q)[i].id # r.id
                      /\ \A j \in DOMAIN requests : requests[j].id # r.id
    BY <1>4, <1>15, Zenon DEF ArrivedInv
  <2>1. CASE r = m
    BY <1>6, <1>13, <2>1
  <2>2. CASE Arrived(r)
    BY <1>1, <1>13, <2>2 DEF ArrivedInv
  <2> QED
    BY <2>1, <2>2
<1>17. AnswerInv'
  BY <1>1, <1>4, <1>7, <1>9, <1>10 DEF AnswerInv
<1>18. OutcomeInv'
  BY <1>1, <1>4, <1>7, <1>9 DEF OutcomeInv
<1> QED
  BY <1>11, <1>12, <1>14, <1>16, <1>17, <1>18 DEF PageIInv, PageInv

\* The oldest message is handed on, or dropped.
LEMMA HandleStep ==
  ASSUME PageIInv, Handle
  PROVE  PageIInv'
<1>1. /\ TypeOK /\ WaiterIsCaller /\ CallerInv /\ WayInv /\ ArrivedInv
      /\ AnswerInv /\ OutcomeInv
  BY DEF PageIInv, PageInv
<1>2. PICK s \in Seq(Reply), h \in Seq(Reply) : s = inbox /\ s # << >> /\ h = handed
  BY <1>1 DEF TypeOK, Handle, Box!Deliver
<1>3. PICK m \in Reply : m = Head(s) /\ Contains(s, m) /\ Tail(s) \in Seq(Reply)
  BY <1>2, ContainsTail
<1>4. /\ inbox' = Tail(s) /\ handed' \in {h, Append(h, m)} /\ asking' = asking
      /\ UNCHANGED <<connected, requests, replies, sent, pc, mine, outcomes>>
  BY <1>2, <1>3 DEF Handle, Box!Deliver
<1>5. /\ \A r : Contains(inbox', r) => Contains(inbox, r)
      /\ \A r : Contains(handed', r) => Contains(handed, r) \/ Contains(inbox, r)
      /\ handed' \in Seq(Reply)
  <2>1. \A r : Contains(Tail(s), r) => Contains(s, r)
    BY <1>2, ContainsTail
  <2>2. Append(h, m) \in Seq(Reply) /\ \A r : Contains(Append(h, m), r) => Contains(h, r) \/ r = m
    BY ContainsAppend
  <2> QED
    BY <1>2, <1>3, <1>4, <2>1, <2>2
<1>6. TypeOK'
  BY <1>1, <1>3, <1>4, <1>5 DEF TypeOK
<1>7. WaiterIsCaller' /\ CallerInv' /\ WayInv'
  BY <1>1, <1>4 DEF WaiterIsCaller, CallerInv, WayInv, DistinctIds
<1>8. \A r \in Reply : Arrived(r)' => Arrived(r)
  BY <1>4, <1>5 DEF Arrived
<1>9. ArrivedInv'
  BY <1>1, <1>4, <1>8 DEF ArrivedInv
<1>10. AnswerInv' /\ OutcomeInv'
  BY <1>1, <1>4, <1>5 DEF AnswerInv, OutcomeInv
<1> QED
  BY <1>6, <1>7, <1>9, <1>10 DEF PageIInv, PageInv

\* A request becomes a reply.
LEMMA AnswerStep ==
  ASSUME PageIInv, ServerAnswers
  PROVE  PageIInv'
<1>1. /\ TypeOK /\ WaiterIsCaller /\ CallerInv /\ WayInv /\ ArrivedInv
      /\ AnswerInv /\ OutcomeInv
  BY DEF PageIInv, PageInv
<1>2. PICK q \in Seq(Request), p \in Seq(Reply) : q = requests /\ q # << >> /\ p = replies
  BY <1>1 DEF TypeOK, ServerAnswers
<1>3. Head(q) \in Request /\ Contains(q, Head(q)) /\ Tail(q) \in Seq(Request)
  BY <1>2, ContainsTail
<1>4. PICK page \in BOOLEAN :
         replies' = Append(replies, [from |-> Server, kind |-> ReplyType, page |-> page,
                                     id |-> Head(requests).id, url |-> Head(requests).url])
  BY DEF ServerAnswers
<1>5. PICK m \in Reply : m.id = Head(q).id /\ replies' = Append(p, m)
  <2> DEFINE r == [from |-> Server, kind |-> ReplyType, page |-> page,
                   id |-> Head(q).id, url |-> Head(q).url]
  <2>1. r \in Reply /\ r.id = Head(q).id
    BY <1>3 DEF Request, Reply
  <2> QED
    BY <1>2, <1>4, <2>1
<1>6. /\ requests' = Tail(q)
      /\ UNCHANGED <<inbox, handed, asking, connected, sent, pc, mine, outcomes>>
  BY <1>2 DEF ServerAnswers, mailVars
<1>7. PICK i0 \in DOMAIN requests : requests[i0].id = m.id
  BY <1>2, <1>3, <1>5 DEF Contains
<1>8. m.id <= sent /\ \A i \in DOMAIN replies : replies[i].id # m.id
  BY <1>1, <1>7 DEF WayInv
<1>9. TypeOK'
  BY <1>1, <1>3, <1>5, <1>6 DEF TypeOK
<1>10. WaiterIsCaller' /\ CallerInv'
  BY <1>1, <1>6 DEF WaiterIsCaller, CallerInv
<1>11. /\ DistinctIds(Tail(q))
       /\ \A i \in DOMAIN Tail(q) : i + 1 \in DOMAIN requests /\ Tail(q)[i] = requests[i + 1]
       /\ \A i \in DOMAIN Tail(q) : Tail(q)[i].id # m.id
  <2>1. DistinctIds(q)
    BY <1>1, <1>2 DEF WayInv
  <2>2. /\ DistinctIds(Tail(q))
        /\ \A i \in DOMAIN Tail(q) : i + 1 \in DOMAIN q /\ Tail(q)[i] = q[i + 1]
        /\ \A i \in DOMAIN Tail(q) : Tail(q)[i].id # Head(q).id
    BY <1>2, <2>1, DistinctTail
  <2> QED
    BY <1>2, <1>5, <2>2
<1>12. /\ DistinctIds(Append(p, m))
       /\ \A i \in DOMAIN Append(p, m) : Append(p, m)[i] = m \/
                                         (i \in DOMAIN replies /\ Append(p, m)[i] = replies[i])
  <2>1. DistinctIds(p) /\ \A i \in DOMAIN p : p[i].id # m.id
    BY <1>1, <1>2, <1>8 DEF WayInv
  <2>2. DistinctIds(Append(p, m))
    BY <2>1, DistinctAppend
  <2>3. \A i \in DOMAIN Append(p, m) : Append(p, m)[i] = m \/ (i \in DOMAIN p /\ Append(p, m)[i] = p[i])
    OBVIOUS
  <2> QED
    BY <1>2, <2>2, <2>3
<1>13. WayInv'
  <2>1. /\ \A i \in DOMAIN Tail(q) : Tail(q)[i].id <= sent
        /\ \A i \in DOMAIN Append(p, m) : Append(p, m)[i].id <= sent
        /\ \A i \in DOMAIN Append(p, m), j \in DOMAIN Tail(q) : Append(p, m)[i].id # Tail(q)[j].id
    BY <1>1, <1>8, <1>11, <1>12 DEF WayInv
  <2>2. replies' = Append(p, m) /\ requests' = Tail(q) /\ sent' = sent
    BY <1>5, <1>6
  <2> QED
    BY <1>11, <1>12, <2>1, <2>2 DEF WayInv, DistinctIds
<1>14. ArrivedInv'
  <2> SUFFICES ASSUME NEW r \in Reply, Arrived(r)
               PROVE  /\ r.id <= sent
                      /\ \A i \in DOMAIN Append(p, m) : Append(p, m)[i].id # r.id
                      /\ \A j \in DOMAIN Tail(q) : Tail(q)[j].id # r.id
    <3>1. \A r : Arrived(r)' <=> Arrived(r)
      BY <1>6, SameMail
    <3>2. replies' = Append(p, m) /\ requests' = Tail(q) /\ sent' = sent
      BY <1>5, <1>6
    <3> QED
      BY <3>1, <3>2, Zenon DEF ArrivedInv
  <2>1. /\ r.id <= sent /\ \A i \in DOMAIN replies : replies[i].id # r.id
        /\ \A j \in DOMAIN requests : requests[j].id # r.id
    BY <1>1 DEF ArrivedInv
  <2>2. m.id # r.id
    BY <1>7, <2>1
  <2> QED
    BY <1>11, <1>12, <2>1, <2>2
<1>15. AnswerInv' /\ OutcomeInv'
  BY <1>1, <1>6, SameMail
<1> QED
  BY <1>9, <1>10, <1>13, <1>14, <1>15 DEF PageIInv, PageInv

LEMMA ConnectionStep ==
  ASSUME PageIInv, Disconnect \/ makePythonDownloaderReady
  PROVE  PageIInv'
<1>1. /\ TypeOK /\ WaiterIsCaller /\ CallerInv /\ WayInv /\ ArrivedInv
      /\ AnswerInv /\ OutcomeInv
  BY DEF PageIInv, PageInv
<1>2. /\ requests' \in {requests, << >>} /\ replies' \in {replies, << >>} /\ connected' \in BOOLEAN
      /\ UNCHANGED <<inbox, handed, asking, sent, pc, mine, outcomes>>
  BY DEF Disconnect, makePythonDownloaderReady, mailVars
<1>3. << >> \in Seq(Request) /\ << >> \in Seq(Reply)
  OBVIOUS
<1>4. TypeOK'
  BY <1>1, <1>2, <1>3 DEF TypeOK
<1>5. WaiterIsCaller' /\ CallerInv'
  BY <1>1, <1>2 DEF WaiterIsCaller, CallerInv
<1>6. WayInv'
  BY <1>1, <1>2 DEF WayInv, DistinctIds
<1>7. ArrivedInv'
  <2>1. \A r : Arrived(r)' <=> Arrived(r)
    BY <1>2, SameMail
  <2> QED
    BY <1>1, <1>2, <2>1 DEF ArrivedInv
<1>8. AnswerInv' /\ OutcomeInv'
  BY <1>1, <1>2, SameMail
<1> QED
  BY <1>4, <1>5, <1>6, <1>7, <1>8 DEF PageIInv, PageInv

LEMMA PageInit ==
  ASSUME Init
  PROVE  PageIInv
<1>1. /\ inbox = << >> /\ handed = << >> /\ asking = NULL /\ connected = TRUE
      /\ requests = << >> /\ replies = << >> /\ sent = 0
      /\ pc = [t \in Threads |-> "idle"] /\ mine = [t \in Threads |-> NULL] /\ outcomes = {}
  BY DEF Init, Box!MInit
<1>2. TypeOK
  <2>1. 0 \in 0..MaxRequests
    BY MaxRequestsAssumption
  <2>2. /\ inbox \in Seq(Reply) /\ handed \in Seq(Reply)
        /\ requests \in Seq(Request) /\ replies \in Seq(Reply)
    BY <1>1
  <2> QED
    BY <1>1, <2>1, <2>2 DEF TypeOK
<1>3. PageInv /\ CallerInv
  BY <1>1, <1>2 DEF PageInv, WaiterIsCaller, CallerInv
<1>4. WayInv
  BY <1>1 DEF WayInv, DistinctIds
<1>5. ArrivedInv
  <2>1. \A r : ~Contains(<< >>, r)
    BY DEF Contains
  <2> QED
    BY <1>1, <2>1 DEF ArrivedInv, Arrived
<1>6. AnswerInv /\ OutcomeInv
  BY <1>1 DEF AnswerInv, OutcomeInv
<1> QED
  BY <1>3, <1>4, <1>5, <1>6 DEF PageIInv

LEMMA PageNext ==
  ASSUME PageIInv, [Next]_vars
  PROVE  PageIInv'
<1>1. ASSUME NEW t \in Threads, NEW u \in Urls, SendRequest(t, u)
      PROVE  PageIInv'
  BY <1>1, SendRequestStep
<1>2. ASSUME NEW t \in Threads, EnterWait(t)
      PROVE  PageIInv'
  BY <1>2, EnterWaitStep
<1>3. ASSUME NEW t \in Threads, WaitRefused(t)
      PROVE  PageIInv'
  BY <1>3, WaitRefusedStep
<1>4. ASSUME NEW t \in Threads, WaitReturns(t) \/ WaitTimesOut(t)
      PROVE  PageIInv'
  BY <1>4, WaitEndsStep
<1>5. CASE Receive
  BY <1>5, ReceiveStep
<1>6. CASE Handle
  BY <1>6, HandleStep
<1>7. CASE ServerAnswers
  BY <1>7, AnswerStep
<1>8. CASE Disconnect \/ makePythonDownloaderReady
  BY <1>8, ConnectionStep
<1>9. CASE UNCHANGED vars
  <2>1. UNCHANGED <<inbox, handed, asking, connected, requests, replies, sent, pc, mine, outcomes>>
    BY <1>9 DEF vars, mailVars
  <2>2. PageInv' /\ CallerInv' /\ WayInv'
    BY <2>1 DEF PageIInv, PageInv, TypeOK, WaiterIsCaller, CallerInv, WayInv, DistinctIds
  <2>3. ArrivedInv'
    <3>1. \A r : Arrived(r)' <=> Arrived(r)
      BY <2>1, SameMail
    <3> QED
      BY <2>1, <3>1 DEF PageIInv, ArrivedInv
  <2>4. AnswerInv' /\ OutcomeInv'
    BY <2>1, SameMail DEF PageIInv
  <2> QED
    BY <2>2, <2>3, <2>4 DEF PageIInv
<1> QED
  BY <1>1, <1>2, <1>3, <1>4, <1>5, <1>6, <1>7, <1>8, <1>9 DEF Next

LEMMA PageInvariant == Spec => []PageIInv
<1>1. Init => PageIInv
  BY PageInit
<1>2. PageIInv /\ [Next]_vars => PageIInv'
  BY PageNext
<1> QED
  BY <1>1, <1>2, PTL DEF Spec

\* Whoever waits is a call in waitFor, and there is one at most
\* (Pagedownloader::requestPythonDownloader).
THEOREM PageTypeCorrect == Spec => []PageInv
<1>1. PageIInv => PageInv
  BY DEF PageIInv
<1> QED
  BY <1>1, PageInvariant, PTL

\* A reply ends one call at most and is then not handed on
\* (PeerManager::receive, waitFor).
THEOREM ReplyUsedOnceCorrect == Spec => []ReplyUsedOnce
<1>1. PageIInv => ReplyUsedOnce
  <2> SUFFICES ASSUME PageIInv
               PROVE  ReplyUsedOnce
    OBVIOUS
  <2>1. /\ OutcomeInv /\ inbox \in Seq(Reply) /\ handed \in Seq(Reply)
    BY DEF PageIInv, PageInv, TypeOK
  <2>2. PICK s \in Seq(Reply), h \in Seq(Reply) : s = inbox /\ h = handed
    BY <2>1
  <2>3. \A r : Contains(s \o h, r) => Contains(s, r) \/ Contains(h, r)
    BY ContainsBoth
  <2> QED
    BY <2>1, <2>2, <2>3 DEF OutcomeInv, ReplyUsedOnce
<1> QED
  BY <1>1, PageInvariant, PTL
=============================================================================
