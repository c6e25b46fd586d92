---------------------------- MODULE FrameStream ----------------------------
(* One direction of one connection, below the messages: PeerManager::send   *)
(* puts a message between two beacon strings and write()s it, and           *)
(* PeerManager::receive collects what recv() returns in fullBuffer and cuts *)
(* the messages out of it.                                                  *)
(*                                                                          *)
(* A program thread writes under mutex_peers and the heart-beat thread      *)
(* without it.  TCP is external: a buffer of Capacity tokens; a write that  *)
(* does not fit blocks with its first part written, and the other writer's  *)
(* bytes may come next.  A frame is six tokens, two per beacon and two of   *)
(* text, so that a beacon and a text can arrive, or be torn, in parts.      *)
(*                                                                          *)
(* The definitions named ..._Bug are mistakes that the properties detect;   *)
(* they are not part of the model.                                          *)
EXTENDS Integers, Sequences, SequencesExt, FiniteSets, FiniteSetsExt

CONSTANTS Writers,     \* threads that write to the socket
          MaxFrames,   \* bound on the frames written
          Capacity,    \* bound on the bytes TCP holds
          MaxRead      \* READ_BUFFER_LEN - 1

ASSUME BoundsAssumption == {MaxFrames, Capacity, MaxRead} \subseteq Nat \ {0}

preStringBeacon  == <<-1, -2>>
postStringBeacon == <<-3, -4>>

\* Frame n: its text is <<n, n>>, which no other bytes spell.
Text(n)   == <<n, n>>
FrameOf(n) == preStringBeacon \o Text(n) \o postStringBeacon

Token == {-1, -2, -3, -4} \cup 1..MaxFrames

VARIABLES
  started,     \* frames passed to send so far
  writing,     \* [w]: the frame w writes, 0 before its first
  pending,     \* [w]: what the write of w has still to write
  stream,      \* bytes TCP holds
  fullBuffer,  \* bytes received and not yet cut into messages
  parsing,     \* the receive thread is in the loop that cuts
  out,         \* messages cut out and parsed, in order
  log          \* history: every byte written, in order, by its frame and its
               \* place in that

streamVars == <<started, writing, pending, stream, fullBuffer, parsing, out, log>>

StreamInit ==
  /\ started = 0
  /\ writing = [w \in Writers |-> 0]
  /\ pending = [w \in Writers |-> << >>]
  /\ stream = << >>
  /\ fullBuffer = << >>
  /\ parsing = FALSE
  /\ out = << >>
  /\ log = << >>

-----------------------------------------------------------------------------
send(w) ==
  /\ pending[w] = << >>
  /\ started < MaxFrames
  /\ started' = started + 1
  /\ writing' = [writing EXCEPT ![w] = started + 1]
  /\ pending' = [pending EXCEPT ![w] = FrameOf(started + 1)]
  /\ UNCHANGED <<stream, fullBuffer, parsing, out, log>>

\* How many bytes of its frame w has written.
Written(w) == Len(FrameOf(writing[w])) - Len(pending[w])

\* The kernel takes as much of a write as fits.
Write(w) ==
  LET n == Min({Len(pending[w]), Capacity - Len(stream)})
      bytes == SubSeq(pending[w], 1, n)
  IN  /\ n > 0
      /\ stream' = stream \o bytes
      /\ log' = log \o [i \in 1..n |-> [frame |-> writing[w], byte |-> Written(w) + i]]
      /\ pending' = [pending EXCEPT ![w] = SubSeq(@, n + 1, Len(@))]
      /\ UNCHANGED <<started, writing, fullBuffer, parsing, out>>

\* recv: any part of what TCP holds, appended to fullBuffer.
Recv ==
  /\ ~parsing
  /\ \E n \in 1..Min({MaxRead, Len(stream)}) :
        /\ fullBuffer' = fullBuffer \o SubSeq(stream, 1, n)
        /\ stream' = SubSeq(stream, n + 1, Len(stream))
  /\ parsing' = TRUE
  /\ UNCHANGED <<started, writing, pending, out, log>>

-----------------------------------------------------------------------------
\* string::find: where pat occurs in s from position i on, 0 for npos.
find(s, pat, i) ==
  LET at == {j \in i..Len(s) - Len(pat) + 1 : SubSeq(s, j, j + Len(pat) - 1) = pat}
  IN  IF at = {} THEN 0 ELSE Min(at)

index0 == find(fullBuffer, preStringBeacon, 1)

index1 == find(fullBuffer, postStringBeacon, index0 + Len(preStringBeacon))

newMessageString == SubSeq(fullBuffer, index0 + Len(preStringBeacon), index1 - 1)

\* JsonObject::ParseFromString: only the text of one frame parses.
Parses(s) == Len(s) = 2 /\ s[1] = s[2] /\ s[1] > 0

afterMessage_Bug == << >>

afterMessage_Bug2 == SubSeq(fullBuffer, index1 + Len(postStringBeacon) + 1, Len(fullBuffer))

afterMessage == SubSeq(fullBuffer, index1 + Len(postStringBeacon), Len(fullBuffer))

\* One turn of the loop; a text that does not parse is dropped with a warning.
CutMessage ==
  /\ parsing
  /\ index0 # 0 /\ index1 # 0
  /\ out' = IF Parses(newMessageString) THEN Append(out, newMessageString[1]) ELSE out
  /\ fullBuffer' = afterMessage
  /\ UNCHANGED <<started, writing, pending, stream, parsing, log>>

EndOfLoop ==
  /\ parsing
  /\ index0 = 0 \/ index1 = 0
  /\ parsing' = FALSE
  /\ UNCHANGED <<started, writing, pending, stream, fullBuffer, out, log>>

StreamNext ==
  \/ \E w \in Writers : send(w) \/ Write(w)
  \/ Recv
  \/ CutMessage
  \/ EndOfLoop

StreamSpec == StreamInit /\ [][StreamNext]_streamVars

-----------------------------------------------------------------------------
\* The type of every variable (PeerManager.cpp:139-145).
StreamTypeOK ==
  /\ started \in 0..MaxFrames
  /\ writing \in [Writers -> 0..MaxFrames]
  /\ pending \in [Writers -> Seq(Token)]
  /\ stream \in Seq(Token) /\ Len(stream) <= Capacity
  /\ fullBuffer \in Seq(Token)
  /\ parsing \in BOOLEAN
  /\ out \in Seq(1..MaxFrames)
  /\ log \in Seq([frame : 1..MaxFrames, byte : 1..Len(FrameOf(1))])

BytesOf(n) == {i \in DOMAIN log : log[i].frame = n}

\* Every byte of frame m is on the same side of every byte of frame n.
Apart(m, n) == \/ \A i \in BytesOf(m), j \in BytesOf(n) : i < j
               \/ \A i \in BytesOf(m), j \in BytesOf(n) : j < i

Undisturbed(n) == \A m \in 1..started : m # n => Apart(m, n)

\* A message comes out at most once, and messages whose frames did not mix
\* come out in the order they were written, however reads and writes are cut.
OutInOrder ==
  \A i, j \in DOMAIN out : i < j =>
     /\ out[i] # out[j]
     /\ Apart(out[i], out[j]) => Min(BytesOf(out[i])) < Min(BytesOf(out[j]))

Quiet == stream = << >> /\ ~parsing /\ \A w \in Writers : pending[w] = << >>

\* Two writers on one socket (a program thread and the heart beat, which does
\* not take mutex_peers) can spoil only frames that mix: every other message
\* comes out, also right after the spoilt ones, and does not wait for a later
\* frame to push it through (PeerManager.cpp:178-234, 302-314).
UndisturbedArrive ==
  Quiet => \A n \in 1..started : Undisturbed(n) => Contains(out, n)

\* No read or write leaves the types, what comes out is in order, and all that
\* can come out does.
StreamInv == StreamTypeOK /\ OutInOrder /\ UndisturbedArrive

-----------------------------------------------------------------------------
(* The promise, Channel, and how the state of the stream maps to it: a       *)
(* message is put when the first byte of its text is written.                *)

\* How many of the bytes written have left fullBuffer.
Cut == Len(log) - Len(stream) - Len(fullBuffer)

Texts == {[msg |-> log[i].frame, at |-> i] : i \in {j \in DOMAIN log : log[j].byte = 3}}

Begun == {x.msg : x \in Texts}

UnderWay == {x \in Texts : x.at > Cut}

\* Frames begun before the j-th byte written and not ended before it.
Open(j) ==
  {log[i].frame : i \in 1..j - 1} \ {log[i].frame : i \in {k \in 1..j - 1 : log[k].byte = 6}}

\* Frames that a byte of another frame got into, and the frames of such bytes.
Mixed ==
  UNION {Open(j) \cup {log[j].frame} : j \in {k \in DOMAIN log : Open(k) \ {log[k].frame} # {}}}

Chan == INSTANCE Channel WITH Message <- 1..MaxFrames, put <- Begun, wire <- UnderWay,
                              spoilt <- Mixed, got <- out

\* The stream implements Channel: at every moment, not only when all is quiet,
\* what the receive thread passes over is of frames that ran into each other,
\* and the others keep their order (PeerManager.cpp:178-234, 302-314).
ImplementsChannel == Chan!CSpec
=============================================================================
