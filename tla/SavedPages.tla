----------------------------- MODULE SavedPages -----------------------------
(* The way of a page: downloadPageHttp gets it with HTTPClient and saves it  *)
(* with writeTextToFile, and the file server of the same machine hands the   *)
(* file out.                                                                 *)
EXTENDS FileServer

CONSTANTS Bodies,     \* of HTTPClient
          SavedAs     \* the paths that pages are saved as

VARIABLES transfer,   \* of HTTPClient
          saved       \* [p]: history: how the transfer saved last ended, and
                      \* whether another save was under way when it was saved

C == INSTANCE HTTPClient WITH Callers <- Savers

\* What travels and what is on the disk.
Pieces    == UNION {ToSet(b) : b \in Bodies}
Parts     == Pieces \cup {"hole"}
Writing   == [path : Paths \cup {Nil}, left : Seq(Pieces), next : Nat]
Transfers == [left : Seq(Pieces), resBuffer : Seq(Pieces)]

\* What the constants stand for.
ASSUME PagesAssumption ==
  /\ rootPath \in Paths /\ SavedAs \subseteq Paths
  /\ Bodies \subseteq Seq(Pieces)
  /\ Nil \notin Paths \cup Seq(Parts) \cup Writing \cup Transfers

pagesVars == <<node, request, writing, transfer, saved>>

PagesInit == /\ FileServerInit /\ C!Init
             /\ saved = [p \in SavedAs |-> Nil]

Download(t) ==
  /\ writing[t] = Nil
  /\ C!postRequest(t)
  /\ UNCHANGED <<node, request, writing, saved>>

\* Without a filename, or if the file cannot be opened, the page is only returned.
ReturnPage(t, curlRc) ==
  /\ C!Return(t, curlRc)
  /\ UNCHANGED <<node, request, writing, saved>>

\* Whatever came of the request is saved.
SavePage(t, curlRc, p) ==
  /\ C!Return(t, curlRc)
  /\ openStream(t, p, C!Result(t, curlRc))
  /\ saved' = [saved EXCEPT ![p] = [curlRc |-> curlRc, alone |-> Writers(p) = {}]]

PagesNext ==
  \/ \E t \in Savers :
       \/ Download(t)
       \/ C!WriteCallback(t) /\ UNCHANGED <<node, request, writing, saved>>
       \/ \E curlRc \in C!PerformReturns(t) :
            ReturnPage(t, curlRc) \/ \E p \in SavedAs : SavePage(t, curlRc, p)
  \/ (RequestStep \/ FileStep) /\ UNCHANGED <<transfer, saved>>

PagesSpec == PagesInit /\ [][PagesNext]_pagesVars

-----------------------------------------------------------------------------
\* What is handed out of a file that was saved by one download at a time, and
\* was not touched or refused during the request, is the whole page of the last
\* download; nothing, if that timed out; and the beginning of a page, which nothing tells
\* from a whole one, if its connection broke (HTTPClient.cpp:38-99,
\* Pagedownloader.cpp:35-42, 63-68).
ServedWhole ==
  At("page") /\ ~request.disturbed /\ ~request.refused /\ request.seen = {"file"} =>
     LET s == saved[Asked]
         r == request.result
     IN  s.alone => /\ \E b \in Bodies : IsPrefix(r, b)
                    /\ s.curlRc = "CURLE_OK" => r \in Bodies
                    /\ s.curlRc = "CURLE_OPERATION_TIMEDOUT" => r = << >>
=============================================================================
