----------------------------- MODULE FileServer -----------------------------
(* handleGetRequest answers a URL with a file or the list of a directory, in *)
(* several looks at a file system that others change in between; files are   *)
(* saved through a stream that empties them when it opens and then writes    *)
(* (saveStrToFile, and writeTextToFile of Pagedownloader).                   *)
(*                                                                           *)
(* Texts are sequences of tokens: slashes and words.  The file system is     *)
(* external; a file is a sequence of pieces, each read or written at once,   *)
(* with "hole" where nothing was written.  What is written to a file that    *)
(* was removed is lost, and the entries . and .. of a list are left out.     *)
(* The system may refuse a look at what is there (permissions, descriptors). *)
(*                                                                           *)
(* The definitions named ..._Bug are mistakes that the properties detect;    *)
(* they are not part of the model.                                           *)
EXTENDS Naturals, Sequences, SequencesExt, FiniteSets

CONSTANTS FileUrls,   \* what is asked for, inside the subdomain
          Paths,      \* what may exist: rootPath and texts under it
          subdomain,
          rootPath,
          Savers,     \* threads that save files
          Nil

\* Texts are made of tokens; no path and no subdomain ends in a slash.
Tokens == UNION {ToSet(s) : s \in FileUrls \cup Paths \cup {subdomain}}

ASSUME SlashAssumption ==
  /\ FileUrls \cup Paths \cup {subdomain} \subseteq Seq(Tokens)
  /\ << >> \notin FileUrls
  /\ \A p \in Paths \cup {subdomain} : p # << >> => Last(p) # "/"

VARIABLES
  node,      \* [path]: its kind, and the pieces of a file
  request,   \* the request under way, Nil if none
  writing    \* [t]: the file that t writes, Nil if none

Nothing    == [kind |-> "none", data |-> << >>]
Dir        == [kind |-> "dir", data |-> << >>]
File(data) == [kind |-> "file", data |-> data]

FileServerInit ==
  /\ node = [p \in Paths |-> IF p = rootPath THEN Dir ELSE Nothing]
  /\ request = Nil
  /\ writing = [t \in Savers |-> Nil]

-----------------------------------------------------------------------------
(* From URLs to paths and back.                                              *)

\* Before which tokens the text subdomain occurs in url.
Occurrences(url) == {i \in 0..Len(url) - Len(subdomain) :
                        SubSeq(url, i + 1, i + Len(subdomain)) = subdomain}

hasSubUrl(url) == Occurrences(url) # {}

getSubUrl_Bug(url) ==
  LET i == CHOOSE j \in Occurrences(url) : \A k \in Occurrences(url) : j >= k
  IN  SubSeq(url, i + Len(subdomain) + 1, Len(url))

\* What follows the first occurrence.
getSubUrl(url) ==
  LET i == CHOOSE j \in Occurrences(url) : \A k \in Occurrences(url) : j <= k
  IN  SubSeq(url, i + Len(subdomain) + 1, Len(url))

\* Which node a text names: slashes before another or at the end do not matter.
Heeded(text) == {k \in DOMAIN text : text[k] = "/" => k < Len(text) /\ text[k + 1] # "/"}

\* The n-th of a set of numbers, in their order.
Nth(S, n) == CHOOSE k \in S : Cardinality({j \in S : j <= k}) = n

Normal(text) == [n \in 1..Cardinality(Heeded(text)) |-> text[Nth(Heeded(text), n)]]

Text(url) == rootPath \o getSubUrl(url)

PathOf(url) == Normal(Text(url))

\* What a node of this kind is to a look at url: with a slash at its end the
\* name of a file is no name (ENOTDIR).
KindAt(url, kind) ==
  IF kind = "file" /\ Text(url) # << >> /\ Last(Text(url)) = "/" THEN "none" ELSE kind

Entry(p, name) == p \o <<"/", name>>

\* The list of a directory: an entry's link and its name.
convertDirListToHtml(url, names) ==
  LET url_ == IF Last(url) = "/" THEN Front(url) ELSE url
  IN  {[href |-> Entry(url_, n), name |-> n] : n \in names}

-----------------------------------------------------------------------------
(* Requests; the one thread of the HTTP server makes one at a time.          *)

Node(p) == IF p \in Paths THEN node[p] ELSE Nothing

Asked == PathOf(request.url)

Found == KindAt(request.url, Node(Asked).kind)

\* t has p open.
Writes(t, p) == writing[t] # Nil /\ writing[t].path = p

Writers(p) == {t \in Savers : Writes(t, p)}

handleGetRequest(url) ==
  /\ request = Nil
  /\ hasSubUrl(url)
  /\ request' = [url |-> url, stage |-> "isDir", result |-> << >>, list |-> {}, removed |-> Nil,
                 seen |-> {KindAt(url, Node(PathOf(url)).kind)},
                 disturbed |-> Writers(PathOf(url)) # {}, refused |-> FALSE]
  /\ UNCHANGED <<node, writing>>

At(stage)   == request # Nil /\ request.stage = stage
Goto(stage) == request' = [request EXCEPT !.stage = stage] /\ UNCHANGED <<node, writing>>

\* The look for something of this kind is refused although it is there.
Denied(kinds, stage) ==
  /\ Found \in kinds
  /\ request' = [request EXCEPT !.stage = stage, !.refused = TRUE]
  /\ UNCHANGED <<node, writing>>

isDir_Bug ==
  /\ At("isDir")
  /\ Goto(IF Found = "none" THEN "lsDir" ELSE "fileExists")

isDir ==
  /\ At("isDir")
  /\ \/ Goto(IF Found = "dir" THEN "lsDir" ELSE "fileExists")
     \/ Denied({"dir"}, "fileExists")

\* A directory that cannot be opened any more has no entries.
lsDirRefused == At("lsDir") /\ Denied({"dir"}, "list")

lsDir ==
  /\ At("lsDir")
  /\ LET names == {Last(p) : p \in {q \in Paths : /\ q = Entry(Asked, Last(q))
                                                  /\ node[q].kind # "none"}}
     IN  request' = [request EXCEPT !.stage = "list",
                                    !.list = convertDirListToHtml(request.url, names)]
  /\ UNCHANGED <<node, writing>>

fileExists ==
  /\ At("fileExists")
  /\ \/ Goto(IF Found = "none" THEN "NOT_FOUND" ELSE "readTextFile")
     \/ Denied({"file", "dir"}, "NOT_FOUND")

\* What is gone, or a directory by now, is read as an empty file.
readTextFile ==
  /\ At("readTextFile")
  /\ \/ Goto(IF Found = "file" THEN "reading" ELSE "page")
     \/ Denied({"file"}, "page")

\* The stream stays on the file that it opened.
ReadPiece ==
  /\ At("reading")
  /\ LET data == IF request.removed # Nil THEN request.removed ELSE node[Asked].data
         k    == Len(request.result) + 1
     IN  IF k <= Len(data)
         THEN /\ request' = [request EXCEPT !.result = Append(@, data[k])]
              /\ UNCHANGED <<node, writing>>
         ELSE Goto("page")

Answers == {"list", "NOT_FOUND", "page"}

Respond ==
  /\ request # Nil /\ request.stage \in Answers
  /\ request' = Nil
  /\ UNCHANGED <<node, writing>>

-----------------------------------------------------------------------------
(* What others do to the file system.                                        *)

\* The request when p has become a node of this kind.
Noticed(p, kind) ==
  IF request = Nil \/ p # Asked THEN request
  ELSE [request EXCEPT !.disturbed = TRUE,
                       !.seen = IF request.stage \in Answers THEN @
                               ELSE @ \cup {KindAt(request.url, kind)}]

Parent(p) == SubSeq(p, 1, Len(p) - 2)

Accessible(p) == p # rootPath /\ Node(Parent(p)).kind = "dir"

\* A stream that cannot be opened is not noticed, and writes nothing.
openStream(t, p, content) ==
  IF Accessible(p) /\ node[p].kind # "dir"
  THEN /\ node' = [node EXCEPT ![p] = File(<< >>)]
       /\ writing' = [writing EXCEPT ![t] = [path |-> p, left |-> content, next |-> 1]]
       /\ request' = Noticed(p, "file")
  ELSE UNCHANGED <<node, writing, request>>

\* The data with x at place k.
PutAt(data, k, x) == [j \in 1..(IF k > Len(data) THEN k ELSE Len(data)) |->
                        IF j = k THEN x ELSE IF j <= Len(data) THEN data[j] ELSE "hole"]

WritePiece(t) ==
  /\ writing[t] # Nil /\ writing[t].left # << >>
  /\ LET w == writing[t]
     IN  IF w.path = Nil THEN UNCHANGED <<node, request>>
         ELSE /\ node' = [node EXCEPT ![w.path].data = PutAt(@, w.next, Head(w.left))]
              /\ request' = Noticed(w.path, "file")
  /\ writing' = [writing EXCEPT ![t].left = Tail(@), ![t].next = @ + 1]

CloseStream(t) ==
  /\ writing[t] # Nil /\ writing[t].left = << >>
  /\ writing' = [writing EXCEPT ![t] = Nil]
  /\ UNCHANGED <<node, request>>

unlink(p) ==
  /\ Accessible(p) /\ node[p].kind # "none"
  /\ \A q \in Paths : q # rootPath /\ Parent(q) = p => node[q].kind = "none"
  /\ node' = [node EXCEPT ![p] = Nothing]
  /\ writing' = [t \in Savers |-> IF Writes(t, p) THEN [writing[t] EXCEPT !.path = Nil]
                                  ELSE writing[t]]
  /\ LET r == Noticed(p, "none")
     IN  request' = IF At("reading") /\ p = Asked /\ request.removed = Nil
                    THEN [r EXCEPT !.removed = node[p].data] ELSE r

mkdir(p) ==
  /\ Accessible(p) /\ node[p].kind = "none"
  /\ node' = [node EXCEPT ![p] = Dir]
  /\ request' = Noticed(p, "dir")
  /\ UNCHANGED writing

-----------------------------------------------------------------------------
RequestStep == \/ \E url \in FileUrls : handleGetRequest(url)
               \/ isDir \/ lsDir \/ lsDirRefused \/ fileExists
               \/ readTextFile \/ ReadPiece \/ Respond

FileStep == \/ \E t \in Savers : WritePiece(t) \/ CloseStream(t)
            \/ \E p \in Paths : unlink(p) \/ mkdir(p)

-----------------------------------------------------------------------------
\* The links in a list lead back into the file server and to the entries they
\* name, also where the name of the subdomain occurs again below the root
\* (FileServer.cpp:35-47, 60-67, 122-142).
ListLeads ==
  At("list") => \A e \in request.list : /\ hasSubUrl(e.href)
                                        /\ PathOf(e.href) = Entry(Asked, e.name)

\* The looks at the file system are apart (FileServer.cpp:58-72), but an answer
\* still tells what the path has been during the request: it is not found only
\* if it was missing, or a file asked for with a slash at the end, or stat was
\* refused; listed only if it was a directory; and has content only if it was a
\* file.  A page without content may also stand for a path that came, went or
\* changed its kind between the looks, for a directory that could not be opened
\* (FileServer.cpp:93-106) and for a file that could not.
AnswerTruthful ==
  request # Nil /\ request.stage \in Answers =>
     LET kindOf == [list |-> "dir", NOT_FOUND |-> "none", page |-> "file"]
         empty  == request.stage = "page" /\ request.result = << >>
     IN  \/ kindOf[request.stage] \in request.seen
         \/ empty /\ (request.seen # {"dir"} \/ request.refused)
         \/ request.stage = "NOT_FOUND" /\ request.refused
=============================================================================
