------------------------------ MODULE ModuleUri ------------------------------
(* The address of a module and its text, which is what peers learn of it:   *)
(* the setters of ModuleUri, of which only some renew fullString, and       *)
(* assign, which parses the text of another address.                        *)
(*                                                                          *)
(* A text is a sequence of symbols: a letter, a separator or a number.      *)
(* The definitions named ..._Bug are mistakes that the properties detect;   *)
(* they are not part of the model.                                          *)
EXTENDS Naturals, Sequences, SequencesExt

CONSTANTS Hosts,    \* host names, sequences of letters
          Exes,     \* program names, sequences of letters
          Numbers,  \* ports and process ids
          Junk      \* texts that are not addresses

INVALID_HOST_NAME == <<"UNKNOWN">>
INVALID_EXE_NAME  == <<".", "out">>
INVALID_PORT_NUM  == "-101"
INVALID_PROC_ID   == "-9999"

AllNumbers == Numbers \cup {INVALID_PORT_NUM, INVALID_PROC_ID}

Symbols == AllNumbers \cup {":", "|"} \cup
             UNION {ToSet(s) : s \in Hosts \cup Exes \cup {INVALID_HOST_NAME, INVALID_EXE_NAME}}

ASSUME NamesAssumption == /\ Hosts \cup Exes \subseteq Seq(Symbols) \ {<< >>}
                          /\ \A h \in Hosts : ~Contains(h, ":")
                          /\ \A e \in Exes : ~Contains(e, "|")
                          /\ Numbers \cap {":", "|"} = {}

VARIABLES
  uri,         \* the fields
  fullString,  \* the text
  renewed      \* history: no process id or name was set since the text

uriVars == <<uri, fullString, renewed>>

DefaultUri == [hostName |-> INVALID_HOST_NAME, httpPort |-> INVALID_PORT_NUM,
               tcpPort |-> INVALID_PORT_NUM, exeName |-> INVALID_EXE_NAME,
               processId |-> INVALID_PROC_ID]

\* "%s:%d:%d|%s|%d", printed into 1024 bytes: names are short enough for them.
arrangeFullStr(u) == u.hostName \o <<":", u.httpPort, ":", u.tcpPort, "|">>
                       \o u.exeName \o <<"|", u.processId>>

-----------------------------------------------------------------------------
(* assign.                                                                  *)

\* Number of symbols before the first c, or Len(s) if there is none.
find(s, c) == IF Contains(s, c) THEN (CHOOSE k \in 1..Len(s) :
                    s[k] = c /\ \A j \in 1..k - 1 : s[j] # c) - 1
              ELSE Len(s)

\* substr(0, i) and substr(i + 1).
Before(s, i) == SubSeq(s, 1, i)
After(s, i)  == SubSeq(s, i + 2, Len(s))

atoi(s) == IF s # << >> /\ s[1] \in AllNumbers THEN s[1] ELSE "0"

\* substr(0, i - 1): the last letter is lost, and nothing is cut if i = 0.
exeNameIn(s) == LET i == find(s, "|") IN IF i = 0 THEN s ELSE Before(s, i - 1)

\* The text after the host, after the HTTP port, after the TCP port.
Rest1(s) == After(s, find(s, ":"))
Rest2(s) == After(Rest1(s), find(Rest1(s), ":"))
Rest3(s) == After(Rest2(s), find(Rest2(s), "|"))

Parses(s) == /\ Contains(s, ":")
             /\ Contains(Rest1(s), ":")
             /\ Contains(Rest2(s), "|")
             /\ Contains(Rest3(s), "|")

Parsed_Bug(s) == [hostName  |-> Before(s, find(s, ":")),
                  tcpPort   |-> atoi(Before(Rest1(s), find(Rest1(s), ":"))),
                  httpPort  |-> atoi(Before(Rest2(s), find(Rest2(s), "|"))),
                  exeName   |-> exeNameIn(Rest3(s)),
                  processId |-> atoi(After(Rest3(s), find(Rest3(s), "|")))]

Parsed(s) == [hostName  |-> Before(s, find(s, ":")),
              httpPort  |-> atoi(Before(Rest1(s), find(Rest1(s), ":"))),
              tcpPort   |-> atoi(Before(Rest2(s), find(Rest2(s), "|"))),
              exeName   |-> exeNameIn(Rest3(s)),
              processId |-> atoi(After(Rest3(s), find(Rest3(s), "|")))]

ASSUME JunkAssumption == \A s \in Junk : ~Parses(s)

-----------------------------------------------------------------------------
UriInit == uri = DefaultUri /\ fullString = arrangeFullStr(DefaultUri) /\ renewed = TRUE

Arranged(u) == uri' = u /\ fullString' = arrangeFullStr(u) /\ renewed' = TRUE

SetHostName(h) == Arranged([uri EXCEPT !.hostName = h])
SetHttpPort(p) == Arranged([uri EXCEPT !.httpPort = p])
SetTcpPort(p)  == Arranged([uri EXCEPT !.tcpPort = p])

SetProcessId(n) == /\ uri' = [uri EXCEPT !.processId = n]
                   /\ renewed' = FALSE
                   /\ UNCHANGED fullString

SetExeName(e) == /\ uri' = [uri EXCEPT !.exeName = e]
                 /\ renewed' = FALSE
                 /\ UNCHANGED fullString

\* The name, then the host, which renews the text, then the process id.
SetOwnUri(h, e, n) ==
  LET named == [uri EXCEPT !.exeName = e, !.hostName = h]
  IN  /\ uri' = [named EXCEPT !.processId = n]
      /\ fullString' = arrangeFullStr(named)
      /\ renewed' = FALSE

assign(s) == IF Parses(s) THEN Arranged(Parsed(s)) ELSE UNCHANGED uriVars

\* Texts that reach assign: those of other modules, and others.
Others == [hostName : Hosts, httpPort : Numbers \cup {INVALID_PORT_NUM},
           tcpPort : Numbers \cup {INVALID_PORT_NUM}, exeName : Exes, processId : Numbers]
Texts  == Junk \cup {arrangeFullStr(u) : u \in Others}

UriNext == \/ \E h \in Hosts : SetHostName(h)
           \/ \E p \in Numbers : SetHttpPort(p) \/ SetTcpPort(p) \/ SetProcessId(p)
           \/ \E e \in Exes : SetExeName(e)
           \/ \E h \in Hosts, e \in Exes, n \in Numbers : SetOwnUri(h, e, n)
           \/ \E s \in Texts : assign(s)

UriSpec == UriInit /\ [][UriNext]_uriVars

-----------------------------------------------------------------------------
\* The type of every variable (ModuleUri.h:16-22).
UriTypeOK ==
  /\ uri.hostName \in Hosts \cup {INVALID_HOST_NAME}
  /\ {uri.httpPort, uri.tcpPort} \subseteq Numbers \cup {INVALID_PORT_NUM}
  /\ uri.processId \in Numbers \cup {INVALID_PROC_ID}
  /\ uri.exeName \in Seq(Symbols) /\ fullString \in Seq(Symbols)
  /\ renewed \in BOOLEAN

\* Whatever was set and parsed before, a peer that parses the text gets the
\* host and the ports of the module, by which isTheSame tells modules apart;
\* the process id travels with the text once a host or a port has been set
\* after it, and the program's name arrives without its last letter
\* (ModuleUri.cpp:53-92, 115-140).
PeerLearnsUri ==
  LET peer == Parsed(fullString)
  IN  /\ Parses(fullString)
      /\ peer.hostName = uri.hostName
      /\ peer.tcpPort = uri.tcpPort /\ peer.httpPort = uri.httpPort
      /\ renewed => /\ peer.processId = uri.processId
                    /\ uri.exeName # << >> => peer.exeName = Front(uri.exeName)
=============================================================================
