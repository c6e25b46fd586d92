----------------------------- MODULE HTTPClient -----------------------------
(* postRequest: one transfer by libcurl, which hands the body over in pieces *)
(* to WriteCallback until it is complete, the connection breaks or the time  *)
(* is up.  curl and the server are external; options that cannot be set, for *)
(* want of memory, count as a connection that breaks before the first piece. *)
(*                                                                           *)
(* The definitions named ..._Bug are mistakes that the properties detect;    *)
(* they are not part of the model.                                           *)
EXTENDS Naturals, Sequences

CONSTANTS Callers,   \* threads, each with a client
          Bodies,    \* what the server may answer: sequences of pieces
          Nil

VARIABLE transfer    \* [t]: the transfer t waits for, Nil if none

Init == transfer = [t \in Callers |-> Nil]

\* The method, the data sent and the headers change nothing here.
postRequest(t) ==
  /\ transfer[t] = Nil
  /\ \E body \in Bodies : transfer' = [transfer EXCEPT ![t] = [left |-> body, resBuffer |-> << >>]]

\* A call with several pieces is several of this.
WriteCallback(t) ==
  /\ transfer[t] # Nil /\ transfer[t].left # << >>
  /\ transfer' = [transfer EXCEPT ![t] = [left |-> Tail(@.left),
                                         resBuffer |-> Append(@.resBuffer, Head(@.left))]]

\* What curl_easy_perform may return now.
PerformReturns(t) ==
  IF transfer[t] = Nil THEN {}
  ELSE {"CURLE_OPERATION_TIMEDOUT", "other error"}
         \cup IF transfer[t].left = << >> THEN {"CURLE_OK"} ELSE {}

Result_Bug(t, curlRc) == transfer[t].resBuffer

\* Only a timeout empties the result.
Result(t, curlRc) == IF curlRc = "CURLE_OPERATION_TIMEDOUT" THEN << >>
                     ELSE transfer[t].resBuffer

\* postRequest returns Result(t, curlRc).
Return(t, curlRc) ==
  /\ curlRc \in PerformReturns(t)
  /\ transfer' = [transfer EXCEPT ![t] = Nil]
=============================================================================
