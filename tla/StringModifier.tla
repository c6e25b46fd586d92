--------------------------- MODULE StringModifier ---------------------------
(* The conversions of StringModifier: base64 in both directions and the     *)
(* encoding of addresses, as functions of sequences of bytes; and its two   *)
(* editing functions, a step for each turn of their loops, on sequences of  *)
(* characters with positions counted from 0.                                *)
(*                                                                          *)
(* The definitions named ..._Bug are mistakes that the properties detect;   *)
(* they are not part of the model.                                          *)
EXTENDS Integers, Sequences, SequencesExt

CONSTANTS Inputs,     \* sequences of bytes to convert
          Templates,  \* texts to edit
          Keys,       \* what to look for in them, never empty
          Values      \* what to put in its place

VARIABLES
  op,      \* which function runs
  bytes,   \* the input of a conversion
  str,     \* the text being edited
  key, value,
  index2,  \* where the next turn of the loop looks
  done

\* Bytes are bytes, and the texts are made of characters.
Chars == UNION {ToSet(s) : s \in Templates \cup Keys \cup Values}

ASSUME InputsAssumption == Inputs \subseteq Seq(0..255)
ASSUME TextsAssumption  == /\ Templates \cup Values \subseteq Seq(Chars)
                           /\ Keys \subseteq Seq(Chars) \ {<< >>}

stringVars == <<op, bytes, str, key, value, index2, done>>

-----------------------------------------------------------------------------
(* base64_encode: three bytes make four indices into base64_chars; what is  *)
(* left over is filled up with zeros and marked with '=', here 64.          *)

Pad == 64

Quad_Bug(b) == <<b[1] \div 4, (b[1] % 4) * 16 + b[2] \div 16,
                 (b[2] % 16) * 4 + b[3] \div 16, b[3] % 64>>

\* char_array_4 from char_array_3.
Quad(b) == <<b[1] \div 4, (b[1] % 4) * 16 + b[2] \div 16,
             (b[2] % 16) * 4 + b[3] \div 64, b[3] % 64>>

FillUp(s, n, x) == [j \in 1..n |-> IF j <= Len(s) THEN s[j] ELSE x]

\* The g-th group of n, and what is left over after the last.
Group(s, n, g)   == SubSeq(s, n * (g - 1) + 1, n * g)
LeftOver(s, n)   == SubSeq(s, (n * (Len(s) \div n)) + 1, Len(s))

base64_encode(s) ==
  LET r == LeftOver(s, 3)
  IN  FlattenSeq([g \in 1..Len(s) \div 3 |-> Quad(Group(s, 3, g))])
        \o (IF r = << >> THEN << >>
            ELSE FillUp(SubSeq(Quad(FillUp(r, 3, 0)), 1, Len(r) + 1), 4, Pad))

-----------------------------------------------------------------------------
(* base64_decode, up to the first character that is not one of the 64.      *)

Significant(e) == SubSeq(e, 1, IF Contains(e, Pad)
                               THEN (CHOOSE k \in DOMAIN e : /\ e[k] = Pad
                                      /\ \A j \in 1..k - 1 : e[j] # Pad) - 1
                               ELSE Len(e))

\* char_array_3 from char_array_4, in unsigned chars.
Triple(q) == <<(q[1] * 4 + ((q[2] \div 16) % 4)) % 256,
               ((q[2] % 16) * 16 + ((q[3] \div 4) % 16)) % 256,
               ((q[3] % 4) * 64 + q[4]) % 256>>

\* An incomplete group gives one byte less than it has characters; those it
\* lacks are looked up as '\0', and find answers npos, 255 in a char.
LastBytes(r) == IF r = << >> THEN << >>
                ELSE SubSeq(Triple(FillUp(r, 4, 255)), 1, Len(r) - 1)

base64_decode(e) ==
  LET s == Significant(e)
  IN  FlattenSeq([g \in 1..Len(s) \div 4 |-> Triple(Group(s, 4, g))])
        \o LastBytes(LeftOver(s, 4))

-----------------------------------------------------------------------------
(* UriEncode.                                                               *)

\* Digits, letters and - _ . ! ~ * ' ( ).
Kept == (48..57) \cup (97..122) \cup (65..90)
          \cup {45, 95, 46, 33, 126, 42, 39, 40, 41}

Percent == 37
Plus    == 43
Space   == 32

hexchar(d) == IF d <= 9 THEN 48 + d ELSE 87 + d

UriEncode(s) ==
  FlattenSeq([k \in DOMAIN s |->
    IF s[k] \in Kept THEN <<s[k]>>
    ELSE IF s[k] = Space THEN <<Plus>>
    ELSE <<Percent, hexchar(s[k] \div 16), hexchar(s[k] % 16)>>])

-----------------------------------------------------------------------------
(* The editing functions.                                                   *)

\* string::find: the first place at or after from, -1 for npos.
findFrom(s, k, from) ==
  LET places == {i \in from..Len(s) - Len(k) : SubSeq(s, i + 1, i + Len(k)) = k}
  IN  IF places = {} THEN -1 ELSE CHOOSE i \in places : \A j \in places : i <= j

\* The first i characters, and those from i on.
Until(s, i) == SubSeq(s, 1, i)
From(s, i)  == SubSeq(s, i + 1, Len(s))

Stop(text) == done' = TRUE /\ str' = text /\ UNCHANGED index2

GoOn(text, i) == str' = text /\ index2' = i /\ UNCHANGED done

replaceTemplateWith_Bug ==
  /\ op = "replaceTemplateWith" /\ ~done
  /\ LET index == findFrom(str, key, index2)
     IN  IF index = -1 THEN Stop(str)
         ELSE GoOn(Until(str, index) \o value \o From(str, index + Len(key)),
                   index)
  /\ UNCHANGED <<op, bytes, key, value>>

replaceTemplateWith ==
  /\ op = "replaceTemplateWith" /\ ~done
  /\ LET index == findFrom(str, key, index2)
     IN  IF index = -1 THEN Stop(str)
         ELSE GoOn(Until(str, index) \o value \o From(str, index + Len(key)),
                   index + Len(value))
  /\ UNCHANGED <<op, bytes, key, value>>

removePhraseAfter_Bug ==
  /\ op = "removePhraseAfter" /\ ~done
  /\ LET index    == findFrom(str, key, index2)
         indexEnd == findFrom(str, <<" ">>, index)
     IN  IF index = -1 THEN Stop(str)
         ELSE IF indexEnd = -1 THEN Stop(Until(str, index + Len(key)))
         ELSE GoOn(Until(str, index + Len(key)) \o From(str, indexEnd), index)
  /\ UNCHANGED <<op, bytes, key, value>>

\* index2 becomes the place the space had before the phrase went.
removePhraseAfter ==
  /\ op = "removePhraseAfter" /\ ~done
  /\ LET index    == findFrom(str, key, index2)
         indexEnd == findFrom(str, <<" ">>, index)
     IN  IF index = -1 THEN Stop(str)
         ELSE IF indexEnd = -1 THEN Stop(Until(str, index))
         ELSE GoOn(Until(str, index) \o From(str, indexEnd), indexEnd)
  /\ UNCHANGED <<op, bytes, key, value>>

-----------------------------------------------------------------------------
Converts == op = "convert" /\ bytes \in Inputs /\ str = << >> /\ key = << >> /\ value = << >>

Edits == /\ op \in {"replaceTemplateWith", "removePhraseAfter"}
         /\ bytes = << >> /\ str \in Templates /\ key \in Keys
         /\ value \in IF op = "removePhraseAfter" THEN {<< >>} ELSE Values

StringInit == (Converts \/ Edits) /\ index2 = 0 /\ done = (op = "convert")

StringNext == replaceTemplateWith \/ removePhraseAfter

StringSpec == StringInit /\ [][StringNext]_stringVars

-----------------------------------------------------------------------------
\* What base64_encode makes of any bytes, base64_decode turns back into them:
\* the addresses of requestPythonDownloader survive (StringModifier.cpp:232-314).
Base64RoundTrip == op = "convert" => base64_decode(base64_encode(bytes)) = bytes

\* The standard reading of an encoded address: '+' is a space, "%xy" a byte.
Digit(c) == IF c <= 57 THEN c - 48 ELSE c - 87

UriDecode(e) ==
  LET Starts(k) == \A j \in {k - 1, k - 2} \cap DOMAIN e : e[j] # Percent
  IN  FlattenSeq([k \in DOMAIN e |->
        IF ~Starts(k) THEN << >>
        ELSE IF e[k] = Percent THEN <<Digit(e[k + 1]) * 16 + Digit(e[k + 2])>>
        ELSE IF e[k] = Plus THEN <<Space>>
        ELSE <<e[k]>>])

\* UriEncode loses nothing: the address can be read back (StringModifier.cpp:54-93).
UriRoundTrip == op = "convert" => UriDecode(UriEncode(bytes)) = bytes

\* Neither conversion loses anything (StringModifier.cpp:54-93, 232-314).
RoundTrips == Base64RoundTrip /\ UriRoundTrip

\* The last n characters of s with v in the place of k.
Replaced(s, k, v, n) ==
  LET r[m \in 0..Len(s)] ==
        IF m = 0 THEN << >>
        ELSE IF IsPrefix(k, From(s, Len(s) - m)) THEN v \o r[m - Len(k)]
        ELSE <<s[Len(s) - m + 1]>> \o r[m - 1]
  IN  r[n]

\* Every turn of replaceTemplateWith leaves the replacement of what is still
\* to come unchanged: values are not searched again, nothing is skipped
\* (StringModifier.cpp:26-35).
ReplacesRest ==
  [][op = "replaceTemplateWith" =>
       Until(str, index2) \o Replaced(str, key, value, Len(str) - index2)
         = Until(str', index2') \o
             (IF done' THEN From(str', index2')
              ELSE Replaced(str', key, value, Len(str') - index2'))]_stringVars

\* removePhraseAfter finds a key that begins with a space again: the space is
\* its own end, nothing is removed, and index2 is set to where the key is.
FindsItself == /\ op = "removePhraseAfter" /\ Head(key) = " "
               /\ findFrom(str, key, 0) # -1

\* Both loops end, also when the value contains the key, but for this one case:
\* a key that begins with a space and occurs (StringModifier.cpp:26-52).
EditingEnds == (~FindsItself => <>done) /\ (FindsItself => []~done)
=============================================================================
