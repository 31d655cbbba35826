----------------------------- MODULE UriCodec -----------------------------
(***************************************************************************)
(* strings.h: percent encoding of baggage values in HTTP headers.  A text  *)
(* is a sequence of character codes.                                       *)
(***************************************************************************)
EXTENDS Integers, Sequences, FiniteSetsExt

Percent == 37
Digits == 48 .. 57
Upper == 65 .. 90
Lower == 97 .. 122

decode_hex(ch) ==
  CASE ch \in 97 .. 102 -> ch - 97 + 10
    [] ch \in 65 .. 70 -> ch - 65 + 10
    [] ch \in Digits -> ch - 48
    [] OTHER -> -1

encode_hex(num) == IF num < 10 THEN 48 + num ELSE 97 + (num - 10)

\* The characters that encode_uri_value leaves as they are:
\* letters, digits and ; / ? : @ & = + $ , - _ . ! ~ * ' ( )
Plain == Digits \cup Upper \cup Lower
           \cup {59, 47, 63, 58, 64, 38, 61, 43, 36, 44, 45, 95, 46, 33, 126,
                 42, 39, 40, 41}

EncodeChar(ch) ==
  IF ch \in Plain THEN <<ch>>
  ELSE <<Percent, encode_hex(ch \div 16), encode_hex(ch % 16)>>

encode_uri_value(src) ==
  LET out[i \in 0 .. Len(src)] ==
        IF i = 0 THEN <<>> ELSE out[i - 1] \o EncodeChar(src[i])
  IN out[Len(src)]

\* The decoder reads a character in one of three states.
DecodeChar(s, ch) ==
  LET nibble == decode_hex(ch)
      Emit(chars) == [dst |-> s.dst \o chars, state |-> "default", first |-> 0]
  IN CASE s.state = "default" /\ ch = Percent -> [s EXCEPT !.state = "percent"]
       [] s.state = "default" /\ ch # Percent -> Emit(<<ch>>)
       [] s.state = "percent" /\ nibble = -1 -> Emit(<<Percent, ch>>)
       [] s.state = "percent" /\ nibble # -1 ->
            [s EXCEPT !.state = "first_hex", !.first = nibble]
       [] s.state = "first_hex" /\ nibble = -1 ->
            Emit(<<Percent, encode_hex(s.first), ch>>)
       [] s.state = "first_hex" /\ nibble # -1 -> Emit(<<16 * s.first + nibble>>)

MutDecodeRest(s) ==
  CASE s.state = "percent" -> <<Percent, encode_hex(s.first)>>
    [] s.state = "first_hex" -> <<Percent, encode_hex(s.first)>>
    [] OTHER -> <<>>

\* What is left when the text ends inside an escape.
DecodeRest(s) ==
  CASE s.state = "percent" -> <<Percent>>
    [] s.state = "first_hex" -> <<Percent, encode_hex(s.first)>>
    [] OTHER -> <<>>

decode_uri_value(src) ==
  LET after[i \in 0 .. Len(src)] ==
        IF i = 0 THEN [dst |-> <<>>, state |-> "default", first |-> 0]
        ELSE DecodeChar(after[i - 1], src[i])
  IN after[Len(src)].dst \o DecodeRest(after[Len(src)])

\* What is left of a text when it is read as a string again.
CString(text) ==
  LET zeros == {i \in DOMAIN text : text[i] = 0}
  IN IF zeros = {} THEN text ELSE SubSeq(text, 1, Min(zeros) - 1)

\* assert((x) < 0x7f): a char is signed, so that only 0x7f fails.
DecodeAsserts(src) ==
  \A i \in DOMAIN decode_uri_value(src) : decode_uri_value(src)[i] # 127
====
