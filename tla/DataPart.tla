------------------------------ MODULE DataPart ------------------------------
(***************************************************************************)
(* The body of a message (class DataPart) and what it is decoded to, by    *)
(* its content type: "json", "text", "multipart", "unbounded" (a multipart *)
(* type without a boundary), "none" or another one.                        *)
(*                                                                         *)
(* A message has the text of its body, its type and, if the text is a      *)
(* multipart, the parts the library finds in it: [type, text, parts].      *)
(* Multiparts within a part have no multiparts in turn (a bound).          *)
(***************************************************************************)
EXTENDS TypeConverter

CONSTANT Binary  \* the texts that have bytes that cannot be printed

Put(f, k, v) == (k :> v) @@ f

\* is_json_ and json_ of a body that has not been decoded.
Undecoded == [isJson |-> FALSE, json |-> Null]

\* asHexString, for what cannot be printed.
asHexString(text) == IF text \in Binary THEN "0x" \o text ELSE text

\* What cannot be parsed becomes the message of the exception.
parsedOrMessage(text) ==
    IF parseJsonContent(text) = {} THEN Str("parse error") ELSE CHOOSE d \in parseJsonContent(text) : TRUE

\* decodeContent, but for multiparts; without a boundary nothing is assigned.
decodeContent(text, type) ==
    CASE type = "json" -> parsedOrMessage(text)
      [] type = "text" -> Str(text)
      [] type \in {"multipart", "unbounded"} -> Null
      [] OTHER -> Str(asHexString(text))

\* fromHexString: the bytes before the first pair that is not hexadecimal are
\* written in any case, none if the length is odd.  A capital in second place
\* is taken for a negative number, whose bits cover the first place.
LowerHex == "0123456789abcdef"
UpperHex == "0123456789ABCDEF"
HexIndex(c) == {i \in 1..16 : c \in {SubSeq(LowerHex, i, i), SubSeq(UpperHex, i, i)}}
Nibble(c) == (CHOOSE i \in HexIndex(c) : TRUE) - 1
IsCapital(c) == \E i \in 11..16 : c = SubSeq(UpperHex, i, i)
ByteOf(first, second) ==
    LET covered == IF Nibble(first) % 2 = 0 THEN 14 ELSE 15
    IN  16 * (IF IsCapital(second) THEN covered ELSE Nibble(first)) + Nibble(second)
fromHexString(text) ==
    LET start == IF Len(text) >= 2 /\ SubSeq(text, 1, 2) = "0x" THEN 2 ELSE 0
        Char(i) == SubSeq(text, start + i, start + i)
        last == (Len(text) - start) \div 2
        Good(i) == HexIndex(Char(2 * i - 1)) # {} /\ HexIndex(Char(2 * i)) # {}
        written == CHOOSE n \in 0..last : /\ \A i \in 1..n : Good(i)
                                          /\ n = last \/ ~Good(n + 1)
    IN  IF Len(text) % 2 # 0 THEN {}
        ELSE {ToString([i \in 1..written |-> ByteOf(Char(2 * i - 1), Char(2 * i))])}

-----------------------------------------------------------------------------
(* MyMultipartConsumer.  It keeps the content type of an earlier part for  *)
(* one that has none.                                                      *)

Consumer(document) == [type |-> "none", count |-> 1, document |-> document]
PartField(c, name) == "multipart." \o ToString(c.count) \o "/" \o name

receiveHeader(c, part) ==
    IF part.type = "none" THEN c
    ELSE [c EXCEPT !.type = part.type, !.document = Put(@, PartField(c, "headers"), Str(part.type))]
receiveData(c, content) ==
    [c EXCEPT !.count = @ + 1, !.document = Put(@, PartField(c, "content"), content)]

InnerPart(c, part) ==
    LET h == receiveHeader(c, part) IN receiveData(h, decodeContent(part.text, h.type))

\* The parts of a part are entered in the same document, from the first number on.
OuterPart(c, part) ==
    LET h == receiveHeader(c, part)
        inner == FoldLeft(InnerPart, Consumer(h.document), part.parts)
    IN  IF h.type = "multipart" THEN receiveData([h EXCEPT !.document = inner.document], Null)
        ELSE receiveData(h, decodeContent(part.text, h.type))

decode(message) ==
    IF message.body = "" THEN Undecoded
    ELSE IF message.type = "multipart" /\ message.parts # <<>>
    THEN [isJson |-> TRUE,
          json |-> Object(FoldLeft(OuterPart, Consumer([k \in {} |-> Null]), message.parts).document)]
    ELSE [isJson |-> message.type \in {"json", "multipart"}, json |-> decodeContent(message.body, message.type)]
=============================================================================
