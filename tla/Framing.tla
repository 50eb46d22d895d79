------------------------------ MODULE Framing ------------------------------
(***************************************************************************)
(* Bytes of DDM objects and of the DSS segments that carry them            *)
(* (internal/drda/dss.go, ddm.go).  A byte is a number below 256.  Lengths *)
(* are words whose high bit, Flag, says "continued" in a segment and       *)
(* "extended" in an object; the code has MaxSegment = 32767 for both.      *)
(***************************************************************************)
EXTENDS Integers, Sequences, SequencesExt

CONSTANTS MaxSegment,  \* the longest segment, and the longest plain length
          MaxPayload   \* the most a reader accepts in one DSS

ASSUME FramingAssumption ==
  /\ MaxSegment \in 15 .. 32767
  /\ MaxPayload \in 0 .. 2 ^ 30

Flag   == MaxSegment + 1
Magic  == \hD0
HeaderSize == 6
ContinuationSize == 2

\* DSS types, flag bits of a header.
TypeRequest == 1
TypeReply   == 2
TypeObject  == 3
ChainedBit  == \h40
SameIdBit   == \h10

\* Bytes that keep what should have gone to the byte in front of them.
BytesUnreduced(n, k) == [i \in 1 .. k |-> IF k - i > 3 THEN 0 ELSE n \div 256 ^ (k - i)]

\* Big-endian numbers of k bytes, and back.
BytesOf(n, k) == [i \in 1 .. k |-> IF k - i > 3 THEN 0 ELSE (n \div 256 ^ (k - i)) % 256]
NumberOf(bytes) == FoldLeft(LAMBDA n, b : 256 * n + b, 0, bytes)

HasFlag(word)  == (word \div Flag) % 2 = 1
LengthOf(word) == IF HasFlag(word) THEN word - Flag ELSE word

\* uint16(n), with the high bit set when flagged.
Word(n, flagged) ==
  LET word == n % (2 * Flag)
  IN  BytesOf(IF flagged /\ ~ HasFlag(word) THEN word + Flag ELSE word, 2)

-----------------------------------------------------------------------------
\* A DDM object with an extended length of extBytes bytes; with none the object
\* runs to the end of its DSS.
Extended(cp, body, extBytes) ==
  Word(4 + extBytes, TRUE) \o BytesOf(cp, 2) \o BytesOf(Len(body), extBytes) \o body

\* An object that fits exactly is not extended.  (Eight bytes of length, for more than
\* 2^31 bytes of data, are left out of the writer; the reader takes them.)
PackDDMObject(cp, body) ==
  IF Len(body) + 4 <= MaxSegment
  THEN Word(Len(body) + 4, FALSE) \o BytesOf(cp, 2) \o body
  ELSE Extended(cp, body, 4)

\* The codepoint of the object at the start of a DSS body.
CodePointOf(body) == NumberOf(SubSeq(body, 3, 4))

\* The data of that object when its length has n bytes of extension.
ExtendedData(body, n) ==
  IF n \notin 1 .. 8 \/ 4 + n > Len(body) THEN {}
  ELSE LET size == NumberOf(SubSeq(body, 5, 4 + n))
       IN  IF size > Len(body) - 4 - n THEN {} ELSE {SubSeq(body, 5 + n, 4 + n + size)}

\* readDDMObject: the set of the object's data, empty when it is rejected.
ObjectData(body) ==
  IF Len(body) < 4 THEN {}
  ELSE LET word == NumberOf(SubSeq(body, 1, 2))
           n    == LengthOf(word) - 4
       IN  IF HasFlag(word)
           THEN IF n = 0 THEN {SubSeq(body, 5, Len(body))} ELSE ExtendedData(body, n)
           ELSE IF word \in 4 .. Len(body) THEN {SubSeq(body, 5, word)} ELSE {}

-----------------------------------------------------------------------------
\* The 6-byte header of a DSS: length, magic, type with flags, correlation identifier.
Header(dss, length, continued) ==
  Word(length, continued)
    \o <<Magic, dss.type + (IF dss.chained THEN ChainedBit ELSE 0)
                         + (IF dss.sameID THEN SameIdBit ELSE 0)>>
    \o BytesOf(dss.id, 2)

\* What ReadDSS takes from such a header.
ParsedHeader(bytes) ==
  LET word == NumberOf(SubSeq(bytes, 1, 2))
      bits == bytes[4]
  IN  [continued |-> HasFlag(word), length |-> LengthOf(word), type |-> bits % 16,
       chained |-> (bits \div ChainedBit) % 2 = 1,
       sameID |-> (bits \div SameIdBit) % 2 = 1,
       id |-> NumberOf(SubSeq(bytes, 5, 6))]
=============================================================================
