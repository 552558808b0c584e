------------------------------- MODULE Query -------------------------------
(***************************************************************************)
(* Sb::Query (query.cpp): the question a lookup sends and what is read     *)
(* from the answer, with the byte order of endians.hpp.                    *)
(*                                                                         *)
(* A datagram and a name are sequences of bytes; positions count from 0,   *)
(* as in the code.  The datagram is held in a vector of MAX_PACKET_SIZE    *)
(* zeros cut to its length, so a byte past its end reads as 0.  bigEndian  *)
(* is a pointer to a function and so always true: bytes are swapped, as a  *)
(* little-endian host needs.                                               *)
(***************************************************************************)
EXTENDS Integers, Sequences, SequencesExt

Dot == 46
Npos == -1    \* std::string::npos, SIZE_MAX: one less than 0
MaxDomainLen == 64
HeaderSize == 12

(* Query::Qtype and Qclass *)
Qtype == [A |-> 1, CNAME |-> 5, AAAA |-> 28]
Internet == 1

(* networkEndian of a uint16_t to a stream, and of two bytes.              *)
NetworkEndian(d) == <<d \div 256, d % 256>>
ByteAt(data, pos) == IF pos < Len(data) THEN data[pos + 1] ELSE 0
Short(data, pos) == 256 * ByteAt(data, pos) + ByteAt(data, pos + 1)
-----------------------------------------------------------------------------
(* The question *)

(* setBits: bitLen bits of the 16-bit d, from startBitPos, become val.     *)
SetBits(d, startBitPos, bitLen, val) ==
  LET weight == 2 ^ startBitPos
      width == 2 ^ bitLen
  IN  d + weight * ((val % width) - ((d \div weight) % width))

(* In the order resolve sets them, aa last.                                *)
ReqFlags ==
  LET qr == SetBits(0, 15, 1, 0)
      opcode == SetBits(qr, 11, 4, 0)
      tc == SetBits(opcode, 9, 1, 0)
      rd == SetBits(tc, 8, 1, 1)
      ra == SetBits(rd, 7, 1, 0)
  IN  SetBits(ra, 10, 1, 0)

(* std::string::find of a dot *)
FindDot(name, from) ==
  LET dots == {i \in from .. Len(name) - 1 : name[i + 1] = Dot}
  IN  IF dots = {} THEN Npos ELSE Min(dots)

LastLabelLong(name, prevDotPos, dotPos) ==    \* mutant: the dot is counted
  IF dotPos = Npos THEN Len(name) - prevDotPos
  ELSE IF prevDotPos = 0 THEN dotPos - prevDotPos
  ELSE dotPos - prevDotPos - 1

(* getLen: the length of the label after prevDotPos.  0 stands for no dot  *)
(* yet, which the first branch overlooks: a name of one label is a byte    *)
(* short.                                                                  *)
LabelLen(name, prevDotPos, dotPos) ==
  IF dotPos = Npos THEN Len(name) - prevDotPos - 1
  ELSE IF prevDotPos = 0 THEN dotPos - prevDotPos
  ELSE dotPos - prevDotPos - 1

GetLen(name, prevDotPos) ==
  LET dotPos == FindDot(name, prevDotPos + 1)
      len == LabelLen(name, prevDotPos, dotPos)
  IN  [dotPos |-> dotPos,
       len |-> IF len >= MaxDomainLen THEN MaxDomainLen - 1 ELSE len]

(* A label's length is put before it.                                      *)
EncodeLabel(name, s) ==
  LET l == GetLen(name, s.prevDotPos)
  IN  [len |-> l.len, prevDotPos |-> l.dotPos, query |-> Append(s.query, l.len)]

(* len is what is left of the label; at 0 one byte more is taken, and none *)
(* after it.                                                               *)
EncodeByte(name, s, c) ==
  IF c = Dot THEN EncodeLabel(name, s)
  ELSE IF s.len # Npos THEN [s EXCEPT !.query = Append(@, c), !.len = @ - 1]
  ELSE s

(* encodeName: what is done after i bytes of the name.                     *)
EncodeName(name) ==
  LET encode[i \in 0 .. Len(name)] ==
        IF i = 0
        THEN EncodeLabel(name, [len |-> 0, prevDotPos |-> 0, query |-> <<>>])
        ELSE EncodeByte(name, encode[i - 1], name[i])
  IN  Append(encode[Len(name)].query, 0)

(* Query::resolve: header, name and footer.                                *)
Resolve(reqNo, name, qType) ==
  FlattenSeq([i \in 1 .. 6 |->
                NetworkEndian(<<reqNo, ReqFlags, 1, 0, 0, 0>>[i])])
  \o EncodeName(name)
  \o NetworkEndian(Qtype[qType]) \o NetworkEndian(Internet)
-----------------------------------------------------------------------------
(* The answer *)

(* decodeName, from curPos: up to a zero byte or a compression pointer.    *)
DecodeName(data, curPos) ==
  LET scan[at \in Nat \X (0 .. 255)] ==    \* from curPos, with len
        LET pos == at[1]
            len == at[2]
            byte == ByteAt(data, pos)
            dot == len = 0
            rest == scan[<<pos + 1, IF dot THEN byte ELSE len - 1>>]
        IN  IF byte = 0 \/ len >= 192    \* (len & 0xC0) == 0xC0
            THEN [name |-> <<>>, pos |-> pos + 1]
            ELSE [name |-> <<IF dot THEN Dot ELSE byte>> \o rest.name, pos |-> rest.pos]
  IN  scan[<<curPos + 1, ByteAt(data, curPos)>>]

(* decodeHeader: id, qdcount and ancount; zeros if there is no header.     *)
DecodeHeader(data) ==
  LET field(i) == IF Len(data) >= HeaderSize THEN Short(data, 2 * i) ELSE 0
  IN  [reqNo |-> field(0), qdcount |-> field(2), ancount |-> field(3)]

(* A question: its name, and decodeFooter's four bytes.                    *)
DecodeQuestion(data, reply) ==
  LET name == DecodeName(data, reply.curPos)
  IN  [reply EXCEPT !.name = name.name, !.curPos = name.pos + 4]

(* decodeAnswer's ten bytes: type, class, ttl and length.                  *)
DecodeAnswer(data, pos) ==
  [qtype |-> Short(data, pos), qclass |-> Short(data, pos + 2),
   rdlength |-> Short(data, pos + 8), curPos |-> pos + 10]

IsAddress(answer) ==
  /\ answer.qclass = Internet
  /\ \/ answer.rdlength = 4 /\ answer.qtype = Qtype.A
     \/ answer.rdlength = 16 /\ answer.qtype = Qtype.AAAA

DecodeRecordAtName(data, reply) ==    \* mutant: other records' data not skipped
  LET answer == DecodeAnswer(data, DecodeName(data, reply.curPos).pos)
      rdata == [i \in 1 .. answer.rdlength |-> ByteAt(data, answer.curPos + i - 1)]
  IN  IF IsAddress(answer)
      THEN [reply EXCEPT !.addr = Append(@, rdata),
                         !.curPos = answer.curPos + answer.rdlength]
      ELSE [reply EXCEPT !.curPos = answer.curPos]

(* A record.  The data of an address is skipped twice, so what comes after *)
(* it is read from the wrong place.                                        *)
DecodeRecord(data, reply) ==
  LET answer == DecodeAnswer(data, DecodeName(data, reply.curPos).pos)
      rdata == [i \in 1 .. answer.rdlength |-> ByteAt(data, answer.curPos + i - 1)]
  IN  IF IsAddress(answer)
      THEN [reply EXCEPT !.addr = Append(@, rdata),
                         !.curPos = answer.curPos + 2 * answer.rdlength]
      ELSE [reply EXCEPT !.curPos = answer.curPos + answer.rdlength]

(* Query::decode.  Qanswer::valid is that there is an address; the time to *)
(* live is kept by nobody.                                                 *)
Decode(data) ==
  LET header == DecodeHeader(data)
      empty == [reqNo |-> header.reqNo, name |-> <<>>, addr |-> <<>>,
                curPos |-> HeaderSize]
      asked[i \in 0 .. header.qdcount] ==
        IF i = 0 THEN empty ELSE DecodeQuestion(data, asked[i - 1])
      read[i \in 0 .. header.ancount] ==
        IF i = 0 THEN asked[header.qdcount] ELSE DecodeRecord(data, read[i - 1])
  IN  read[header.ancount]
=============================================================================
