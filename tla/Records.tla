------------------------------- MODULE Records -------------------------------
(***************************************************************************)
(* How a handshake record travels: src/smkex/src/smkexrecord.cpp makes     *)
(* bytes of it and a record of the bytes, MpMsgPayload.cpp puts the type   *)
(* of the message in front, and the receiver finds the sender once in the  *)
(* record and once in the SIP address (src/utils/src/MpUtils.cpp).  The    *)
(* other modules send records as values; this one is about their bytes.    *)
(*                                                                         *)
(* Byte values, and characters, are the numbers below Base (256).          *)
(***************************************************************************)
EXTENDS Integers, Sequences

CONSTANTS
  Base,      \* number of values of a byte
  Serial,    \* serials of the buddies, as strings
  TimeBytes, \* bytes of the timestamps that occur
  Data,      \* keys, nonces, nonces with hashes, the data of an alert
  Schema, At, Server,  \* "sip:", '@', and address, port and transport
  Bracket,   \* '<' and '>'
  None       \* no message

Byte == 0 .. Base - 1
Char == Byte \ {0}
Type == 0 .. 6   \* SMKEX_T4M_Type: handshakeKey, ..., handshake
Version == 1     \* SMKEX_T4M_PROTOCOL_VERSION
MpTypeMessage == 0  \* MP_TYPE_MESSAGE

ASSUME RecordConstantsOK ==
  /\ Base \in Nat /\ Base > 6
  /\ Serial \subseteq Seq(Char \ {At}) \ {<<>>}
  /\ TimeBytes \subseteq [1 .. 8 -> Byte]
  /\ Data \subseteq Seq(Byte)
  /\ At \in Char /\ Schema \in Seq(Char) \ {<<>>} /\ Server \in Seq(Char \ {At})
  /\ Bracket \in [{"open", "close"} -> Char \ {At}] /\ Bracket.open # Schema[1]
  \* what is sent fits the lengths of a record
  /\ \A s \in Serial \cup Data : Len(s) + 1 < Base * Base

Record == [version : Byte, timestamp : Seq(Byte), dest : Seq(Byte),
           sender : Seq(Byte), type : Byte, data : Seq(Byte)]

VARIABLES
  sent,  \* the last record sent, as its sender meant it
  wire,  \* its message: the sender's address and the body
  got    \* what the receiver made of it, or None

vars == <<sent, wire, got>>

Init == sent = None /\ wire = None /\ got = None

-----------------------------------------------------------------------------
(***************************************************************************)
(* Strings and numbers in memory.                                          *)
(***************************************************************************)
\* A C string is the text before the first zero byte; without one it runs on
\* into whatever lies behind the buffer.
CString(bytes, behind) ==
  LET text == Append(bytes, behind)
      Ends == {i \in DOMAIN text : text[i] = 0}
  IN  IF Ends = {} THEN text
      ELSE SubSeq(text, 1, (CHOOSE i \in Ends : \A j \in Ends : i <= j) - 1)

\* The number in a uint16_t, least significant byte first.
Short(n) == <<n % Base, n \div Base>>

\* A read past the end of the bytes gives whatever is there.
ByteAt(bytes, i, behind) == IF i \in DOMAIN bytes THEN bytes[i] ELSE behind
ShortAt(bytes, i, behind) ==
  ByteAt(bytes, i, behind) + Base * ByteAt(bytes, i + 1, behind)
BytesAt(bytes, i, n, behind) == [j \in 1 .. n |-> ByteAt(bytes, i + j - 1, behind)]

-----------------------------------------------------------------------------
(***************************************************************************)
(* smkexrecord.cpp.                                                        *)
(***************************************************************************)
\* Mutant of WithNul: the text only.
WithoutNul(text) == text

\* The serials are stored with the zero byte that ends them.
WithNul(text) == Append(text, 0)

GetSmkexT4mRecord2(time, dest, sender, type, data) ==
  [version |-> Version, timestamp |-> time, dest |-> WithNul(dest),
   sender |-> WithNul(sender), type |-> type, data |-> data]

SerializeSmkexT4mRecord(rec) ==
  <<rec.version>> \o rec.timestamp
    \o Short(Len(rec.dest)) \o rec.dest
    \o Short(Len(rec.sender)) \o rec.sender
    \o <<rec.type>> \o Short(Len(rec.data)) \o rec.data

\* The record, and where the last byte was read: the length of the message is
\* not known to this function.
GetRecordFromSerial(bytes, behind) ==
  LET destLen == ShortAt(bytes, 10, behind)
      s == 12 + destLen
      senderLen == ShortAt(bytes, s, behind)
      t == s + 2 + senderLen
      length == ShortAt(bytes, t + 1, behind)
  IN  [rec |-> [version |-> ByteAt(bytes, 1, behind),
                timestamp |-> BytesAt(bytes, 2, 8, behind),
                dest |-> BytesAt(bytes, 12, destLen, behind),
                sender |-> BytesAt(bytes, s + 2, senderLen, behind),
                type |-> ByteAt(bytes, t, behind),
                data |-> BytesAt(bytes, t + 3, length, behind)],
       last |-> t + 2 + length]

\* Mutant of PrintRecordExits: it knows every type.
PrintRecordNeverExits(rec) == FALSE

\* The types printRecord does not know: "handshake" ends the process.
PrintRecordExits(rec) == rec.type \notin 0 .. 5

-----------------------------------------------------------------------------
(***************************************************************************)
(* MpUtils.cpp.                                                            *)
(***************************************************************************)
GetUriFromSerial(serial) == Schema \o serial \o <<At>> \o Server

\* Mutant of GetSerialFromUri: the length is counted from the start of the URI.
GetSerialFromUriUpToEnd(uri) ==
  LET beg == CHOOSE i \in DOMAIN uri :
               /\ SubSeq(uri, i, i + Len(Schema) - 1) = Schema
               /\ \A j \in 1 .. i - 1 : SubSeq(uri, j, j + Len(Schema) - 1) # Schema
      end == CHOOSE i \in DOMAIN uri : uri[i] = At /\ \A j \in i + 1 .. Len(uri) : uri[j] # At
  IN  SubSeq(uri, beg + Len(Schema), end)

\* Between the first "sip:" and the last '@'.
GetSerialFromUri(uri) ==
  LET beg == CHOOSE i \in DOMAIN uri :
               /\ SubSeq(uri, i, i + Len(Schema) - 1) = Schema
               /\ \A j \in 1 .. i - 1 : SubSeq(uri, j, j + Len(Schema) - 1) # Schema
      end == CHOOSE i \in DOMAIN uri : uri[i] = At /\ \A j \in i + 1 .. Len(uri) : uri[j] # At
  IN  SubSeq(uri, beg + Len(Schema), end - 1)

-----------------------------------------------------------------------------
\* pjsua prints the sender's address in brackets (on_pager).
FromHeader(sender) == <<Bracket.open>> \o GetUriFromSerial(sender) \o <<Bracket.close>>

\* MpMsgPayload::setPayload: the type of the message comes first.
SetPayload(bytes) == <<MpTypeMessage>> \o bytes

\* A record is made, printed, serialised and handed to the engine, which sends
\* it on.  One of a type printRecord does not know ends the process instead.
SendRecord(sender, dest, type, time, data) ==
  LET rec == GetSmkexT4mRecord2(time, dest, sender, type, data)
  IN  /\ wire = None /\ ~PrintRecordExits(rec)
      /\ sent' = [sender |-> sender, dest |-> dest, type |-> type,
                  timestamp |-> time, data |-> data]
      /\ wire' = [from |-> FromHeader(sender),
                  body |-> SetPayload(SerializeSmkexT4mRecord(rec))]
      /\ got' = None

\* What MpMsgManager::onMsgReceived tells its callbacks.
Received == [serial |-> GetSerialFromUri(wire.from), msg |-> wire.body]

\* Smkex::onMsgReceived skips the type of the message.
OnMsgReceived(behind) ==
  /\ wire # None
  /\ LET bytes == Tail(Received.msg)
         parsed == GetRecordFromSerial(bytes, behind)
     IN  got' = [peer |-> Received.serial, rec |-> parsed.rec,
                 dest |-> CString(parsed.rec.dest, behind),
                 sender |-> CString(parsed.rec.sender, behind),
                 unread |-> Len(bytes) - parsed.last]
  /\ wire' = None
  /\ UNCHANGED sent

Next ==
  \/ \E sender, dest \in Serial, type \in Type, time \in TimeBytes, data \in Data :
       SendRecord(sender, dest, type, time, data)
  \/ \E behind \in Byte : OnMsgReceived(behind)

Spec == Init /\ [][Next]_vars

-----------------------------------------------------------------------------
(***************************************************************************)
(* Properties.                                                             *)
(***************************************************************************)
\* What is on the wire and what came out of it has its type, and no record is
\* of the type that ends the process that prints it.
TypeOK ==
  /\ wire # None => wire.body \in Seq(Byte) /\ wire.from \in Seq(Char)
  /\ got # None => got.rec \in Record /\ got.rec.type \in 0 .. 5

\* getRecordFromSerial (smkexrecord.cpp) reads the record that was sent, as the
\* strings and fields the sender meant, and exactly the bytes of its message
\* although it does not know how many there are: whatever lies behind a buffer
\* makes no difference.
RecordArrives ==
  got # None =>
    /\ got.unread = 0
    /\ got.rec.version = Version /\ got.rec.timestamp = sent.timestamp
    /\ got.dest = sent.dest /\ got.sender = sent.sender
    /\ got.rec.type = sent.type /\ got.rec.data = sent.data

\* The buddy whose session handles a record (found in the SIP address) is the
\* one who made it (named in the record), and an answer to it finds its way.
PeerIsSender ==
  got # None => got.peer = got.sender /\ GetSerialFromUri(GetUriFromSerial(got.peer)) = got.sender
=============================================================================
