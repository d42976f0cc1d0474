---------------------------- MODULE RecordsProofs ----------------------------
(***************************************************************************)
(* Proofs about Records, for every size of a byte, every serial, every     *)
(* time and all data that fits a record: what getRecordFromSerial reads is *)
(* what serializeSmkexT4mRecord wrote, without a byte more, and the two    *)
(* places that name the sender agree.                                      *)
(*                                                                         *)
(* The bytes of a record are written field after field.  After each field  *)
(* the bytes written so far start the whole, so a field is found behind    *)
(* those of the fields before it.                                          *)
(***************************************************************************)
EXTENDS Records, SequenceTheorems, TLAPS

-----------------------------------------------------------------------------
(***************************************************************************)
(* Bytes and where they are found.                                         *)
(***************************************************************************)
\* p is what was written when f follows b.
Follows(p, b, f) == p = b \o f

StartsWith(w, b) == Len(b) <= Len(w) /\ \A i \in 1 .. Len(b) : w[i] = b[i]

\* Writing another field keeps what is there.
LEMMA Grows ==
  ASSUME NEW b \in Seq(Byte), NEW f \in Seq(Byte), NEW w, Follows(w, b, f)
  PROVE  /\ w \in Seq(Byte) /\ Len(w) = Len(b) + Len(f)
         /\ StartsWith(w, b)
<1>1. Len(b) \in Nat /\ Len(f) \in Nat
  BY LenProperties
<1>2. /\ w \in Seq(Byte) /\ Len(w) = Len(b) + Len(f)
      /\ \A i \in 1 .. Len(b) + Len(f) : w[i] = IF i <= Len(b) THEN b[i] ELSE f[i - Len(b)]
  BY ConcatProperties DEF Follows
<1>3. Len(b) <= Len(w) /\ \A i \in 1 .. Len(b) : w[i] = b[i]
  BY <1>1, <1>2
<1> QED
  BY <1>2, <1>3 DEF StartsWith

\* What starts the start of a sequence starts the sequence.
LEMMA StartsWithStart ==
  ASSUME NEW w \in Seq(Byte), NEW b \in Seq(Byte), NEW a \in Seq(Byte),
         StartsWith(w, b), StartsWith(b, a)
  PROVE  StartsWith(w, a)
<1>1. Len(w) \in Nat /\ Len(b) \in Nat /\ Len(a) \in Nat
  BY LenProperties
<1> QED
  BY <1>1 DEF StartsWith

\* The bytes of a field are found behind the fields before it,
LEMMA PlaceOf ==
  ASSUME NEW w \in Seq(Byte), NEW b \in Seq(Byte), NEW f \in Seq(Byte), NEW p,
         Follows(p, b, f), StartsWith(w, p), NEW behind, NEW i \in 1 .. Len(f)
  PROVE  ByteAt(w, Len(b) + i, behind) = f[i]
<1>1. Len(w) \in Nat /\ Len(b) \in Nat /\ Len(f) \in Nat /\ DOMAIN w = 1 .. Len(w)
  BY LenProperties
<1>2. Len(p) = Len(b) + Len(f) /\ p[Len(b) + i] = f[i]
  <2>1. Len(p) = Len(b) + Len(f)
        /\ \A j \in 1 .. Len(b) + Len(f) : p[j] = IF j <= Len(b) THEN b[j] ELSE f[j - Len(b)]
    BY ConcatProperties DEF Follows
  <2> QED
    BY <1>1, <2>1
<1>3. Len(p) <= Len(w) /\ \A j \in 1 .. Len(p) : w[j] = p[j]
  BY DEF StartsWith
<1> QED
  BY <1>1, <1>2, <1>3 DEF ByteAt

\* and so is the field.
LEMMA FieldAt ==
  ASSUME NEW w \in Seq(Byte), NEW b \in Seq(Byte), NEW f \in Seq(Byte), NEW p,
         Follows(p, b, f), StartsWith(w, p), NEW behind
  PROVE  BytesAt(w, Len(b) + 1, Len(f), behind) = f
<1>1. Len(b) \in Nat /\ Len(f) \in Nat /\ f \in [1 .. Len(f) -> Byte]
  BY LenProperties
<1>2. ASSUME NEW i \in 1 .. Len(f) PROVE ByteAt(w, Len(b) + 1 + i - 1, behind) = f[i]
  <2>1. ByteAt(w, Len(b) + i, behind) = f[i]
    BY PlaceOf
  <2>2. Len(b) + 1 + i - 1 = Len(b) + i
    BY <1>1
  <2> QED
    BY <2>1, <2>2
<1>3. BytesAt(w, Len(b) + 1, Len(f), behind) = [i \in 1 .. Len(f) |-> f[i]]
  BY <1>2 DEF BytesAt
<1> QED
  BY <1>1, <1>3

\* A uint16_t keeps every length there is.
LEMMA ShortIs ==
  ASSUME NEW n \in Nat, n < Base * Base
  PROVE  /\ Short(n) \in Seq(Byte) /\ Len(Short(n)) = 2
         /\ Short(n)[1] + Base * Short(n)[2] = n
<1>1. n % Base \in Byte
  BY RecordConstantsOK DEF Byte
<1>2. (n % Base) + Base * (n \div Base) = n /\ n \div Base \in Int
  BY RecordConstantsOK
<1>3. n \div Base \in Byte
  BY <1>1, <1>2, RecordConstantsOK DEF Byte
<1> QED
  BY <1>1, <1>2, <1>3 DEF Short

\* A length is found like a field.
LEMMA LengthAt ==
  ASSUME NEW w \in Seq(Byte), NEW b \in Seq(Byte), NEW n \in Nat, n < Base * Base,
         NEW p, Follows(p, b, Short(n)), StartsWith(w, p), NEW behind
  PROVE  ShortAt(w, Len(b) + 1, behind) = n
<1>1. Short(n) \in Seq(Byte) /\ Len(Short(n)) = 2 /\ Short(n)[1] + Base * Short(n)[2] = n
  BY ShortIs
<1> DEFINE f == Short(n)
<1>2. f \in Seq(Byte) /\ Follows(p, b, f)
  BY <1>1
<1> HIDE DEF f
<1>3. Len(f) = 2 /\ f[1] + Base * f[2] = n
  BY <1>1 DEF f
<1>4. Len(b) + 1 + 1 = Len(b) + 2 /\ 1 \in 1 .. Len(f) /\ 2 \in 1 .. Len(f)
  BY <1>3, LenProperties
<1>5. ByteAt(w, Len(b) + 1, behind) = f[1]
  BY <1>2, <1>4, PlaceOf
<1>6. ByteAt(w, Len(b) + 2, behind) = f[2]
  BY <1>2, <1>4, PlaceOf
<1> QED
  BY <1>3, <1>4, <1>5, <1>6 DEF ShortAt

\* One byte is a field.
LEMMA OneByte ==
  ASSUME NEW x \in Byte
  PROVE  <<x>> \in Seq(Byte) /\ Len(<<x>>) = 1 /\ <<x>>[1] = x
OBVIOUS

-----------------------------------------------------------------------------
(***************************************************************************)
(* getRecordFromSerial after serializeSmkexT4mRecord.                      *)
(***************************************************************************)
\* Every field is read back, and the last byte read is the last there is,
\* whatever lies behind it.
LEMMA ReadsBack ==
  ASSUME NEW version \in Byte, NEW time \in Seq(Byte), Len(time) = 8,
         NEW dest \in Seq(Byte), Len(dest) < Base * Base,
         NEW sender \in Seq(Byte), Len(sender) < Base * Base,
         NEW type \in Byte,
         NEW data \in Seq(Byte), Len(data) < Base * Base,
         NEW behind, NEW rec,
         rec = [version |-> version, timestamp |-> time, dest |-> dest,
                sender |-> sender, type |-> type, data |-> data]
  PROVE  /\ SerializeSmkexT4mRecord(rec) \in Seq(Byte)
         /\ GetRecordFromSerial(SerializeSmkexT4mRecord(rec), behind)
              = [rec |-> rec, last |-> Len(SerializeSmkexT4mRecord(rec))]
<1> DEFINE dl == Len(dest)
           sl == Len(sender)
           n == Len(data)
           d2 == Short(dl)
           s2 == Short(sl)
           n2 == Short(n)
           v1 == <<version>>
           t1 == <<type>>
           b2 == v1 \o time
           b3 == b2 \o d2
           b4 == b3 \o dest
           b5 == b4 \o s2
           b6 == b5 \o sender
           b7 == b6 \o t1
           b8 == b7 \o n2
           b9 == b8 \o data
<1>1. dl \in Nat /\ dl < Base * Base /\ sl \in Nat /\ sl < Base * Base
      /\ n \in Nat /\ n < Base * Base
  BY LenProperties
<1>2. /\ v1 \in Seq(Byte) /\ Len(v1) = 1 /\ v1[1] = version
      /\ t1 \in Seq(Byte) /\ Len(t1) = 1 /\ t1[1] = type
  BY OneByte
<1>3. SerializeSmkexT4mRecord(rec) = b9
  BY DEF SerializeSmkexT4mRecord
<1> HIDE DEF dl, sl, n, v1, t1
<1>4. /\ d2 \in Seq(Byte) /\ Len(d2) = 2 /\ s2 \in Seq(Byte) /\ Len(s2) = 2
      /\ n2 \in Seq(Byte) /\ Len(n2) = 2
  BY <1>1, ShortIs
<1> HIDE DEF d2, s2, n2
<1>5. /\ Follows(b2, v1, time) /\ Follows(b3, b2, d2) /\ Follows(b4, b3, dest)
      /\ Follows(b5, b4, s2) /\ Follows(b6, b5, sender) /\ Follows(b7, b6, t1)
      /\ Follows(b8, b7, n2) /\ Follows(b9, b8, data)
  BY DEF Follows
<1> HIDE DEF b2, b3, b4, b5, b6, b7, b8, b9
<1>6. b2 \in Seq(Byte) /\ Len(b2) = 9 /\ StartsWith(b2, v1)
  <2>1. b2 \in Seq(Byte) /\ Len(b2) = Len(v1) + Len(time) /\ StartsWith(b2, v1)
    BY <1>5, <1>2, Zenon, Grows
  <2> QED
    BY <1>1, <1>2, <2>1
<1>7. b3 \in Seq(Byte) /\ Len(b3) = 11 /\ StartsWith(b3, b2)
  <2>1. b3 \in Seq(Byte) /\ Len(b3) = Len(b2) + Len(d2) /\ StartsWith(b3, b2)
    BY <1>5, <1>4, <1>6, Zenon, Grows
  <2> QED
    BY <1>1, <1>4, <1>6, <2>1
<1>8. b4 \in Seq(Byte) /\ Len(b4) = 11 + dl /\ StartsWith(b4, b3)
  <2>1. b4 \in Seq(Byte) /\ Len(b4) = Len(b3) + Len(dest) /\ StartsWith(b4, b3)
    BY <1>5, <1>7, Zenon, Grows
  <2> QED
    BY <1>1, <1>7, <2>1 DEF dl
<1>9. b5 \in Seq(Byte) /\ Len(b5) = 13 + dl /\ StartsWith(b5, b4)
  <2>1. b5 \in Seq(Byte) /\ Len(b5) = Len(b4) + Len(s2) /\ StartsWith(b5, b4)
    BY <1>5, <1>4, <1>8, Zenon, Grows
  <2> QED
    BY <1>1, <1>4, <1>8, <2>1
<1>10. b6 \in Seq(Byte) /\ Len(b6) = 13 + dl + sl /\ StartsWith(b6, b5)
  <2>1. b6 \in Seq(Byte) /\ Len(b6) = Len(b5) + Len(sender) /\ StartsWith(b6, b5)
    BY <1>5, <1>9, Zenon, Grows
  <2> QED
    BY <1>1, <1>9, <2>1 DEF sl
<1>11. b7 \in Seq(Byte) /\ Len(b7) = 14 + dl + sl /\ StartsWith(b7, b6)
  <2>1. b7 \in Seq(Byte) /\ Len(b7) = Len(b6) + Len(t1) /\ StartsWith(b7, b6)
    BY <1>5, <1>2, <1>10, Zenon, Grows
  <2> QED
    BY <1>1, <1>2, <1>10, <2>1
<1>12. b8 \in Seq(Byte) /\ Len(b8) = 16 + dl + sl /\ StartsWith(b8, b7)
  <2>1. b8 \in Seq(Byte) /\ Len(b8) = Len(b7) + Len(n2) /\ StartsWith(b8, b7)
    BY <1>5, <1>4, <1>11, Zenon, Grows
  <2> QED
    BY <1>1, <1>4, <1>11, <2>1
<1>13. b9 \in Seq(Byte) /\ Len(b9) = 16 + dl + sl + n /\ StartsWith(b9, b8)
  <2>1. b9 \in Seq(Byte) /\ Len(b9) = Len(b8) + Len(data) /\ StartsWith(b9, b8)
    BY <1>5, <1>12, Zenon, Grows
  <2> QED
    BY <1>1, <1>12, <2>1 DEF n
<1>14. StartsWith(b9, b9) /\ StartsWith(b9, b8)
  BY <1>13, LenProperties DEF StartsWith
<1>15. StartsWith(b9, b7)
  BY <1>11, <1>12, <1>13, <1>14, StartsWithStart
<1>16. StartsWith(b9, b6)
  BY <1>10, <1>11, <1>13, <1>15, StartsWithStart
<1>17. StartsWith(b9, b5)
  BY <1>9, <1>10, <1>13, <1>16, StartsWithStart
<1>18. StartsWith(b9, b4)
  BY <1>8, <1>9, <1>13, <1>17, StartsWithStart
<1>19. StartsWith(b9, b3)
  BY <1>7, <1>8, <1>13, <1>18, StartsWithStart
<1>20. StartsWith(b9, b2)
  BY <1>6, <1>7, <1>13, <1>19, StartsWithStart
<1>21. StartsWith(b9, v1)
  BY <1>2, <1>6, <1>13, <1>20, StartsWithStart
<1>22. ByteAt(b9, 1, behind) = version
  BY <1>2, <1>13, <1>21, LenProperties DEF StartsWith, ByteAt
<1>23. BytesAt(b9, 2, 8, behind) = time
  <2>1. BytesAt(b9, Len(v1) + 1, Len(time), behind) = time
    <3>1. v1 \in Seq(Byte) /\ b9 \in Seq(Byte) /\ Follows(b2, v1, time) /\ StartsWith(b9, b2)
      BY <1>2, <1>5, <1>13, <1>20
    <3>2. \A f \in Seq(Byte) :
            Follows(b2, v1, f) => BytesAt(b9, Len(v1) + 1, Len(f), behind) = f
      BY <3>1, FieldAt
    <3> QED
      BY <3>1, <3>2
  <2> QED
    BY <1>2, <2>1
<1>24. ShortAt(b9, 10, behind) = dl
  <2>1. ShortAt(b9, Len(b2) + 1, behind) = dl
    BY <1>1, <1>5, <1>6, <1>13, <1>19, LengthAt DEF d2
  <2> QED
    BY <1>6, <2>1
<1>25. BytesAt(b9, 12, dl, behind) = dest
  <2>1. BytesAt(b9, Len(b3) + 1, Len(dest), behind) = dest
    <3>1. b3 \in Seq(Byte) /\ b9 \in Seq(Byte) /\ Follows(b4, b3, dest) /\ StartsWith(b9, b4)
      BY <1>5, <1>7, <1>13, <1>18
    <3> QED
      BY <3>1, FieldAt
  <2> QED
    BY <1>7, <2>1 DEF dl
<1>26. ShortAt(b9, 12 + dl, behind) = sl
  <2>1. ShortAt(b9, Len(b4) + 1, behind) = sl
    BY <1>1, <1>5, <1>8, <1>13, <1>17, LengthAt DEF s2
  <2>2. Len(b4) + 1 = 12 + dl
    BY <1>1, <1>8
  <2> QED
    BY <2>1, <2>2
<1>27. BytesAt(b9, 12 + dl + 2, sl, behind) = sender
  <2>1. BytesAt(b9, Len(b5) + 1, Len(sender), behind) = sender
    <3>1. b5 \in Seq(Byte) /\ b9 \in Seq(Byte) /\ Follows(b6, b5, sender) /\ StartsWith(b9, b6)
      BY <1>5, <1>9, <1>13, <1>16
    <3> QED
      BY <3>1, FieldAt
  <2>2. Len(b5) + 1 = 12 + dl + 2
    BY <1>1, <1>9
  <2> QED
    BY <2>1, <2>2 DEF sl
<1>28. ByteAt(b9, 12 + dl + 2 + sl, behind) = type
  <2>1. ByteAt(b9, Len(b6) + 1, behind) = type
    <3>1. 1 \in 1 .. Len(t1)
      BY <1>2
    <3>2. ByteAt(b9, Len(b6) + 1, behind) = t1[1]
      <4>1. /\ b6 \in Seq(Byte) /\ b9 \in Seq(Byte) /\ t1 \in Seq(Byte)
            /\ Follows(b7, b6, t1) /\ StartsWith(b9, b7)
        BY <1>2, <1>5, <1>10, <1>13, <1>15
      <4> QED
        BY <3>1, <4>1, PlaceOf
    <3> QED
      BY <1>2, <3>2
  <2>2. Len(b6) + 1 = 12 + dl + 2 + sl
    BY <1>1, <1>10
  <2> QED
    BY <2>1, <2>2
<1>29. ShortAt(b9, 12 + dl + 2 + sl + 1, behind) = n
  <2>1. ShortAt(b9, Len(b7) + 1, behind) = n
    BY <1>1, <1>5, <1>11, <1>13, <1>14, LengthAt DEF n2
  <2>2. Len(b7) + 1 = 12 + dl + 2 + sl + 1
    BY <1>1, <1>11
  <2> QED
    BY <2>1, <2>2
<1>30. BytesAt(b9, 12 + dl + 2 + sl + 3, n, behind) = data
  <2>1. BytesAt(b9, Len(b8) + 1, Len(data), behind) = data
    BY <1>5, <1>12, <1>13, <1>14, FieldAt
  <2>2. Len(b8) + 1 = 12 + dl + 2 + sl + 3
    BY <1>1, <1>12
  <2> QED
    BY <2>1, <2>2 DEF n
<1>31. 12 + dl + 2 + sl + 2 + n = Len(b9)
  BY <1>1, <1>13
<1>32. GetRecordFromSerial(b9, behind) = [rec |-> rec, last |-> Len(b9)]
  BY <1>22, <1>23, <1>24, <1>25, <1>26, <1>27, <1>28, <1>29, <1>30, <1>31
     DEF GetRecordFromSerial
<1> QED
  BY <1>3, <1>13, <1>32

-----------------------------------------------------------------------------
(***************************************************************************)
(* The strings: serials in records, and in SIP addresses.                  *)
(***************************************************************************)
Text == Seq(Char \ {At})

\* A string without its zero byte, whatever lies behind that.
LEMMA StringBack ==
  ASSUME NEW text \in Seq(Char), NEW behind \in Byte
  PROVE  /\ WithNul(text) \in Seq(Byte) /\ Len(WithNul(text)) = Len(text) + 1
         /\ CString(WithNul(text), behind) = text
<1>1. 0 \in Byte /\ Char \subseteq Byte /\ 0 \notin Char
  BY RecordConstantsOK DEF Byte, Char
<1>2. /\ text \in Seq(Byte) /\ Len(text) \in Nat
      /\ \A i \in 1 .. Len(text) : text[i] \in Char
  BY <1>1, ElementOfSeq, LenProperties
<1> DEFINE t == WithNul(text)
           all == Append(t, behind)
           Ends == {i \in DOMAIN all : all[i] = 0}
           n == Len(text)
<1>3. /\ t \in Seq(Byte) /\ Len(t) = n + 1
      /\ (\A i \in 1 .. n : t[i] = text[i]) /\ t[n + 1] = 0
  BY <1>1, <1>2, AppendProperties DEF WithNul
<1> HIDE DEF t
<1>4. /\ all \in Seq(Byte) /\ Len(all) = n + 2
      /\ \A i \in 1 .. n + 1 : all[i] = t[i]
  <2>1. /\ all \in Seq(Byte) /\ Len(all) = Len(t) + 1
        /\ \A i \in 1 .. Len(t) : all[i] = t[i]
    BY <1>3, AppendProperties
  <2> QED
    BY <1>2, <1>3, <2>1
<1> HIDE DEF all
<1>5. DOMAIN all = 1 .. n + 2
  BY <1>4, LenProperties
<1>6. n + 1 \in Ends /\ \A i \in Ends : n + 1 <= i
  <2>1. \A i \in 1 .. n : all[i] # 0
    BY <1>1, <1>2, <1>3, <1>4
  <2>2. all[n + 1] = 0 /\ n + 1 \in 1 .. n + 2
    BY <1>2, <1>3, <1>4
  <2> QED
    BY <1>2, <1>5, <2>1, <2>2
<1>7. Ends \subseteq Int
  BY <1>5
<1> HIDE DEF Ends
<1> DEFINE m == CHOOSE i \in Ends : \A j \in Ends : i <= j
<1>8. m = n + 1
  <2>1. \E i \in Ends : \A j \in Ends : i <= j
    BY <1>6
  <2>2. m \in Ends /\ \A j \in Ends : m <= j
    BY <2>1
  <2> HIDE DEF m
  <2>3. m <= n + 1 /\ n + 1 <= m /\ m \in Int
    BY <1>6, <1>7, <2>2
  <2> QED
    BY <1>2, <2>3
<1> HIDE DEF m
<1>9. CString(t, behind) = SubSeq(all, 1, n + 1 - 1)
  <2>1. Ends # {}
    BY <1>6
  <2>2. CString(t, behind) = SubSeq(all, 1, m - 1)
    BY <2>1, Zenon DEF CString, all, Ends, m
  <2> QED
    BY <1>8, <2>2
<1>10. SubSeq(all, 1, n) = text
  <2>1. \A i \in 1 .. n : all[i] \in Byte /\ all[i] = text[i]
    BY <1>1, <1>2, <1>3, <1>4
  <2>2. /\ SubSeq(all, 1, n) \in Seq(Byte)
        /\ Len(SubSeq(all, 1, n)) = IF 1 <= n THEN n - 1 + 1 ELSE 0
        /\ \A i \in 1 .. n - 1 + 1 : SubSeq(all, 1, n)[i] = all[1 + i - 1]
    BY <1>2, <2>1, SubSeqProperties
  <2> DEFINE s == SubSeq(all, 1, n)
  <2>3. s \in Seq(Byte) /\ Len(s) = n /\ \A i \in 1 .. n : s[i] = text[i]
    BY <1>2, <2>1, <2>2
  <2> HIDE DEF s
  <2>4. s = text
    BY <1>2, <2>3, SeqEqual
  <2> QED
    BY <2>4 DEF s
<1>11. n + 1 - 1 = n
  BY <1>2
<1> QED
  BY <1>3, <1>9, <1>10, <1>11 DEF t

\* The first "sip:" and the last '@' enclose the serial.
LEMMA SerialBetween ==
  ASSUME NEW uri \in Seq(Char), NEW serial \in Seq(Char), NEW before \in {0, 1},
         NEW tail \in Nat,
         Len(uri) = before + Len(Schema) + Len(serial) + 1 + tail,
         \A i \in 1 .. Len(Schema) : uri[before + i] = Schema[i],
         \A i \in 1 .. Len(serial) : uri[before + Len(Schema) + i] = serial[i],
         uri[before + Len(Schema) + Len(serial) + 1] = At,
         \A i \in 1 .. tail : uri[before + Len(Schema) + Len(serial) + 1 + i] # At,
         before = 1 => uri[1] # Schema[1]
  PROVE  GetSerialFromUri(uri) = serial
<1> DEFINE k == Len(Schema)
           n == Len(serial)
           Starts(i) == SubSeq(uri, i, i + k - 1) = Schema
           beg == CHOOSE i \in DOMAIN uri : Starts(i) /\ \A j \in 1 .. i - 1 : ~Starts(j)
           end == CHOOSE i \in DOMAIN uri :
                    uri[i] = At /\ \A j \in i + 1 .. Len(uri) : uri[j] # At
<1>1. /\ k \in Nat /\ k # 0 /\ n \in Nat /\ Schema \in Seq(Char)
      /\ DOMAIN uri = 1 .. Len(uri)
      /\ \A i \in 1 .. Len(uri) : uri[i] \in Char
  BY RecordConstantsOK, LenProperties, ElementOfSeq, EmptySeq
<1>2. Starts(before + 1) /\ \A j \in 1 .. before : ~Starts(j)
  <2>1. Starts(before + 1)
    <3> DEFINE s == SubSeq(uri, before + 1, before + 1 + k - 1)
    <3>1. \A i \in before + 1 .. before + 1 + k - 1 : uri[i] \in Char
      BY <1>1
    <3>2. s \in Seq(Char) /\ Len(s) = k /\ \A i \in 1 .. k : s[i] = uri[before + 1 + i - 1]
      <4>1. before + 1 \in Int /\ before + 1 + k - 1 \in Int
        BY <1>1
      <4> DEFINE a == before + 1
                 b == before + 1 + k - 1
      <4>2. s = SubSeq(uri, a, b) /\ a \in Int /\ b \in Int /\ b - a + 1 = k /\ a <= b
            /\ \A i \in a .. b : uri[i] \in Char
        BY <1>1, <3>1, <4>1
      <4> HIDE DEF a, b, s
      <4>3. /\ s \in Seq(Char) /\ Len(s) = IF a <= b THEN b - a + 1 ELSE 0
            /\ \A i \in 1 .. b - a + 1 : s[i] = uri[a + i - 1]
        BY <4>2, SubSeqProperties
      <4> QED
        BY <4>2, <4>3 DEF a
    <3> HIDE DEF s
    <3>3. \A i \in 1 .. k : s[i] = Schema[i]
      <4> TAKE i \in 1 .. k
      <4>1. before + 1 + i - 1 = before + i
        BY <1>1
      <4> QED
        BY <3>2, <4>1
    <3>4. s = Schema
      BY <1>1, <3>2, <3>3, SeqEqual
    <3> QED
      BY <3>4 DEF s
  <2>2. before = 1 => ~Starts(1)
    <3> SUFFICES ASSUME before = 1, Starts(1) PROVE FALSE
      OBVIOUS
    <3>1. \A i \in 1 .. k : uri[i] \in Char
      BY <1>1
    <3> DEFINE s == SubSeq(uri, 1, k)
    <3>2. \A i \in 1 .. k - 1 + 1 : s[i] = uri[1 + i - 1]
      BY <1>1, <3>1, SubSeqProperties
    <3>3. 1 + k - 1 = k
      BY <1>1
    <3>4. SubSeq(uri, 1, 1 + k - 1) = Schema
      OBVIOUS
    <3>5. s = Schema
      BY <3>3, <3>4
    <3> HIDE DEF s
    <3>6. s[1] = uri[1]
      BY <1>1, <3>2
    <3>7. Schema[1] = uri[1]
      BY <3>5, <3>6
    <3> QED
      BY <3>7
  <2> HIDE DEF Starts
  <2>3. CASE before = 0
    BY <2>1, <2>3
  <2>4. CASE before = 1
    <3>1. \A j \in 1 .. before : j = 1
      BY <2>4
    <3> QED
      BY <2>1, <2>2, <2>4, <3>1
  <2> QED
    BY <2>3, <2>4
<1> HIDE DEF Starts
<1>3. beg = before + 1
  <2>1. before + 1 \in DOMAIN uri
    BY <1>1
  <2>2. before + 1 - 1 = before
    OBVIOUS
  <2>3. \E i \in DOMAIN uri : Starts(i) /\ \A j \in 1 .. i - 1 : ~Starts(j)
    BY <1>2, <2>1, <2>2
  <2>4. beg \in DOMAIN uri /\ Starts(beg) /\ \A j \in 1 .. beg - 1 : ~Starts(j)
    BY <2>3
  <2> HIDE DEF beg
  <2>5. beg \in Int /\ beg >= 1 /\ before + 1 \in Int
    BY <1>1, <2>4
  <2>6. ~(beg < before + 1)
    BY <1>2, <2>4, <2>5
  <2>7. ~(before + 1 < beg)
    BY <1>2, <2>4, <2>5
  <2> QED
    BY <2>5, <2>6, <2>7
<1>4. end = before + k + n + 1
  <2> DEFINE e == before + k + n + 1
  <2>1. e \in DOMAIN uri /\ uri[e] = At /\ e \in Int /\ Len(uri) = e + tail
    BY <1>1
  <2>2. \A j \in e + 1 .. Len(uri) : uri[j] # At
    <3>1. \A i \in 1 .. tail : uri[e + i] # At
      OBVIOUS
    <3> HIDE DEF e
    <3> TAKE j \in e + 1 .. Len(uri)
    <3>2. j - e \in 1 .. tail /\ e + (j - e) = j
      BY <2>1
    <3> QED
      BY <3>1, <3>2
  <2> HIDE DEF e
  <2>3. end \in DOMAIN uri /\ uri[end] = At /\ \A j \in end + 1 .. Len(uri) : uri[j] # At
    BY <2>1, <2>2
  <2> HIDE DEF end
  <2>4. end \in Int /\ end <= Len(uri) /\ e <= Len(uri) /\ Len(uri) \in Nat
    BY <1>1, <2>1, <2>3
  <2>5. ~(end < e) /\ ~(e < end)
    BY <2>1, <2>2, <2>3, <2>4
  <2>6. end = e
    BY <2>1, <2>4, <2>5
  <2> QED
    BY <2>6 DEF e
<1>5. GetSerialFromUri(uri) = SubSeq(uri, beg + k, end - 1)
  BY Zenon DEF GetSerialFromUri, Starts
<1> HIDE DEF beg, end
<1> DEFINE a == before + 1 + k
           b == before + k + n
           s == SubSeq(uri, a, b)
<1>6. GetSerialFromUri(uri) = s
  <2>1. beg + k = a /\ end - 1 = b
    BY <1>1, <1>3, <1>4
  <2> HIDE DEF a, b
  <2> QED
    BY <1>5, <2>1
<1>7. s \in Seq(Char) /\ Len(s) = n /\ \A i \in 1 .. n : s[i] = serial[i]
  <2>1. a \in Int /\ b \in Int /\ b - a + 1 = n /\ (\A i \in a .. b : uri[i] \in Char)
        /\ (IF a <= b THEN b - a + 1 ELSE 0) = n
    BY <1>1
  <2>2. \A i \in 1 .. n : uri[a + i - 1] = serial[i]
    <3> TAKE i \in 1 .. n
    <3>1. a + i - 1 = before + k + i
      BY <1>1
    <3> HIDE DEF a
    <3> QED
      BY <3>1
  <2> HIDE DEF a, b, s
  <2>3. s = SubSeq(uri, a, b)
    BY DEF s
  <2>4. s \in Seq(Char) /\ Len(s) = (IF a <= b THEN b - a + 1 ELSE 0)
        /\ \A i \in 1 .. b - a + 1 : s[i] = uri[a + i - 1]
    BY <2>1, <2>3, SubSeqProperties
  <2> QED
    BY <2>1, <2>2, <2>4
<1> HIDE DEF s
<1> QED
  BY <1>6, <1>7, SeqEqual

\* uri has the serial between the first "sip:", behind one byte at most, and the
\* last '@'.
Encloses(uri, before, serial, tail) ==
  /\ uri \in Seq(Char) /\ serial \in Seq(Char) /\ before \in {0, 1} /\ tail \in Nat
  /\ Len(uri) = before + Len(Schema) + Len(serial) + 1 + tail
  /\ \A i \in 1 .. Len(Schema) : uri[before + i] = Schema[i]
  /\ \A i \in 1 .. Len(serial) : uri[before + Len(Schema) + i] = serial[i]
  /\ uri[before + Len(Schema) + Len(serial) + 1] = At
  /\ \A i \in 1 .. tail : uri[before + Len(Schema) + Len(serial) + 1 + i] # At
  /\ before = 1 => uri[1] # Schema[1]

\* The same, said of such an address.
LEMMA EnclosedIsFound ==
  ASSUME NEW uri, NEW before, NEW serial, NEW tail, Encloses(uri, before, serial, tail)
  PROVE  GetSerialFromUri(uri) = serial
<1>1. /\ uri \in Seq(Char) /\ serial \in Seq(Char) /\ before \in {0, 1} /\ tail \in Nat
      /\ Len(uri) = before + Len(Schema) + Len(serial) + 1 + tail
      /\ \A i \in 1 .. Len(Schema) : uri[before + i] = Schema[i]
      /\ \A i \in 1 .. Len(serial) : uri[before + Len(Schema) + i] = serial[i]
      /\ uri[before + Len(Schema) + Len(serial) + 1] = At
      /\ \A i \in 1 .. tail : uri[before + Len(Schema) + Len(serial) + 1 + i] # At
      /\ before = 1 => uri[1] # Schema[1]
  BY DEF Encloses
<1> QED
  BY <1>1, SerialBetween, Zenon

\* The address of a serial, piece by piece.
LEMMA UriIs ==
  ASSUME NEW serial \in Text, NEW uri, uri = GetUriFromSerial(serial)
  PROVE  /\ uri \in Seq(Char)
         /\ Len(uri) = Len(Schema) + Len(serial) + 1 + Len(Server)
         /\ \A i \in 1 .. Len(Schema) : uri[i] = Schema[i]
         /\ \A i \in 1 .. Len(serial) : uri[Len(Schema) + i] = serial[i]
         /\ uri[Len(Schema) + Len(serial) + 1] = At
         /\ \A i \in 1 .. Len(Server) : uri[Len(Schema) + Len(serial) + 1 + i] # At
<1> DEFINE k == Len(Schema)
           n == Len(serial)
           m == Len(Server)
           at == <<At>>
           u1 == Schema \o serial
           u2 == u1 \o at
           u3 == u2 \o Server
<1>1. /\ Schema \in Seq(Char) /\ serial \in Seq(Char) /\ Server \in Seq(Char)
      /\ at \in Seq(Char) /\ Len(at) = 1 /\ at[1] = At
      /\ k \in Nat /\ n \in Nat /\ m \in Nat
      /\ \A i \in 1 .. m : Server[i] # At
  <2>1. Server \in Seq(Char \ {At}) /\ Schema \in Seq(Char) /\ At \in Char
    BY RecordConstantsOK
  <2>2. serial \in Seq(Char) /\ Server \in Seq(Char)
    BY <2>1, SeqMonotonic DEF Text
  <2>3. \A i \in 1 .. m : Server[i] \in Char \ {At}
    BY <2>1, ElementOfSeq
  <2> QED
    BY <2>1, <2>2, <2>3, LenProperties
<1>2. uri = u3
  BY DEF GetUriFromSerial
<1> HIDE DEF at
<1>3. /\ u1 \in Seq(Char) /\ Len(u1) = k + n
      /\ \A i \in 1 .. k + n : u1[i] = IF i <= k THEN Schema[i] ELSE serial[i - k]
  BY <1>1, ConcatProperties
<1> HIDE DEF u1, k, n, m
<1>4. /\ u2 \in Seq(Char) /\ Len(u2) = k + n + 1
      /\ \A i \in 1 .. k + n + 1 : u2[i] = IF i <= k + n THEN u1[i] ELSE at[i - (k + n)]
  <2>1. /\ u2 \in Seq(Char) /\ Len(u2) = Len(u1) + Len(at)
        /\ \A i \in 1 .. Len(u1) + Len(at) :
             u2[i] = IF i <= Len(u1) THEN u1[i] ELSE at[i - Len(u1)]
    BY <1>1, <1>3, ConcatProperties
  <2> QED
    BY <1>1, <1>3, <2>1
<1> HIDE DEF u2
<1>5. /\ u3 \in Seq(Char) /\ Len(u3) = k + n + 1 + m
      /\ \A i \in 1 .. k + n + 1 + m :
           u3[i] = IF i <= k + n + 1 THEN u2[i] ELSE Server[i - (k + n + 1)]
  <2>1. /\ u3 \in Seq(Char) /\ Len(u3) = Len(u2) + Len(Server)
        /\ \A i \in 1 .. Len(u2) + Len(Server) :
             u3[i] = IF i <= Len(u2) THEN u2[i] ELSE Server[i - Len(u2)]
    BY <1>1, <1>4, ConcatProperties
  <2> QED
    BY <1>4, <2>1 DEF m
<1> HIDE DEF u3
<1>6. \A i \in 1 .. k : u3[i] = Schema[i]
  BY <1>1, <1>3, <1>4, <1>5
<1>7. \A i \in 1 .. n : u3[k + i] = serial[i]
  BY <1>1, <1>3, <1>4, <1>5
<1>8. u3[k + n + 1] = At
  BY <1>1, <1>4, <1>5
<1>9. \A i \in 1 .. m : u3[k + n + 1 + i] # At
  BY <1>1, <1>5
<1> QED
  BY <1>2, <1>5, <1>6, <1>7, <1>8, <1>9 DEF k, n, m

\* The serial is found in its address, with and without the brackets of a header.
LEMMA AddressBack ==
  ASSUME NEW serial \in Text
  PROVE  /\ GetSerialFromUri(GetUriFromSerial(serial)) = serial
         /\ FromHeader(serial) \in Seq(Char)
         /\ GetSerialFromUri(FromHeader(serial)) = serial
<1> DEFINE uri == GetUriFromSerial(serial)
           k == Len(Schema)
           n == Len(serial)
           m == Len(Server)
<1>1. /\ uri \in Seq(Char) /\ Len(uri) = k + n + 1 + m
      /\ \A i \in 1 .. k : uri[i] = Schema[i]
      /\ \A i \in 1 .. n : uri[k + i] = serial[i]
      /\ uri[k + n + 1] = At
      /\ \A i \in 1 .. m : uri[k + n + 1 + i] # At
  BY UriIs
<1>2. /\ k \in Nat /\ n \in Nat /\ m \in Nat /\ k # 0 /\ serial \in Seq(Char)
      /\ Bracket.open \in Char /\ Bracket.close \in Char /\ Bracket.close # At
      /\ Bracket.open # Schema[1]
  <2>1. Server \in Seq(Char \ {At}) /\ Schema \in Seq(Char) /\ Schema # <<>>
        /\ Bracket \in [{"open", "close"} -> Char \ {At}] /\ Bracket.open # Schema[1]
    BY RecordConstantsOK
  <2>2. serial \in Seq(Char)
    BY SeqMonotonic DEF Text
  <2> QED
    BY <2>1, <2>2, LenProperties, EmptySeq
<1> HIDE DEF uri
<1>3. GetSerialFromUri(uri) = serial
  <2> DEFINE before == 0
  <2>1. /\ Len(uri) = before + k + n + 1 + m
        /\ \A i \in 1 .. k : before + i = i
        /\ \A i \in 1 .. n : before + k + i = k + i
        /\ before + k + n + 1 = k + n + 1
        /\ \A i \in 1 .. m : before + k + n + 1 + i = k + n + 1 + i
    BY <1>1, <1>2
  <2>2. before \in {0, 1} /\ before # 1
    OBVIOUS
  <2> HIDE DEF before
  <2>3. /\ \A i \in 1 .. k : uri[before + i] = Schema[i]
        /\ \A i \in 1 .. n : uri[before + k + i] = serial[i]
        /\ uri[before + k + n + 1] = At
        /\ \A i \in 1 .. m : uri[before + k + n + 1 + i] # At
    BY <1>1, <2>1
  <2>4. Encloses(uri, before, serial, m)
    BY <1>1, <1>2, <2>1, <2>2, <2>3 DEF Encloses
  <2> QED
    BY <2>4, EnclosedIsFound
<1> DEFINE open == <<Bracket.open>>
           close == <<Bracket.close>>
           h1 == open \o uri
           h == h1 \o close
<1>4. /\ open \in Seq(Char) /\ Len(open) = 1 /\ open[1] # Schema[1]
      /\ close \in Seq(Char) /\ Len(close) = 1 /\ close[1] # At
  BY <1>2
<1>5. FromHeader(serial) = h
  BY DEF FromHeader, uri
<1> HIDE DEF open, close, k, n, m
<1>6. /\ h1 \in Seq(Char) /\ Len(h1) = 1 + Len(uri)
      /\ \A i \in 1 .. 1 + Len(uri) : h1[i] = IF i <= 1 THEN open[i] ELSE uri[i - 1]
  <2>1. /\ h1 \in Seq(Char) /\ Len(h1) = Len(open) + Len(uri)
        /\ \A i \in 1 .. Len(open) + Len(uri) :
             h1[i] = IF i <= Len(open) THEN open[i] ELSE uri[i - Len(open)]
    <3>1. uri \in Seq(Char) /\ open \in Seq(Char)
      BY <1>1, <1>4
    <3> QED
      BY <3>1, ConcatProperties
  <2> HIDE DEF h1
  <2> QED
    BY <1>4, <2>1
<1> HIDE DEF h1
<1>7. /\ h \in Seq(Char) /\ Len(h) = 2 + Len(uri)
      /\ \A i \in 1 .. 2 + Len(uri) :
           h[i] = IF i <= 1 + Len(uri) THEN h1[i] ELSE close[i - (1 + Len(uri))]
  <2>1. /\ h \in Seq(Char) /\ Len(h) = Len(h1) + Len(close)
        /\ \A i \in 1 .. Len(h1) + Len(close) :
             h[i] = IF i <= Len(h1) THEN h1[i] ELSE close[i - Len(h1)]
    BY <1>4, <1>6, ConcatProperties
  <2>2. Len(h1) + Len(close) = 2 + Len(uri)
    BY <1>1, <1>2, <1>4, <1>6
  <2> QED
    BY <1>6, <2>1, <2>2
<1> HIDE DEF h
<1>8. /\ h[1] # Schema[1]
      /\ \A i \in 1 .. Len(uri) : h[1 + i] = uri[i]
      /\ h[2 + Len(uri)] # At
  BY <1>1, <1>2, <1>4, <1>6, <1>7
<1>9. GetSerialFromUri(h) = serial
  <2> DEFINE before == 1
             tail == m + 1
  <2>1. /\ Len(h) = before + k + n + 1 + tail /\ tail \in Nat
    <3>1. Len(h) = 2 + Len(uri) /\ Len(uri) = k + n + 1 + m
      BY <1>1, <1>7
    <3>2. k \in Nat /\ n \in Nat /\ m \in Nat
      BY <1>2
    <3> QED
      BY <3>1, <3>2
  <2>2. before \in {0, 1} /\ h[1] # Schema[1]
    BY <1>8
  <2>3. /\ \A i \in 1 .. k : h[before + i] = Schema[i]
        /\ h[before + k + n + 1] = At
    BY <1>1, <1>2, <1>8
  <2>4. \A i \in 1 .. n : h[before + k + i] = serial[i]
    <3> TAKE i \in 1 .. n
    <3>1. k + i \in 1 .. Len(uri) /\ before + k + i = 1 + (k + i)
      BY <1>1, <1>2
    <3> QED
      BY <1>1, <1>8, <3>1
  <2>5. \A i \in 1 .. tail : h[before + k + n + 1 + i] # At
    <3> TAKE i \in 1 .. tail
    <3>1. CASE i = m + 1
      <4>1. before + k + n + 1 + i = 2 + Len(uri)
        BY <1>1, <1>2, <3>1
      <4> QED
        BY <1>8, <4>1
    <3>2. CASE i # m + 1
      <4>1. i \in 1 .. m /\ k + n + 1 + i \in 1 .. Len(uri)
            /\ before + k + n + 1 + i = 1 + (k + n + 1 + i)
        BY <1>1, <1>2, <3>2
      <4> QED
        BY <1>1, <1>8, <4>1
    <3> QED
      BY <3>1, <3>2
  <2> HIDE DEF before, tail
  <2>6. Encloses(h, before, serial, tail)
    BY <1>2, <1>7, <2>1, <2>2, <2>3, <2>4, <2>5 DEF Encloses, k, n
  <2> QED
    BY <2>6, EnclosedIsFound
<1> QED
  BY <1>3, <1>5, <1>7, <1>9 DEF uri

-----------------------------------------------------------------------------
(***************************************************************************)
(* A message and what its receiver makes of it.                            *)
(***************************************************************************)
RecordOf(sender, dest, type, time, data) ==
  GetSmkexT4mRecord2(time, dest, sender, type, data)

MessageOf(sender, dest, type, time, data) ==
  [from |-> FromHeader(sender),
   body |-> SetPayload(SerializeSmkexT4mRecord(RecordOf(sender, dest, type, time, data)))]

MeantBy(sender, dest, type, time, data) ==
  [sender |-> sender, dest |-> dest, type |-> type, timestamp |-> time, data |-> data]

\* The message is on the wire as long as it is not received, of a type
\* printRecord knows: nothing else ever comes.
Posted ==
  wire # None =>
    \E sender, dest \in Serial, type \in 0 .. 5, time \in TimeBytes, data \in Data :
      /\ sent = MeantBy(sender, dest, type, time, data)
      /\ wire = MessageOf(sender, dest, type, time, data)

GotTyped == got # None => got.rec \in Record /\ got.rec.type \in 0 .. 5

Delivered == Posted /\ GotTyped /\ RecordArrives /\ PeerIsSender

\* The type of the message, which the payload starts with, is skipped.
LEMMA PayloadBack ==
  ASSUME NEW bytes \in Seq(Byte)
  PROVE  SetPayload(bytes) \in Seq(Byte) /\ Tail(SetPayload(bytes)) = bytes
<1> DEFINE f == <<MpTypeMessage>>
           p == f \o bytes
<1>1. MpTypeMessage \in Byte
  BY RecordConstantsOK DEF MpTypeMessage, Byte
<1>2. f \in Seq(Byte) /\ Len(f) = 1
  BY <1>1
<1> HIDE DEF f
<1>3. /\ p \in Seq(Byte) /\ Len(p) = 1 + Len(bytes)
      /\ \A i \in 1 .. 1 + Len(bytes) : p[i] = IF i <= 1 THEN f[i] ELSE bytes[i - 1]
  <2>1. /\ p \in Seq(Byte) /\ Len(p) = Len(f) + Len(bytes)
        /\ \A i \in 1 .. Len(f) + Len(bytes) :
             p[i] = IF i <= Len(f) THEN f[i] ELSE bytes[i - Len(f)]
    BY <1>2, ConcatProperties
  <2> HIDE DEF p
  <2> QED
    BY <1>2, <2>1
<1> HIDE DEF p
<1>4. Len(bytes) \in Nat /\ p # <<>>
  BY <1>3, LenProperties
<1>5. Tail(p) \in Seq(Byte) /\ Len(Tail(p)) = Len(bytes)
      /\ \A i \in 1 .. Len(bytes) : Tail(p)[i] = p[i + 1]
  BY <1>3, <1>4, HeadTailProperties
<1>6. \A i \in 1 .. Len(bytes) : Tail(p)[i] = bytes[i]
  BY <1>3, <1>4, <1>5
<1>7. Tail(p) = bytes
  BY <1>5, <1>6, SeqEqual
<1> QED
  BY <1>3, <1>7 DEF SetPayload, p, f

\* The record has its type, its serials read as they were given, and its bytes
\* give it back.
Readable(rec, sender, dest, type, time, data, behind) ==
  /\ rec \in Record
  /\ rec.version = Version /\ rec.timestamp = time
  /\ rec.type = type /\ rec.data = data
  /\ CString(rec.dest, behind) = dest /\ CString(rec.sender, behind) = sender
  /\ SerializeSmkexT4mRecord(rec) \in Seq(Byte)
  /\ GetRecordFromSerial(SerializeSmkexT4mRecord(rec), behind)
       = [rec |-> rec, last |-> Len(SerializeSmkexT4mRecord(rec))]

\* Every record that is sent can be read.
LEMMA RecordBack ==
  ASSUME NEW sender \in Serial, NEW dest \in Serial, NEW type \in 0 .. 5,
         NEW time \in TimeBytes, NEW data \in Data, NEW behind \in Byte
  PROVE  Readable(RecordOf(sender, dest, type, time, data),
                  sender, dest, type, time, data, behind)
<1> DEFINE rec == RecordOf(sender, dest, type, time, data)
           d == WithNul(dest)
           s == WithNul(sender)
<1>1. /\ sender \in Text /\ dest \in Text
      /\ Len(sender) + 1 < Base * Base /\ Len(dest) + 1 < Base * Base
  BY RecordConstantsOK DEF Text
<1>2. sender \in Seq(Char) /\ dest \in Seq(Char)
  BY <1>1, SeqMonotonic DEF Text
<1>3. d \in Seq(Byte) /\ Len(d) < Base * Base /\ CString(d, behind) = dest
  BY <1>1, <1>2, StringBack
<1>4. s \in Seq(Byte) /\ Len(s) < Base * Base /\ CString(s, behind) = sender
  BY <1>1, <1>2, StringBack
<1>5. time \in Seq(Byte) /\ Len(time) = 8
  <2>1. time \in [1 .. 8 -> Byte]
    BY RecordConstantsOK
  <2>2. time \in Seq(Byte)
    BY <2>1, SeqDef
  <2>3. Len(time) \in Nat /\ DOMAIN time = 1 .. Len(time) /\ DOMAIN time = 1 .. 8
    BY <2>1, <2>2, LenProperties
  <2>4. Len(time) = 8
    <3> DEFINE n == Len(time)
    <3>1. n \in Nat /\ 1 .. n = 1 .. 8
      BY <2>3
    <3> HIDE DEF n
    <3>2. n = 8
      BY <3>1
    <3> QED
      BY <3>2 DEF n
  <2> QED
    BY <2>2, <2>4
<1>6. data \in Seq(Byte) /\ Len(data) < Base * Base
  <2>1. data \in Seq(Byte) /\ Len(data) + 1 < Base * Base
    BY RecordConstantsOK
  <2>2. Len(data) \in Nat /\ Base * Base \in Nat
    BY <2>1, LenProperties, RecordConstantsOK
  <2> QED
    BY <2>1, <2>2
<1>7. Version \in Byte /\ type \in Byte
  <2>1. Base \in Nat /\ Base > 6
    BY RecordConstantsOK
  <2> QED
    BY <2>1 DEF Version, Byte
<1>8. rec = [version |-> Version, timestamp |-> time, dest |-> d,
             sender |-> s, type |-> type, data |-> data]
  BY DEF RecordOf, GetSmkexT4mRecord2
<1> HIDE DEF d, s, rec
<1>9. /\ SerializeSmkexT4mRecord(rec) \in Seq(Byte)
      /\ GetRecordFromSerial(SerializeSmkexT4mRecord(rec), behind)
           = [rec |-> rec, last |-> Len(SerializeSmkexT4mRecord(rec))]
  <2> DEFINE v == Version
  <2>1. v \in Byte /\ rec = [version |-> v, timestamp |-> time, dest |-> d,
                             sender |-> s, type |-> type, data |-> data]
    BY <1>7, <1>8
  <2> HIDE DEF v
  <2> QED
    BY <1>3, <1>4, <1>5, <1>6, <1>7, <2>1, ReadsBack
<1>10. rec \in Record
  BY <1>3, <1>4, <1>5, <1>6, <1>7, <1>8 DEF Record
<1> QED
  BY <1>3, <1>4, <1>8, <1>9, <1>10 DEF Readable, rec

-----------------------------------------------------------------------------
(***************************************************************************)
(* Init and Next.                                                          *)
(***************************************************************************)
\* Nothing is on the wire at first.
LEMMA InitDelivered == Init => Delivered
BY DEF Init, Delivered, Posted, GotTyped, RecordArrives, PeerIsSender

\* Only the process that does not end at printing a record sends it.
LEMMA SendRecordDelivered ==
  ASSUME NEW sender \in Serial, NEW dest \in Serial, NEW type \in Type,
         NEW time \in TimeBytes, NEW data \in Data,
         SendRecord(sender, dest, type, time, data)
  PROVE  Delivered'
<1>1. type \in 0 .. 5
  BY DEF SendRecord, PrintRecordExits, GetSmkexT4mRecord2
<1>2. /\ sent' = MeantBy(sender, dest, type, time, data)
      /\ wire' = MessageOf(sender, dest, type, time, data)
      /\ got' = None
  BY DEF SendRecord, MeantBy, MessageOf, RecordOf
<1>3. Posted'
  BY <1>1, <1>2 DEF Posted
<1>4. GotTyped' /\ RecordArrives' /\ PeerIsSender'
  BY <1>2 DEF GotTyped, RecordArrives, PeerIsSender
<1> QED
  BY <1>3, <1>4 DEF Delivered

\* The record read is the one sent, and the address names who made it.
LEMMA OnMsgReceivedDelivered ==
  ASSUME Posted, NEW behind \in Byte, OnMsgReceived(behind)
  PROVE  Delivered'
<1>1. wire # None /\ wire' = None /\ sent' = sent
  BY DEF OnMsgReceived
<1>2. PICK sender \in Serial, dest \in Serial, type \in 0 .. 5,
           time \in TimeBytes, data \in Data :
        /\ sent = MeantBy(sender, dest, type, time, data)
        /\ wire = MessageOf(sender, dest, type, time, data)
  BY <1>1 DEF Posted
<1> DEFINE rec == RecordOf(sender, dest, type, time, data)
           bytes == SerializeSmkexT4mRecord(rec)
           w == MessageOf(sender, dest, type, time, data)
<1>3. /\ rec \in Record /\ rec.version = Version /\ rec.timestamp = time
      /\ rec.type = type /\ rec.data = data
      /\ CString(rec.dest, behind) = dest /\ CString(rec.sender, behind) = sender
      /\ bytes \in Seq(Byte)
      /\ GetRecordFromSerial(bytes, behind) = [rec |-> rec, last |-> Len(bytes)]
  <2>1. Readable(rec, sender, dest, type, time, data, behind)
    BY RecordBack
  <2> HIDE DEF rec
  <2> QED
    BY <2>1 DEF Readable
<1>4. w.from = FromHeader(sender) /\ w.body = SetPayload(bytes)
  BY DEF MessageOf
<1> HIDE DEF rec, bytes, w
<1>5. wire = w
  BY <1>2 DEF w
<1>6. Received.serial = sender /\ Tail(Received.msg) = bytes
  <2>1. sender \in Text
    BY RecordConstantsOK DEF Text
  <2>2. GetSerialFromUri(FromHeader(sender)) = sender
    BY <2>1, AddressBack
  <2>3. Tail(SetPayload(bytes)) = bytes
    BY <1>3, PayloadBack
  <2> QED
    BY <1>4, <1>5, <2>2, <2>3 DEF Received
<1>7. got' = [peer |-> sender, rec |-> rec, dest |-> dest, sender |-> sender, unread |-> 0]
  <2> DEFINE parsed == GetRecordFromSerial(Tail(Received.msg), behind)
  <2>1. got' = [peer |-> Received.serial, rec |-> parsed.rec,
                dest |-> CString(parsed.rec.dest, behind),
                sender |-> CString(parsed.rec.sender, behind),
                unread |-> Len(Tail(Received.msg)) - parsed.last]
    BY DEF OnMsgReceived
  <2>2. parsed = [rec |-> rec, last |-> Len(bytes)]
    BY <1>3, <1>6
  <2>3. parsed.rec = rec /\ parsed.last = Len(bytes)
    BY <2>2
  <2> HIDE DEF parsed
  <2>4. Len(Tail(Received.msg)) - parsed.last = 0
    <3>1. Len(bytes) \in Nat
      BY <1>3, LenProperties
    <3> DEFINE n == Len(bytes)
    <3>2. Len(Tail(Received.msg)) = n /\ parsed.last = n
      BY <1>6, <2>3
    <3>3. n \in Nat
      BY <3>1
    <3> HIDE DEF n
    <3>4. n - n = 0
      BY <3>3
    <3> QED
      BY <3>2, <3>4
  <2> QED
    BY <1>3, <1>6, <2>1, <2>3, <2>4
<1>8. sent' = MeantBy(sender, dest, type, time, data)
  BY <1>1, <1>2
<1>9. /\ got'.peer = sender /\ got'.rec = rec /\ got'.dest = dest
      /\ got'.sender = sender /\ got'.unread = 0
  BY <1>7
<1>10. /\ sent'.sender = sender /\ sent'.dest = dest /\ sent'.type = type
       /\ sent'.timestamp = time /\ sent'.data = data
  BY <1>8 DEF MeantBy
<1>11. Posted'
  BY <1>1 DEF Posted
<1>12. GotTyped'
  BY <1>3, <1>9 DEF GotTyped
<1>13. RecordArrives'
  BY <1>3, <1>9, <1>10 DEF RecordArrives
<1>14. PeerIsSender'
  <2>1. sender \in Text
    BY RecordConstantsOK DEF Text
  <2>2. GetSerialFromUri(GetUriFromSerial(sender)) = sender
    BY <2>1, AddressBack
  <2> QED
    BY <1>9, <2>2 DEF PeerIsSender
<1> QED
  BY <1>11, <1>12, <1>13, <1>14 DEF Delivered

\* Every reachable state.
THEOREM SpecDelivered == Spec => []Delivered
<1>1. Delivered /\ [Next]_vars => Delivered'
  <2> SUFFICES ASSUME Delivered, [Next]_vars PROVE Delivered'
    OBVIOUS
  <2>1. CASE \E sender, dest \in Serial, type \in Type, time \in TimeBytes, data \in Data :
               SendRecord(sender, dest, type, time, data)
    BY <2>1, SendRecordDelivered
  <2>2. CASE \E behind \in Byte : OnMsgReceived(behind)
    BY <2>2, OnMsgReceivedDelivered DEF Delivered
  <2>3. CASE UNCHANGED vars
    BY <2>3 DEF vars, Delivered, Posted, GotTyped, RecordArrives, PeerIsSender
  <2> QED
    BY <2>1, <2>2, <2>3 DEF Next
<1> QED
  BY InitDelivered, <1>1, PTL DEF Spec

-----------------------------------------------------------------------------
(***************************************************************************)
(* The properties.                                                         *)
(***************************************************************************)
\* What is on the wire are bytes behind an address, and no record that arrives
\* ends the process that prints it.
THEOREM SpecTypeOK == Spec => []TypeOK
<1>1. Delivered => TypeOK
  <2> SUFFICES ASSUME Posted, wire # None
               PROVE  wire.body \in Seq(Byte) /\ wire.from \in Seq(Char)
    BY DEF Delivered, GotTyped, TypeOK
  <2>1. PICK sender \in Serial, dest \in Serial, type \in 0 .. 5,
             time \in TimeBytes, data \in Data :
          wire = MessageOf(sender, dest, type, time, data)
    BY DEF Posted
  <2> DEFINE r == RecordOf(sender, dest, type, time, data)
             bytes == SerializeSmkexT4mRecord(r)
  <2>2. wire.from = FromHeader(sender) /\ wire.body = SetPayload(bytes)
    BY <2>1 DEF MessageOf
  <2>3. 0 \in Byte
    BY RecordConstantsOK DEF Byte
  <2>4. Readable(r, sender, dest, type, time, data, 0)
    BY <2>3, RecordBack
  <2> HIDE DEF r
  <2>5. bytes \in Seq(Byte)
    BY <2>4 DEF Readable
  <2> HIDE DEF bytes
  <2>6. SetPayload(bytes) \in Seq(Byte)
    BY <2>5, PayloadBack
  <2>7. sender \in Text
    BY RecordConstantsOK DEF Text
  <2>8. FromHeader(sender) \in Seq(Char)
    BY <2>7, AddressBack
  <2> QED
    BY <2>2, <2>6, <2>8
<1> QED
  BY SpecDelivered, <1>1, PTL

\* Every record arrives as it was sent, every byte of it read and none more.
THEOREM SpecRecordArrives == Spec => []RecordArrives
<1>1. Delivered => RecordArrives
  BY DEF Delivered
<1> QED
  BY SpecDelivered, <1>1, PTL

\* The session a record goes to is that of who made it.
THEOREM SpecPeerIsSender == Spec => []PeerIsSender
<1>1. Delivered => PeerIsSender
  BY DEF Delivered
<1> QED
  BY SpecDelivered, <1>1, PTL
=============================================================================
