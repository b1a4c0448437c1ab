------------------------------- MODULE Codec -------------------------------
(***************************************************************************)
(* The capture documents of crates/replay/src/xdr.rs: how a capture is     *)
(* written as bytes, and what one read of the decoder takes from a buffer. *)
(* A string is the sequence of its bytes.  Ledger numbers and the          *)
(* checkpoint count are carried along as four bytes; lengths, counts and   *)
(* tags are numbers.                                                       *)
(***************************************************************************)
EXTENDS Naturals, SequencesExt

CONSTANT ValidUtf8(_)    \* std::str::from_utf8 accepts the bytes

Byte == 0..255
String == {bytes \in Seq(Byte) : ValidUtf8(bytes)}

\* Big-endian words.
WordBytes(v) == <<(v \div 16777216) % 256, (v \div 65536) % 256, (v \div 256) % 256, v % 256>>

\* Values from 2^31 - 1 on are one value: larger than any length or tag.
Huge == 2147483647

Word(b) ==
  IF b[1] > 127 THEN Huge
  ELSE b[1] * 16777216 + b[2] * 65536 + b[3] * 256 + b[4]

MAGIC == 1397510193         \* 0x534C5031, "SLP1"
VERSION == 1

\* LedgerKeyType by discriminant.
Account == 0
TrustLine == 1
ContractData == 2
ContractCode == 3
ContractTtl == 4
OtherKey == 255
LedgerKeyType == {Account, TrustLine, ContractData, ContractCode, ContractTtl, OtherKey}

CaptureKey == [key_type : LedgerKeyType, field_1 : String, field_2 : String]

Fixed(n) == {bytes \in Seq(Byte) : Len(bytes) = n}

CaptureRecord ==
  [tx_hash : Fixed(32), source_account : String,
   read_only : Seq(CaptureKey), read_write : Seq(CaptureKey)]

ArchiveCapture ==
  [from_ledger : Fixed(4), to_ledger : Fixed(4), checkpoint_count : Fixed(4),
   records : Seq(CaptureRecord)]

Pad(n) == (4 - (n % 4)) % 4

-----------------------------------------------------------------------------
\* Writing.  "zero" is the padding byte, 0 in the code: writing a capture
\* with another one shows which bytes are padding.
WriteOpaque(bytes, zero) == bytes \o [i \in 1..Pad(Len(bytes)) |-> zero]

WriteString(s, zero) == WordBytes(Len(s)) \o WriteOpaque(s, zero)

WriteCaptureKey(key, zero) ==
  WordBytes(key.key_type) \o WriteString(key.field_1, zero) \o WriteString(key.field_2, zero)

\* write_vec puts the number of the items in front of them.
WriteKeys(list, zero) ==
  WordBytes(Len(list)) \o FlattenSeq([i \in DOMAIN list |-> WriteCaptureKey(list[i], zero)])

WriteRecord(rec, zero) ==
  WriteOpaque(rec.tx_hash, zero) \o WriteString(rec.source_account, zero)
    \o WriteKeys(rec.read_only, zero) \o WriteKeys(rec.read_write, zero)

EncodeCapture(cap, zero) ==
  WordBytes(MAGIC) \o WordBytes(VERSION) \o cap.from_ledger \o cap.to_ledger
    \o cap.checkpoint_count \o WordBytes(Len(cap.records))
    \o FlattenSeq([i \in DOMAIN cap.records |-> WriteRecord(cap.records[i], zero)])

-----------------------------------------------------------------------------
\* Reading: the value and the position behind it, or the error.
NoError == "none"
Ok(value, pos) == [error |-> NoError, value |-> value, pos |-> pos]
Fail(error) == [error |-> error, value |-> <<>>, pos |-> 0]

\* The ? operator: the first error is the result.
Then(read, Continue(_, _)) ==
  IF read.error # NoError THEN read ELSE Continue(read.value, read.pos)

ReadN(buf, pos, n) ==
  IF n > Len(buf) - pos THEN Fail("Overrun")
  ELSE Ok(SubSeq(buf, pos + 1, pos + n), pos + n)

ReadU32(buf, pos) == Then(ReadN(buf, pos, 4), LAMBDA b, p : Ok(Word(b), p))

\* Mutants of ReadOpaque: the padding is left for the next field, or is
\* skipped without asking whether it is there.
ReadOpaqueUnpadded(buf, pos, n) == ReadN(buf, pos, n)

ReadOpaqueLenient(buf, pos, n) ==
  Then(ReadN(buf, pos, n), LAMBDA out, p : Ok(out, Min({p + Pad(n), Len(buf)})))

ReadOpaque(buf, pos, n) ==
  Then(ReadN(buf, pos, n), LAMBDA out, p :
    Then(ReadN(buf, p, Pad(n)), LAMBDA padding, q : Ok(out, q)))

ReadBytes(buf, pos) ==
  Then(ReadU32(buf, pos), LAMBDA len, p : ReadOpaque(buf, p, len))

ReadString(buf, pos) ==
  Then(ReadBytes(buf, pos), LAMBDA bytes, p :
    IF ValidUtf8(bytes) THEN Ok(bytes, p) ELSE Fail("InvalidUtf8"))

ReadCaptureKey(buf, pos) ==
  Then(ReadU32(buf, pos), LAMBDA type, p :
    IF type \notin LedgerKeyType THEN Fail("UnknownKeyType")
    ELSE Then(ReadString(buf, p), LAMBDA field_1, q :
      Then(ReadString(buf, q), LAMBDA field_2, r :
        Ok([key_type |-> type, field_1 |-> field_1, field_2 |-> field_2], r))))

\* The five words in front of the records, and the number of records.
ReadHeader(buf, pos) ==
  Then(ReadU32(buf, pos), LAMBDA magic, p :
    IF magic # MAGIC THEN Fail("BadMagic")
    ELSE Then(ReadU32(buf, p), LAMBDA version, q :
      IF version # VERSION THEN Fail("UnsupportedVersion")
      ELSE Then(ReadN(buf, q, 12), LAMBDA words, r :
        Then(ReadU32(buf, r), LAMBDA count, s :
          Ok([from_ledger      |-> SubSeq(words, 1, 4),
              to_ledger        |-> SubSeq(words, 5, 8),
              checkpoint_count |-> SubSeq(words, 9, 12),
              count            |-> count], s)))))

\* The fields of a record in front of its keys.
ReadRecordHead(buf, pos) ==
  Then(ReadOpaque(buf, pos, 32), LAMBDA tx_hash, p :
    Then(ReadString(buf, p), LAMBDA source_account, q :
      Ok([tx_hash |-> tx_hash, source_account |-> source_account], q)))
=============================================================================
