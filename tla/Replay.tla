------------------------------- MODULE Replay -------------------------------
(***************************************************************************)
(* Loading a transaction set from an archive capture (crates/replay):      *)
(* decode_capture walks the document, one step per header, record head,    *)
(* key and array, stops at the first error, and the decoded records become *)
(* transactions with footprints.  A document is whole, cut short, changed  *)
(* in one byte, or followed by other bytes; what was encoded is kept       *)
(* beside it.  An array is taken to be allocated whatever its count says.  *)
(***************************************************************************)
EXTENDS Codec, FiniteSets

CONSTANT Documents   \* [buf, capture, damage]: bytes, what they encode, and
                     \* "none", "cut", "byte" or "tail"

\* A document is made of less than 2^31 - 1 bytes.  "byte" stands for whatever
\* else may be handed to the decoder.
ASSUME DocumentsAssumption ==
  \A d \in Documents :
    LET whole == EncodeCapture(d.capture, 0)
    IN /\ d.buf \in Seq(Byte) /\ Len(d.buf) < Huge
       /\ d.capture \in ArchiveCapture /\ Len(whole) < Huge
       /\ d.damage = "none" => d.buf = whole
       /\ d.damage = "cut" => IsStrictPrefix(d.buf, whole)
       /\ d.damage = "tail" => IsPrefix(whole, d.buf)

F == INSTANCE Footprint WITH Key <- {}

VARIABLES
  document,    \* the input
  pos,         \* the bytes consumed
  part,        \* "header", "record", "read_only", "read_write", "done", "failed"
  error,       \* the error decode_capture returns, if any
  capture,     \* the header and the records completed so far
  records,     \* the records still to read
  record,      \* the record being read
  keys         \* the keys still to read of its current array

replayVars == <<document, pos, part, error, capture, records, record, keys>>

NoRecord == [tx_hash |-> <<>>, source_account |-> <<>>, read_only |-> <<>>, read_write |-> <<>>]

ReplayInit ==
  /\ document \in Documents
  /\ pos = 0
  /\ part = "header"
  /\ error = NoError
  /\ capture = [from_ledger |-> <<>>, to_ledger |-> <<>>, checkpoint_count |-> <<>>,
                records |-> <<>>]
  /\ records = 0
  /\ record = NoRecord
  /\ keys = 0

-----------------------------------------------------------------------------
\* A failed read ends the decoding and loses what was read before it.
FailWith(read) ==
  /\ read.error # NoError
  /\ part' = "failed"
  /\ error' = read.error
  /\ UNCHANGED <<document, pos, capture, records, record, keys>>

Succeed(read, next) ==
  /\ read.error = NoError
  /\ part' = next
  /\ pos' = read.pos
  /\ UNCHANGED <<document, error>>

TakeHeader ==
  /\ part = "header"
  /\ LET read == ReadHeader(document.buf, pos) IN
     \/ FailWith(read)
     \/ /\ Succeed(read, "record")
        /\ capture' = [from_ledger |-> read.value.from_ledger,
                       to_ledger |-> read.value.to_ledger,
                       checkpoint_count |-> read.value.checkpoint_count,
                       records |-> <<>>]
        /\ records' = read.value.count
        /\ UNCHANGED <<record, keys>>

TakeRecordHead ==
  /\ part = "record"
  /\ records > 0
  /\ LET head == ReadRecordHead(document.buf, pos)
         read == Then(head, LAMBDA v, p : ReadU32(document.buf, p))
     IN \/ FailWith(read)
        \/ /\ Succeed(read, "read_only")
           /\ record' = [NoRecord EXCEPT !.tx_hash = head.value.tx_hash,
                                         !.source_account = head.value.source_account]
           /\ keys' = read.value
           /\ UNCHANGED <<capture, records>>

TakeKey ==
  /\ part \in {"read_only", "read_write"}
  /\ keys > 0
  /\ LET read == ReadCaptureKey(document.buf, pos) IN
     \/ FailWith(read)
     \/ /\ Succeed(read, part)
        /\ record' = [record EXCEPT ![part] = Append(@, read.value)]
        /\ keys' = keys - 1
        /\ UNCHANGED <<capture, records>>

StartReadWrite ==
  /\ part = "read_only"
  /\ keys = 0
  /\ LET read == ReadU32(document.buf, pos) IN
     \/ FailWith(read)
     \/ /\ Succeed(read, "read_write")
        /\ keys' = read.value
        /\ UNCHANGED <<capture, records, record>>

PushRecord ==
  /\ part = "read_write"
  /\ keys = 0
  /\ part' = "record"
  /\ capture' = [capture EXCEPT !.records = Append(@, record)]
  /\ records' = records - 1
  /\ record' = NoRecord
  /\ UNCHANGED <<document, pos, error, keys>>

\* Bytes behind the last record are not looked at.
FinishDecode ==
  /\ part = "record"
  /\ records = 0
  /\ part' = "done"
  /\ UNCHANGED <<document, pos, error, capture, records, record, keys>>

ReplayNext ==
  \/ TakeHeader
  \/ TakeRecordHead
  \/ TakeKey
  \/ StartReadWrite
  \/ PushRecord
  \/ FinishDecode

ReplaySpec == ReplayInit /\ [][ReplayNext]_replayVars

-----------------------------------------------------------------------------
\* Mutant of ToLedgerKey: the kinds named by one identifier are one kind.
ToLedgerKeyUntyped(key) ==
  IF key.key_type \in {TrustLine, ContractData}
  THEN <<key.key_type, key.field_1, key.field_2>>
  ELSE <<Account, key.field_1>>

\* The second field names nothing for a key that has only one.
ToLedgerKey(key) ==
  IF key.key_type \in {TrustLine, ContractData}
  THEN <<key.key_type, key.field_1, key.field_2>>
  ELSE <<key.key_type, key.field_1>>

RecordToTransaction(rec) ==
  [tx_hash        |-> rec.tx_hash,
   source_account |-> rec.source_account,
   footprint      |->
     LET reading == FoldLeft(LAMBDA fp, key : F!Read(fp, ToLedgerKey(key)),
                             F!EmptyFootprint, rec.read_only)
     IN FoldLeft(LAMBDA fp, key : F!ReadWrite(fp, ToLedgerKey(key)),
                 reading, rec.read_write)]

RecordsToSet(provenance, cap) ==
  [captured_from |-> provenance,
   records |-> [i \in DOMAIN cap.records |-> RecordToTransaction(cap.records[i])]]

\* What load returns once the decoder has: an error, or the transactions in
\* the document's order; nothing is left out of the middle.
DecodeCaptureSet(provenance) ==
  IF part = "failed" THEN [error |-> error, set |-> <<>>]
  ELSE [error |-> NoError, set |-> RecordsToSet(provenance, capture)]

\* The checkpoint count shown in the provenance of an archive is that of the
\* header, or zero if the document does not decode.
CheckpointCount ==
  IF part = "failed" THEN <<0, 0, 0, 0>> ELSE capture.checkpoint_count

ArchiveLoad(bucket) ==
  DecodeCaptureSet([bucket |-> bucket, checkpoints |-> CheckpointCount,
                    bytes |-> Len(document.buf)])

-----------------------------------------------------------------------------
\* A whole document decodes to exactly the capture it encodes, to its last
\* byte; and whatever is accepted, damaged or not, is consumed without a gap:
\* writing the result gives the consumed bytes back, padding apart.
DecodesFaithfully ==
  /\ document.damage = "none" =>
       /\ part # "failed"
       /\ part = "done" => capture = document.capture /\ pos = Len(document.buf)
  /\ part = "done" =>
       LET zeros == EncodeCapture(capture, 0)
           ones  == EncodeCapture(capture, 1)
       IN /\ Len(zeros) = pos
          /\ \A i \in 1..pos : document.buf[i] # zeros[i] => ones[i] # zeros[i]

\* A document cut short at any byte is never taken for a smaller one, and
\* bytes behind a document change nothing about it.
CutDocumentsRejected ==
  /\ document.damage = "cut" => part # "done" /\ error \in {NoError, "Overrun"}
  /\ document.damage = "tail" =>
       part # "failed" /\ (part = "done" => capture = document.capture)

\* Two loaded transactions conflict exactly if one writes a ledger entry the
\* other touches, entries told apart by their kind and the fields the kind
\* has, whatever the keys' spelling in the document and their order.
SameEntry(a, b) ==
  /\ a.key_type = b.key_type
  /\ a.field_1 = b.field_1
  /\ a.key_type \in {TrustLine, ContractData} => a.field_2 = b.field_2

EntriesDecideConflicts ==
  part = "done" /\ document.damage = "none" =>
    LET loaded == ArchiveLoad("bucket").set.records
        written == document.capture.records
        Touches(rec) == ToSet(rec.read_only) \cup ToSet(rec.read_write)
        Meet(x, y) == \E a \in ToSet(written[x].read_write), b \in Touches(written[y]) :
                        SameEntry(a, b)
    IN /\ Len(loaded) = Len(written)
       /\ \A x, y \in DOMAIN written :
            F!ConflictsWith(loaded[x].footprint, loaded[y].footprint)
              <=> Meet(x, y) \/ Meet(y, x)
=============================================================================
