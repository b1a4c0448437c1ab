------------------------------ MODULE MCReplay ------------------------------
(***************************************************************************)
(* Instance of Replay: whole documents of up to two records over keys that *)
(* agree and differ in each field, with strings of every length modulo     *)
(* four; and one document cut at every byte, changed in every byte, and    *)
(* followed by other bytes.                                                *)
(***************************************************************************)
EXTENDS Replay

\* The strings of the instance are ASCII, at most one byte of them changed.
MCValidUtf8(bytes) == \A i \in DOMAIN bytes : bytes[i] < 128

Hash(n) == [i \in 1..32 |-> n]
KeyOf(type, field_1, field_2) ==
  [key_type |-> type, field_1 |-> field_1, field_2 |-> field_2]
Record(n, source, ro, rw) ==
  [tx_hash |-> Hash(n), source_account |-> source, read_only |-> ro, read_write |-> rw]
Capture(list) ==
  [from_ledger |-> WordBytes(258), to_ledger |-> WordBytes(300),
   checkpoint_count |-> WordBytes(2), records |-> list]

SomeKeys == {
  KeyOf(Account, <<65>>, <<>>), KeyOf(Account, <<65>>, <<66, 67>>),
  KeyOf(TrustLine, <<65>>, <<66, 67>>), KeyOf(TrustLine, <<65>>, <<>>),
  KeyOf(ContractData, <<65>>, <<66, 67>>), KeyOf(ContractCode, <<65>>, <<>>),
  KeyOf(ContractTtl, <<70, 71, 72>>, <<>>), KeyOf(OtherKey, <<>>, <<65>>)}

Lists == BoundedSeq(SomeKeys, 1)

WholeCaptures ==
  {Capture(<<>>)}
    \cup {Capture(<<Record(1, <<65, 66, 67, 68>>, ro, rw)>>) :
            ro \in BoundedSeq(SomeKeys, 2), rw \in Lists}
    \cup {Capture(<<Record(1, <<65>>, a, b), Record(2, <<65, 66>>, c, d)>>) :
            a, d \in {<<k>> : k \in SomeKeys}, b, c \in Lists}

Damaged ==
  Capture(<<Record(1, <<65, 66, 67>>, <<KeyOf(ContractData, <<65>>, <<66, 67>>)>>, <<>>),
            Record(2, <<65>>, <<>>, <<KeyOf(TrustLine, <<65, 66, 67, 68, 69>>, <<66>>)>>)>>)

DamagedBytes == EncodeCapture(Damaged, 0)

Doc(buf, cap, damage) == [buf |-> buf, capture |-> cap, damage |-> damage]

MCDocuments ==
  {Doc(EncodeCapture(cap, 0), cap, "none") : cap \in WholeCaptures}
    \cup {Doc(SubSeq(DamagedBytes, 1, n), Damaged, "cut") : n \in 0..(Len(DamagedBytes) - 1)}
    \cup {Doc([DamagedBytes EXCEPT ![i] = v], Damaged, "byte") :
            i \in DOMAIN DamagedBytes, v \in {0, 1, 2, 3, 5, 9, 200}}
    \cup {Doc(DamagedBytes \o tail, Damaged, "tail") :
            tail \in BoundedSeq({0, 1, 65}, 3) \ {<<>>}}
=============================================================================
