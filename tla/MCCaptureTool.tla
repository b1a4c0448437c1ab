--------------------------- MODULE MCCaptureTool ---------------------------
(***************************************************************************)
(* Instance of CaptureTool: chains of up to five transactions in ledgers   *)
(* before, inside and behind the window, up to two in a ledger, whose      *)
(* hashes are not in the order of the chain; pages of up to two.           *)
(***************************************************************************)
EXTENDS CaptureTool

Tx(ledger, hash) ==
  [ledger |-> ledger, hash |-> hash, status |-> IF hash % 2 = 0 THEN "SUCCESS" ELSE "FAILED"]

MCHistories ==
  LET Ledgers == {s \in BoundedSeq(1..4, 5) :
                    /\ \A i \in 1..(Len(s) - 1) : s[i] <= s[i + 1]
                    /\ \A i \in 1..(Len(s) - 2) : s[i] < s[i + 2]}
  IN {[i \in DOMAIN s |-> Tx(s[i], 6 - i)] : s \in Ledgers}
=============================================================================
