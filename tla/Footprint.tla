----------------------------- MODULE Footprint -----------------------------
(***************************************************************************)
(* Transaction footprints and the conflict relation on them                *)
(* (crates/footprint).  A ledger key is represented by its rank in the     *)
(* order the code derives for LedgerKey: the order decides in which        *)
(* sequence every BTreeMap and BTreeSet of keys is walked, and nothing     *)
(* else about a key matters to scheduling or scoring.                      *)
(***************************************************************************)
EXTENDS Naturals, FiniteSets

CONSTANT Key       \* the ledger keys, as ranks in LedgerKey's derived order

ASSUME KeyAssumption == Key \subseteq Nat

\* A key may be in both sets of one footprint: the builder methods, the
\* fixture deserialiser and the capture decoder all insert it without
\* looking at the other set.
TransactionFootprint == [read_only: SUBSET Key, read_write: SUBSET Key]

EmptyFootprint == [read_only |-> {}, read_write |-> {}]

Read(fp, key) == [fp EXCEPT !.read_only = @ \cup {key}]

ReadWrite(fp, key) == [fp EXCEPT !.read_write = @ \cup {key}]

Keys(fp) == fp.read_only \cup fp.read_write

KeyCount(fp) == Cardinality(Keys(fp))

WriteCount(fp) == Cardinality(fp.read_write)

ConflictKeys(a, b) ==
       (a.read_write \cap b.read_write)
  \cup (a.read_write \cap b.read_only)
  \cup (a.read_only \cap b.read_write)

ConflictsWith(a, b) == ConflictKeys(a, b) # {}

Overlaps(a, b) ==
  \/ a.read_only \cap b.read_only # {}
  \/ a.read_only \cap b.read_write # {}
  \/ a.read_write \cap b.read_only # {}
  \/ a.read_write \cap b.read_write # {}

Overlap(a, b) ==
  [shared_keys   |-> Keys(a) \cap Keys(b),
   conflict_keys |-> ConflictKeys(a, b),
   conflicts     |-> ConflictKeys(a, b) # {}]
=============================================================================
