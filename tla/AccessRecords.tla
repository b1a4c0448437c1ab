--------------------------- MODULE AccessRecords ---------------------------
(***************************************************************************)
(* What the storage visitor of crates/analyzer leaves of a file: one       *)
(* record per storage access, with the function, the kind of access, the   *)
(* key and whether a loop is open; and their aggregation per function.     *)
(***************************************************************************)
EXTENDS Naturals, SequencesExt

\* The key of an access whose argument names none.
Dynamic == "(dynamic)"

KeysOf(accesses, function, kind) ==
  {a.key : a \in {r \in ToSet(accesses) : r.function = function /\ r.kind = kind}}

FunctionsIn(accesses) == {a.function : a \in ToSet(accesses)}

\* Per function the keys it reads and the keys it writes, each listed once.
Aggregate(accesses) ==
  [f \in FunctionsIn(accesses) |->
     [reads  |-> KeysOf(accesses, f, "read"),
      writes |-> KeysOf(accesses, f, "write")]]
=============================================================================
