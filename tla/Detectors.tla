----------------------------- MODULE Detectors -----------------------------
(***************************************************************************)
(* The four detectors that look for contention patterns in the records of  *)
(* one file (crates/analyzer).  Messages and the order in which findings   *)
(* of one detector are listed are left out.                                *)
(***************************************************************************)
EXTENDS AccessRecords, FiniteSets

\* Mutant of GlobalStaticWrite: every record counts, not every function.
GlobalStaticWriteByRecord(accesses) ==
  {key \in {a.key : a \in ToSet(accesses)} \ {Dynamic} :
     Len(SelectSeq(accesses, LAMBDA a : a.kind = "write" /\ a.key = key)) > 1}

\* The static keys written by functions of different names.
GlobalStaticWrite(accesses) ==
  {key \in {a.key : a \in ToSet(accesses)} \ {Dynamic} :
     Cardinality({f \in FunctionsIn(accesses) : key \in KeysOf(accesses, f, "write")}) > 1}

\* One finding for every write with a loop open, dynamic keys included; a
\* finding is named by the position of its record.
WriteInLoop(accesses) ==
  [i \in {p \in DOMAIN accesses : accesses[p].kind = "write" /\ accesses[p].in_loop} |->
     <<accesses[i].function, accesses[i].key>>]

ReadModifyWrite(accesses) ==
  UNION {{<<f, key>> : key \in KeysOf(accesses, f, "read") \cap KeysOf(accesses, f, "write")} :
         f \in FunctionsIn(accesses)}

\* The places of one function's reads of one key.
ReadsOf(accesses, f, key) ==
  {p \in DOMAIN accesses :
     accesses[p].function = f /\ accesses[p].kind = "read" /\ accesses[p].key = key}

\* Dynamic keys are all one key here: two reads of different unresolved keys
\* are reported.
DuplicateRead(accesses) ==
  UNION {{<<f, key>> : key \in {k \in KeysOf(accesses, f, "read") :
                                 Cardinality(ReadsOf(accesses, f, k)) > 1}} :
         f \in FunctionsIn(accesses)}

RunDetectors(accesses) ==
  [global_static_write |-> GlobalStaticWrite(accesses),
   write_in_loop       |-> WriteInLoop(accesses),
   read_modify_write   |-> ReadModifyWrite(accesses),
   duplicate_read      |-> DuplicateRead(accesses)]

\* The number of findings per detector; a detector without findings has no
\* entry in the code's map and counts as zero.
FindingCounts(findings) ==
  [global_static_write |-> Cardinality(findings.global_static_write),
   write_in_loop       |-> Cardinality(DOMAIN findings.write_in_loop),
   read_modify_write   |-> Cardinality(findings.read_modify_write),
   duplicate_read      |-> Cardinality(findings.duplicate_read)]
=============================================================================
