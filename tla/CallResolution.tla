--------------------------- MODULE CallResolution ---------------------------
(***************************************************************************)
(* The first half of analyze_set (crates/analyzer): the functions of all   *)
(* files are indexed by name, and every recorded call is linked to the     *)
(* one function it can mean, or listed as unresolved.  Program is what the  *)
(* effective footprints are computed of next.  A file is what              *)
(* StorageVisitor leaves of it: its access and call records.               *)
(***************************************************************************)
EXTENDS AccessRecords, Ranking

CONSTANTS
  FileSets,    \* the file sets analysed: sequences of [accesses, calls]
  NameOrder    \* the function names in the order of their strings

\* A call may name a function that no file defines.
AccessRecord ==
  [function: ToSet(NameOrder), kind: {"read", "write"}, key: STRING, in_loop: BOOLEAN]
CallRecord ==
  [function: ToSet(NameOrder), method: STRING, receiver: STRING, in_loop: BOOLEAN]

ASSUME NamesAssumption ==
  /\ NameOrder \in Seq(STRING)
  /\ \A i, j \in DOMAIN NameOrder : NameOrder[i] = NameOrder[j] => i = j

ASSUME FilesAssumption ==
  \A set \in FileSets : set \in Seq([accesses: Seq(AccessRecord), calls: Seq(CallRecord)])

VARIABLES
  files,       \* the input; a file is named by its position
  phase,       \* "index", "link" or "linked"
  file,        \* the file being indexed or linked
  call,        \* the next call of that file to link
  index,       \* per function name, the files that define it
  edges,       \* the resolved calls
  unresolved   \* the calls that could not be resolved

resolveVars == <<files, phase, file, call, index, edges, unresolved>>

\* Names of common library methods: a call of one that names nothing in the
\* index is skipped without an entry.
NOISE_METHODS == {
  "iter", "into_iter", "clone", "cloned", "copied", "unwrap", "unwrap_or",
  "unwrap_or_default", "expect", "map", "filter", "collect", "enumerate", "zip",
  "fold", "for_each", "find", "any", "all", "count", "sum", "product", "len",
  "is_empty", "contains", "push", "pop", "insert", "remove", "extend", "get",
  "first", "last", "as_ref", "as_str", "as_bytes", "to_string", "to_vec",
  "to_u32", "to_i64", "to_u64", "from_xdr", "to_xdr", "bytes", "require_auth",
  "require_auth_for_args", "current_contract_address", "contract_id", "network",
  "ledger", "printer", "events", "storage", "invoke_contract"}

\* A function: the file it is in and its name.
Function(source, name) == [source |-> source, name |-> name]

ResolveInit ==
  /\ files \in FileSets
  /\ phase = "index"
  /\ file = 1
  /\ call = 1
  /\ index = [name \in ToSet(NameOrder) |-> {}]
  /\ edges = <<>>
  /\ unresolved = <<>>

-----------------------------------------------------------------------------
\* Only functions with storage accesses enter the index.
IndexFile ==
  /\ phase = "index"
  /\ file <= Len(files)
  /\ index' = [name \in DOMAIN index |->
       IF name \in FunctionsIn(files[file].accesses)
       THEN index[name] \cup {file} ELSE index[name]]
  /\ file' = file + 1
  /\ UNCHANGED <<files, phase, call, edges, unresolved>>

\* Mutant of StartLinking: calls are linked as soon as the first file is
\* indexed.
StartLinkingEarly ==
  /\ phase = "index"
  /\ file > 1 \/ files = <<>>
  /\ phase' = "link"
  /\ file' = 1
  /\ UNCHANGED <<files, call, index, edges, unresolved>>

StartLinking ==
  /\ phase = "index"
  /\ file > Len(files)
  /\ phase' = "link"
  /\ file' = 1
  /\ UNCHANGED <<files, call, index, edges, unresolved>>

AtCall == phase = "link" /\ file <= Len(files) /\ call <= Len(files[file].calls)
Site == files[file].calls[call]
Candidates == IF Site.method \in DOMAIN index THEN index[Site.method] ELSE {}

Unresolved(reason) ==
  [from |-> Function(file, Site.function), method |-> Site.method, reason |-> reason]

\* Mutant of LinkCall: of several candidates the first is taken.
LinkCallFirst ==
  /\ AtCall
  /\ Candidates # {}
  /\ edges' = Append(edges, [from |-> Function(file, Site.function),
                             to   |-> Function(Min(Candidates), Site.method)])
  /\ call' = call + 1
  /\ UNCHANGED <<files, phase, file, index, unresolved>>

LinkCall ==
  /\ AtCall
  /\ Cardinality(Candidates) = 1
  /\ edges' = Append(edges, [from |-> Function(file, Site.function),
                             to   |-> Function(Min(Candidates), Site.method)])
  /\ call' = call + 1
  /\ UNCHANGED <<files, phase, file, index, unresolved>>

\* Mutant of ReportAmbiguous: the call is skipped.
SkipAmbiguous ==
  /\ AtCall
  /\ Cardinality(Candidates) > 1
  /\ call' = call + 1
  /\ UNCHANGED <<files, phase, file, index, edges, unresolved>>

ReportAmbiguous ==
  /\ AtCall
  /\ Cardinality(Candidates) > 1
  /\ unresolved' = Append(unresolved, Unresolved("ambiguous"))
  /\ call' = call + 1
  /\ UNCHANGED <<files, phase, file, index, edges>>

SkipNoise ==
  /\ AtCall
  /\ Candidates = {}
  /\ Site.method \in NOISE_METHODS
  /\ call' = call + 1
  /\ UNCHANGED <<files, phase, file, index, edges, unresolved>>

ReportMissing ==
  /\ AtCall
  /\ Candidates = {}
  /\ Site.method \notin NOISE_METHODS
  /\ unresolved' = Append(unresolved, Unresolved("no such function"))
  /\ call' = call + 1
  /\ UNCHANGED <<files, phase, file, index, edges>>

NextFile ==
  /\ phase = "link"
  /\ file <= Len(files)
  /\ call > Len(files[file].calls)
  /\ file' = file + 1
  /\ call' = 1
  /\ UNCHANGED <<files, phase, index, edges, unresolved>>

Position(list, x) == SelectInSeq(list, LAMBDA y : y = x)
\* The functions reported for a file: those with accesses and those that only
\* call others.
ReportedNames(source) ==
  FunctionsIn(files[source].accesses)
    \cup {c.function : c \in ToSet(files[source].calls)}

Reported ==
  UNION {{Function(source, name) : name \in ReportedNames(source)} : source \in DOMAIN files}

\* All functions in report order: by file, then by name.
ListedBefore(f, g) ==
  \/ f.source < g.source
  \/ f.source = g.source /\ Position(NameOrder, f.name) < Position(NameOrder, g.name)

ReportOrder == Ranked(Reported, ListedBefore)

OwnAccesses(f) ==
  {<<a.kind, a.key>> : a \in {r \in ToSet(files[f.source].accesses) : r.function = f.name}}

\* The calls resolved for a function, in the order of the call sites.
EdgesFrom(f) ==
  Ranked({k \in DOMAIN edges : edges[k].from = f}, LAMBDA a, b : a < b)

\* The functions with their own accesses and their resolved calls, as
\* positions in the report.
Program ==
  LET order == ReportOrder IN
  [i \in DOMAIN order |->
     [own   |-> OwnAccesses(order[i]),
      calls |-> LET out == EdgesFrom(order[i])
                IN [k \in DOMAIN out |-> Position(order, edges[out[k]].to)]]]

FinishLinking ==
  /\ phase = "link"
  /\ file > Len(files)
  /\ phase' = "linked"
  /\ UNCHANGED <<files, file, call, index, edges, unresolved>>

ResolveNext ==
  \/ IndexFile
  \/ StartLinking
  \/ LinkCall
  \/ ReportAmbiguous
  \/ SkipNoise
  \/ ReportMissing
  \/ NextFile
=============================================================================
