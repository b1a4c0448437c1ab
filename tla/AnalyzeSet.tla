----------------------------- MODULE AnalyzeSet -----------------------------
(***************************************************************************)
(* analyze_set (crates/analyzer) as a whole: CallResolution links the      *)
(* calls of all files, EffectiveFootprint walks the linked program, and    *)
(* the reports put both together.  What the two parts promise one another  *)
(* is stated here, and what the reports promise about the calls that were  *)
(* written in the sources.                                                 *)
(***************************************************************************)
EXTENDS CallResolution, EffectiveFootprint, Reports

ASSUME AccessAssumption ==
  \A set \in FileSets : \A source \in DOMAIN set : \A a \in ToSet(set[source].accesses) :
    <<a.kind, a.key>> \in Access

analyzeVars == <<resolveVars, vars>>

AnalyzeInit ==
  /\ ResolveInit
  /\ program = <<>>
  /\ root = 1
  /\ stack = <<>>
  /\ visiting = {}
  /\ memo = [f \in {} |-> {}]
  /\ effective = <<>>

ResolveStep == ResolveNext /\ UNCHANGED vars

\* All calls are linked: the walk is given the program.
HandOver ==
  /\ FinishLinking
  /\ program' = Program
  /\ UNCHANGED <<root, stack, visiting, memo, effective>>

EffectiveStep ==
  /\ phase = "linked"
  /\ Next
  /\ UNCHANGED resolveVars

AnalyzeNext == ResolveStep \/ HandOver \/ EffectiveStep

\* One thread runs the analysis until it returns.
AnalyzeSpec == AnalyzeInit /\ [][AnalyzeNext]_analyzeVars /\ WF_analyzeVars(AnalyzeNext)

Analyzed == phase = "linked" /\ root > Len(program)

\* What analyze_set returns: per file the functions with their own and their
\* effective accesses, and the findings of the detectors.
AnalysisReports ==
  [source \in DOMAIN files |->
     [functions |-> [name \in ReportedNames(source) |->
        [reads     |-> KeysOf(files[source].accesses, name, "read"),
         writes    |-> KeysOf(files[source].accesses, name, "write"),
         effective |-> effective[Position(ReportOrder, Function(source, name))]]],
      detectors |-> RunDetectors(files[source].accesses)]]

-----------------------------------------------------------------------------
\* Every recorded call, as the function it is written in and the name called.
CallSites ==
  UNION {{[from |-> Function(source, c.function), method |-> c.method] :
            c \in ToSet(files[source].calls)} : source \in DOMAIN files}

Named(method) == {f \in Reported : f.name = method}
Listed(site) ==
  \E u \in ToSet(unresolved) : u.from = site.from /\ u.method = site.method
EffectiveOf(f) == effective[Position(ReportOrder, f)]

HandedOver == phase = "linked" /\ root = 1 /\ stack = <<>>

\* The walk is given what its proofs assume: every resolved call leads from a
\* reported function to one with accesses of its own, no function is reported
\* twice, and the order of files and calls decides nothing about which calls
\* are linked: a function defined in a later file is found as well.
ProgramWellFormed ==
  HandedOver =>
    /\ \A i, j \in DOMAIN ReportOrder : ReportOrder[i] = ReportOrder[j] => i = j
    /\ \A i \in DOMAIN program : \A c \in ToSet(program[i].calls) :
         c \in DOMAIN program /\ program[c].own # {}
    /\ {<<e.from, e.to>> : e \in ToSet(edges)} =
         UNION {{<<ReportOrder[i], ReportOrder[c]>> : c \in ToSet(program[i].calls)} :
                  i \in DOMAIN program}
    /\ \A site \in CallSites :
         LET targets == {f \in Named(site.method) : OwnAccesses(f) # {}}
         IN (\E e \in ToSet(edges) : e.from = site.from /\ e.to.name = site.method)
              <=> Cardinality(targets) = 1

\* No call is dropped whose callee touches storage: the caller's effective
\* accesses hold the callee's own, or the call is listed as unresolved and the
\* reader knows that any key may be touched.  Only a call that names nothing
\* with accesses can go unmentioned, and only for a library-like name.
NoAccessMissedSilently ==
  Analyzed =>
    \A site \in CallSites :
      \/ Listed(site)
      \/ /\ \E f \in Named(site.method) : OwnAccesses(f) # {}
         /\ \A f \in Named(site.method) : OwnAccesses(f) \subseteq EffectiveOf(site.from)
      \/ /\ site.method \in NOISE_METHODS
         /\ \A f \in Named(site.method) : OwnAccesses(f) = {}

\* The functions that may run when f does, by the names written in the
\* sources: the least set that holds f and with a function everything a call
\* in it may mean.
FollowsCalls(S) == \A site \in CallSites : site.from \in S => Named(site.method) \subseteq S

MayRun(f) ==
  {g \in Reported : \A S \in SUBSET Reported : f \in S /\ FollowsCalls(S) => g \in S}

Recursive(f) ==
  \E site \in CallSites : site.from = f /\ \E g \in Named(site.method) : f \in MayRun(g)

\* Where nothing that may run is unresolved, without accesses of its own, or
\* recursive, the effective accesses are exactly those of everything that may
\* run, judged by the sources and not by the linked program.
ExactWhereResolved ==
  Analyzed =>
    \A f \in Reported :
      (\A g \in MayRun(f) :
         /\ ~Recursive(g)
         /\ \A site \in CallSites : site.from = g =>
              /\ ~Listed(site)
              /\ Named(site.method) # {}
              /\ \A h \in Named(site.method) : OwnAccesses(h) # {})
      => EffectiveOf(f) = UNION {OwnAccesses(g) : g \in MayRun(f)}

\* What diff reports for two lists of reports adds up: the deltas per function
\* and per detector sum to the deltas of the summary.
AddsUp(left, right) ==
  LET diff == DiffJson(left, right)
      rows == Compare(left, right).detectors
  IN /\ SumFunction([n \in DOMAIN diff.per_function |-> diff.per_function[n].reads])
          = diff.summary.reads
     /\ SumFunction([n \in DOMAIN diff.per_function |-> diff.per_function[n].writes])
          = diff.summary.writes
     /\ diff.summary.findings =
          SumFunction([d \in DOMAIN rows |-> rows[d][2] - rows[d][1]])

\* The lists of reports that can be compared: any consecutive files.
Parts(reports) == {SubSeq(reports, a, b) : a \in DOMAIN reports, b \in 0..Len(reports)}

\* Whatever two parts of the set diff compares: no delta is lost, although
\* functions of one name in different files are merged, and no function of
\* either side is left out.
DeltasAddUp ==
  Analyzed =>
    LET reports == AnalysisReports
    IN \A left, right \in Parts(reports) : AddsUp(left, right)

\* What the documentation promises: calls that cannot be resolved are reported
\* and never silently dropped.  So, recursion aside, a call that is not listed
\* adds what every function it may mean does, directly or further down.
NeverSilentlyDropped ==
  (Analyzed /\ \A f \in Reported : ~Recursive(f)) =>
    \A site \in CallSites :
      Listed(site) \/ \A f \in Named(site.method) :
                        UNION {OwnAccesses(g) : g \in MayRun(f)} \subseteq EffectiveOf(site.from)
=============================================================================
