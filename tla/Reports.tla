------------------------------ MODULE Reports ------------------------------
(***************************************************************************)
(* What the command line makes of analysis reports (crates/cli): totals,   *)
(* metrics per function name, and the comparison of two sets of reports    *)
(* (diff).  A report has its functions, each with the keys it reads and    *)
(* writes, and its findings.  Printing is left out.                        *)
(***************************************************************************)
EXTENDS Detectors, Integers

FunctionCount(reports) ==
  SumFunction([r \in DOMAIN reports |-> Cardinality(DOMAIN reports[r].functions)])

\* The number of listed reads or writes of one report.
Listings(report, kind) ==
  SumFunction([f \in DOMAIN report.functions |-> Cardinality(report.functions[f][kind])])

\* The sum over all reports, per detector.
DetectorTotals(reports) ==
  LET counts == [r \in DOMAIN reports |-> FindingCounts(reports[r].detectors)]
  IN [d \in {"global_static_write", "write_in_loop", "read_modify_write", "duplicate_read"} |->
        SumFunction([r \in DOMAIN reports |-> counts[r][d]])]

Totals(reports) ==
  [files     |-> Len(reports),
   functions |-> FunctionCount(reports),
   reads     |-> SumFunction([r \in DOMAIN reports |-> Listings(reports[r], "reads")]),
   writes    |-> SumFunction([r \in DOMAIN reports |-> Listings(reports[r], "writes")]),
   detectors |-> DetectorTotals(reports)]

FindingTotal(totals) == SumFunction(totals.detectors)

\* Mutant of PerFunctionMetrics: the last file with the name counts.
PerFunctionMetricsLast(reports) ==
  [name \in UNION {DOMAIN reports[r].functions : r \in DOMAIN reports} |->
     LET r == Max({s \in DOMAIN reports : name \in DOMAIN reports[s].functions})
     IN [reads  |-> Cardinality(reports[r].functions[name].reads),
         writes |-> Cardinality(reports[r].functions[name].writes)]]

\* Functions of one name in different files share one entry.
PerFunctionMetrics(reports) ==
  [name \in UNION {DOMAIN reports[r].functions : r \in DOMAIN reports} |->
     LET where == {r \in DOMAIN reports : name \in DOMAIN reports[r].functions}
     IN [reads  |-> SumFunction([r \in where |-> Cardinality(reports[r].functions[name].reads)]),
         writes |-> SumFunction([r \in where |-> Cardinality(reports[r].functions[name].writes)])]]

\* A function missing on one side counts as zero there.
MetricOf(metrics, name) ==
  IF name \in DOMAIN metrics THEN metrics[name] ELSE [reads |-> 0, writes |-> 0]

DiffJson(left, right) ==
  LET l  == Totals(left)
      r  == Totals(right)
      lf == PerFunctionMetrics(left)
      rf == PerFunctionMetrics(right)
  IN [per_function |-> [name \in DOMAIN lf \cup DOMAIN rf |->
        [reads  |-> MetricOf(rf, name).reads - MetricOf(lf, name).reads,
         writes |-> MetricOf(rf, name).writes - MetricOf(lf, name).writes]],
      summary |-> [findings |-> FindingTotal(r) - FindingTotal(l),
                   reads    |-> r.reads - l.reads,
                   writes   |-> r.writes - l.writes]]

\* The rows of the printed comparison: five totals, and one row for every
\* detector that found something on either side.
Compare(left, right) ==
  LET l == Totals(left)
      r == Totals(right)
  IN [files     |-> <<l.files, r.files>>,
      functions |-> <<l.functions, r.functions>>,
      reads     |-> <<l.reads, r.reads>>,
      writes    |-> <<l.writes, r.writes>>,
      findings  |-> <<FindingTotal(l), FindingTotal(r)>>,
      detectors |-> [d \in {e \in DOMAIN l.detectors : l.detectors[e] + r.detectors[e] > 0} |->
                       <<l.detectors[d], r.detectors[d]>>]]

\* The closing line of scan.
PrintScanTotals(reports) ==
  [files     |-> Len(reports),
   functions |-> FunctionCount(reports),
   detectors |-> FindingTotal(Totals(reports))]
=============================================================================
