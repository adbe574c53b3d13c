----------------------------- MODULE ModelHealth -----------------------------
(***************************************************************************)
(* The health score of a TM1 model and the rule by which a process is      *)
(* reported as slower than usual.  Points are counted in halves, seconds   *)
(* in tens.                                                                *)
(***************************************************************************)
EXTENDS Integers, FiniteSetsExt, SequencesExt

\* CATEGORIES: half points per item, and at most.
Each(k) ==
  CASE k = "critical_rule_findings" -> 20
    [] k = "process_errors" -> 10
    [] k = "regressions" -> 6
    [] k \in {"rule_warnings", "failed_processes"} -> 4
    [] OTHER -> 1
Cap(k) ==
  CASE k = "critical_rule_findings" -> 80
    [] k = "process_errors" -> 50
    [] k \in {"rule_warnings", "regressions"} -> 30
    [] k \in {"failed_processes", "process_issues"} -> 20
    [] OTHER -> 10
Categories ==
  {"critical_rule_findings", "process_errors", "rule_warnings", "regressions",
   "failed_processes", "process_issues", "unused_objects"}

Points(k, n) == Min({n * Each(k), Cap(k)})

\* round: a half goes to the even number.
Round(halves) ==
  LET below == halves \div 2
  IN  IF halves % 2 = 0 \/ below % 2 = 0 THEN below ELSE below + 1

Taken(counts) == SumFunction([k \in DOMAIN counts |-> Points(k, counts[k])])
compute(counts) == Max({0, Round(200 - Taken(counts))})

grade(score) ==
  CASE score >= 90 -> "A" [] score >= 75 -> "B" [] score >= 60 -> "C" [] score >= 40 -> "D"
    [] OTHER -> "F"

\* Counts at and around the caps.
SomeCounts(k) == {0, 1, Cap(k) \div Each(k), Cap(k) \div Each(k) + 1}
Counts(K) == {f \in [K -> UNION {SomeCounts(k) : k \in K}] : \A k \in K : f[k] \in SomeCounts(k)}

\* One category alone never costs a model more than its grade of C ("a cap so one
\* category cannot sink the whole model"), and one more finding never raises the score.
NoCategorySinksTheModel ==
  /\ \A k \in Categories, n \in 0 .. 30 : grade(compute([c \in {k} |-> n])) \in {"A", "B", "C"}
  /\ \A counts \in Counts({"critical_rule_findings", "process_issues", "unused_objects"}) :
       \A k \in DOMAIN counts :
         compute([counts EXCEPT ![k] = @ + 1]) <= compute(counts)

-----------------------------------------------------------------------------
REGRESSION_FACTOR == 2
MIN_PREVIOUS_RUNS == 3
MIN_EXTRA == 3      \* MIN_EXTRA_SECONDS

\* Twice the median, so that it is whole; runs are their times.
TwiceMedian(runs) ==
  LET s == SortSeq(runs, <)
      n == Len(runs)
  IN  s[(n + 1) \div 2] + s[n \div 2 + 1]
\* report: is the last of the timed runs of a process a regression?
Regressed(runs) ==
  /\ Len(runs) > MIN_PREVIOUS_RUNS
  /\ LET twice == TwiceMedian(Front(runs)) IN
     /\ twice > 0
     /\ 2 * Last(runs) > REGRESSION_FACTOR * twice
     /\ 2 * Last(runs) - twice >= 2 * MIN_EXTRA

\* One earlier run, however long or short, neither hides a regression against the others
\* nor makes one, for histories in which each run is recorded once (report).
OneOutlierDecidesNothing ==
  \A n \in 3 .. 4 : \A runs \in [1 .. n -> {1, 2, 4, 40}], last \in {1, 4, 5, 8, 9, 100} :
    \A outlier \in 1 .. n :
      LET others == {runs[i] : i \in 1 .. n \ {outlier}}
          slower(m) == last > REGRESSION_FACTOR * m /\ last - m >= MIN_EXTRA
          reported == Regressed(Append(runs, last))
      IN  /\ reported => slower(Min(others))
          /\ slower(Max(others)) => reported
=============================================================================
