------------------------------ MODULE Latencies ------------------------------
(***************************************************************************)
(* The latency samples of the stress test: one slice per worker, merged    *)
(* when all workers are done, and the percentiles taken of them.           *)
(***************************************************************************)
EXTENDS Naturals, Sequences, SequencesExt

Merge(perWorker) == FlattenSeq(perWorker)

(* Mutant of Percentile: the samples are not sorted.                       *)
PercentileUnsorted(samples, pct) ==
  IF samples = <<>> THEN 0 ELSE samples[((Len(samples) - 1) * pct) \div 100 + 1]

\* The place of sample i in the sorted slice.  sort.Slice may put equal samples
\* in any order, and which of them comes first does not show.
Place(samples, i) ==
  Cardinality({j \in DOMAIN samples :
                 samples[j] < samples[i] \/ (samples[j] = samples[i] /\ j <= i)})

Sorted(samples) ==
  [n \in DOMAIN samples |-> samples[CHOOSE i \in DOMAIN samples : Place(samples, i) = n]]

\* The truncated index of percentiles' idx, zero-based in Go.
Percentile(samples, pct) ==
  IF samples = <<>> THEN 0 ELSE Sorted(samples)[((Len(samples) - 1) * pct) \div 100 + 1]
-----------------------------------------------------------------------------
\* The least sample that at least pct percent of the samples do not exceed.
NearestRank(samples, pct) ==
  LET upTo(x) == Cardinality({i \in DOMAIN samples : samples[i] <= x})
  IN  Min({x \in Range(samples) : upTo(x) * 100 >= pct * Len(samples)})

(* Truncation may cost a reported percentile one sample of rank, p99 of    *)
(* two samples is the smaller one, but never more, and never upwards.      *)
PercentilesNearest(samples) ==
  samples # <<>> =>
    /\ \A pct \in {50, 95, 99} :
         LET p == Percentile(samples, pct)
             nearest == NearestRank(samples, pct)
         IN  /\ p \in Range(samples) /\ p <= nearest
             /\ \A x \in Range(samples) : ~ (p < x /\ x < nearest)
    /\ Percentile(samples, 50) <= Percentile(samples, 95)
    /\ Percentile(samples, 95) <= Percentile(samples, 99)
=============================================================================
