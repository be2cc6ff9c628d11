-------------------------------- MODULE Hist --------------------------------
(***************************************************************************)
(* The latency histograms (src/hist.h), from the workers that record into  *)
(* them through the sampler thread's intervals (client_sampler_main and    *)
(* latency_window_sample of src/kv_bench.cpp) to print_client_summary.     *)
(*                                                                         *)
(* A worker adds to a bucket with an atomic increment and updates the      *)
(* total and the extremes afterwards; the sampler reads the buckets one by *)
(* one while the workers go on.  Buckets that no member of Values falls    *)
(* into stay empty and are left out of the arrays.                         *)
(***************************************************************************)
EXTENDS Integers, Sequences, FiniteSets, SequencesExt

CONSTANTS
  workers,      (* worker_count                                        *)
  Values,       (* latencies that occur                                *)
  highest,      (* arguments of kv_hist_init; its lowest is always 1   *)
  sigfigs,
  MaxSamples    (* bound: samples of one worker                        *)

ASSUME HistAssumption ==
  /\ workers \in Nat \ {0} /\ MaxSamples \in Nat
  /\ highest \in Nat \ {0, 1} /\ sigfigs \in 1 .. 5 /\ Values \subseteq Nat

Worker == 1 .. workers

VARIABLES
  hist,       (* the workers' histograms                                     *)
  recording,  (* the value a worker has counted in a bucket only; 0 for none *)
  samples,    (* history: how often each worker recorded which value         *)
  running,    (* the workers that have not returned                          *)
  stop,       (* ctx->stop                                                   *)
  sampler,    (* "test", "sleep", "scan" or "ended"                          *)
  pos,        (* how many buckets the sampler has read                       *)
  current, previous, interval,   (* the three histograms of latency_window_t *)
  reported,   (* history: sum of all intervals                               *)
  before,     (* history: what was recorded when the last scan began         *)
  merged      (* the summary's histogram, or no histogram yet                *)

workerVars == <<hist, recording, samples, running>>
samplerVars == <<sampler, pos, current, previous, interval, reported, before>>
vars == <<workerVars, stop, samplerVars, merged>>
-----------------------------------------------------------------------------
(***************************************************************************)
(* The bucket arithmetic.                                                  *)
(***************************************************************************)

\* 64 - kv_hist_leading_zeros64(n).
BitLength(n) == CHOOSE k \in 0 .. 30 : n < 2^k /\ (k = 0 \/ n >= 2^(k - 1))

\* kv_hist_init: the smallest power of two that is no less than
\* largest_value_with_single_unit_resolution.
sub_bucket_count_magnitude == BitLength(2 * 10^sigfigs - 1)
sub_bucket_half_count_magnitude == sub_bucket_count_magnitude - 1
sub_bucket_half_count == 2^sub_bucket_half_count_magnitude

\* kv_hist_init: buckets are added until the last one covers highest.
bucket_count ==
  CHOOSE b \in 1 .. 30 :
    /\ (2^sub_bucket_count_magnitude - 1) * 2^(b - 1) >= highest
    /\ b = 1 \/ (2^sub_bucket_count_magnitude - 1) * 2^(b - 2) < highest

counts_array_length == (bucket_count + 1) * sub_bucket_half_count

\* Mutant: the second bucket begins where the linear part would end in the
\* layout of the original.
BucketOneLess(value) ==
  IF value < 2 * sub_bucket_half_count THEN 0
  ELSE BitLength(value) - sub_bucket_half_count_magnitude

\* kv_hist_get_bucket_index; or-ing the mask in makes every value at least
\* sub_bucket_count_magnitude bits long.
kv_hist_get_bucket_index(value) ==
  LET bits == Max({BitLength(value), sub_bucket_count_magnitude})
  IN  IF value < sub_bucket_half_count THEN 0
      ELSE bits - sub_bucket_half_count_magnitude

\* The position kv_hist_record computes for a value.
IndexOf(value) ==
  LET bucket == kv_hist_get_bucket_index(value)
  IN  bucket * sub_bucket_half_count + value \div 2^bucket

\* kv_hist_value_from_index, of the two parts of a position.
ValueAt(index) ==
  ((index % sub_bucket_half_count) + 1) * 2^(index \div sub_bucket_half_count)

\* The range check at the head of kv_hist_record.
Clamp(value) == Max({1, Min({value, highest})})

Index == {IndexOf(Clamp(v)) : v \in Values}
IndexSeq ==
  [n \in 1 .. Cardinality(Index) |->
     CHOOSE i \in Index : Cardinality({j \in Index : j <= i}) = n]
-----------------------------------------------------------------------------
(***************************************************************************)
(* Histograms as values.                                                   *)
(***************************************************************************)
UINT64_MAX == 2^30

\* kv_hist_reset.
EmptyHist == [counts |-> [i \in Index |-> 0], total |-> 0, min |-> UINT64_MAX, max |-> 0]

\* c samples of bucket i, known by the bucket's value only: the loop body of
\* kv_hist_merge_snapshot and of kv_hist_delta.
AddBucket(h, i, c) ==
  IF c = 0 THEN h
  ELSE [counts |-> [h.counts EXCEPT ![i] = @ + c], total |-> h.total + c,
        min |-> Min({h.min, ValueAt(i)}), max |-> Max({h.max, ValueAt(i)})]

\* Mutant: every interval after the first is empty of a bucket seen before.
DeltaFirstSeen(new, old) ==
  LET added(i) == IF old.counts[i] = 0 THEN new.counts[i] ELSE 0
  IN  FoldLeft(LAMBDA h, i : AddBucket(h, i, added(i)), EmptyHist, IndexSeq)

\* kv_hist_delta.
kv_hist_delta(new, old) ==
  LET added(i) == IF new.counts[i] >= old.counts[i]
                  THEN new.counts[i] - old.counts[i] ELSE new.counts[i]
  IN  FoldLeft(LAMBDA h, i : AddBucket(h, i, added(i)), EmptyHist, IndexSeq)

\* kv_hist_merge.
kv_hist_merge(dst, src) ==
  [counts |-> [i \in Index |-> dst.counts[i] + src.counts[i]],
   total |-> dst.total + src.total,
   min |-> Min({dst.min, src.min}), max |-> Max({dst.max, src.max})]

\* The rank kv_hist_value_at_percentile looks for: p% of n, rounded.
Rank(p, n) == Max({1, (2 * p * n + 100) \div 200})

\* Samples in the buckets up to i.
UpTo(h, i) == FoldLeft(LAMBDA n, j : IF j <= i THEN n + h.counts[j] ELSE n, 0, IndexSeq)

\* Mutant: the loop stops one sample too late.
PercentileAfter(h, p) ==
  LET reached == {i \in Index : UpTo(h, i) > Rank(p, h.total)}
  IN  IF h.total = 0 THEN 0
      ELSE IF reached = {} THEN h.max ELSE ValueAt(Min(reached))

kv_hist_value_at_percentile(h, p) ==
  LET reached == {i \in Index : UpTo(h, i) >= Rank(p, h.total)}
  IN  IF h.total = 0 THEN 0
      ELSE IF reached = {} THEN h.max ELSE ValueAt(Min(reached))
-----------------------------------------------------------------------------
(***************************************************************************)
(* The workers.                                                            *)
(***************************************************************************)
NoHist == [total |-> -1]

Init ==
  /\ hist = [w \in Worker |-> EmptyHist]
  /\ recording = [w \in Worker |-> 0]
  /\ samples = [w \in Worker |-> [v \in Values |-> 0]]
  /\ running = Worker /\ stop = FALSE
  /\ sampler = "test" /\ pos = 0
  /\ current = EmptyHist /\ previous = EmptyHist /\ interval = EmptyHist
  /\ reported = [i \in Index |-> 0] /\ before = [i \in Index |-> 0]
  /\ merged = NoHist

Recorded(w) == SumFunction(samples[w])

\* kv_hist_record up to the atomic increment; a position outside the array is
\* ignored.
RecordCount(w, v) ==
  /\ w \in running /\ recording[w] = 0 /\ Recorded(w) < MaxSamples
  /\ samples' = [samples EXCEPT ![w][v] = @ + 1]
  /\ IF IndexOf(Clamp(v)) >= counts_array_length THEN UNCHANGED <<hist, recording>>
     ELSE /\ hist' = [hist EXCEPT ![w].counts[IndexOf(Clamp(v))] = @ + 1]
          /\ recording' = [recording EXCEPT ![w] = Clamp(v)]
  /\ UNCHANGED <<running, stop, samplerVars, merged>>

\* The rest of kv_hist_record; nobody else reads these fields until the worker
\* is joined.
RecordTotal(w) ==
  /\ recording[w] # 0
  /\ hist' = [hist EXCEPT ![w].total = @ + 1,
                          ![w].min = Min({@, recording[w]}),
                          ![w].max = Max({@, recording[w]})]
  /\ recording' = [recording EXCEPT ![w] = 0]
  /\ UNCHANGED <<samples, running, stop, samplerVars, merged>>

WorkerReturns(w) ==
  /\ w \in running /\ recording[w] = 0
  /\ running' = running \ {w}
  /\ UNCHANGED <<hist, recording, samples, stop, samplerVars, merged>>

\* run_client sets stop when it has joined the workers.
Stop ==
  /\ running = {} /\ ~stop
  /\ stop' = TRUE
  /\ UNCHANGED <<workerVars, samplerVars, merged>>
-----------------------------------------------------------------------------
(***************************************************************************)
(* The sampler and the summary.                                            *)
(***************************************************************************)

\* The head of the loop of client_sampler_main.
SamplerTest ==
  /\ sampler = "test"
  /\ sampler' = IF stop THEN "ended" ELSE "sleep"
  /\ UNCHANGED <<workerVars, stop, pos, current, previous, interval, reported, before, merged>>

\* Samples that all workers have put into bucket i.
Counted(i) == FoldFunction(LAMBDA h, n : h.counts[i] + n, 0, hist)

\* After its sleep it takes a sample, also when stop was set meanwhile.
SamplerWakes ==
  /\ sampler = "sleep"
  /\ sampler' = "scan" /\ pos' = 0
  /\ current' = EmptyHist
  /\ before' = [i \in Index |-> Counted(i)]
  /\ UNCHANGED <<workerVars, stop, previous, interval, reported, merged>>

\* kv_hist_merge_snapshot reads the next bucket of the next worker.
SamplerReads ==
  LET w == (pos \div Len(IndexSeq)) + 1
      i == IndexSeq[(pos % Len(IndexSeq)) + 1]
  IN  /\ sampler = "scan" /\ w \in Worker
      /\ current' = AddBucket(current, i, hist[w].counts[i])
      /\ pos' = pos + 1
      /\ UNCHANGED <<workerVars, stop, sampler, previous, interval, reported, before, merged>>

\* Mutant: the snapshot is not kept.
SampleNotKept ==
  /\ sampler = "scan" /\ pos = workers * Len(IndexSeq)
  /\ interval' = kv_hist_delta(current, previous)
  /\ reported' = [i \in Index |-> reported[i] + interval'.counts[i]]
  /\ sampler' = "test"
  /\ UNCHANGED <<workerVars, stop, pos, current, previous, before, merged>>

\* The end of latency_window_sample: the interval and the next baseline.
SamplerReports ==
  /\ sampler = "scan" /\ pos = workers * Len(IndexSeq)
  /\ interval' = kv_hist_delta(current, previous)
  /\ previous' = current
  /\ reported' = [i \in Index |-> reported[i] + interval'.counts[i]]
  /\ sampler' = "test"
  /\ UNCHANGED <<workerVars, stop, pos, current, before, merged>>

\* print_client_summary, after the sampler is joined.
Summary ==
  /\ sampler = "ended" /\ merged = NoHist
  /\ merged' = FoldFunction(kv_hist_merge, EmptyHist, hist)
  /\ UNCHANGED <<workerVars, stop, samplerVars>>

Exit == merged # NoHist /\ UNCHANGED vars

Next ==
  \/ \E w \in Worker, v \in Values : RecordCount(w, v)
  \/ \E w \in Worker : RecordTotal(w) \/ WorkerReturns(w)
  \/ Stop \/ SamplerTest \/ SamplerWakes \/ SamplerReads \/ SamplerReports
  \/ Summary \/ Exit

Spec == Init /\ [][Next]_vars
-----------------------------------------------------------------------------
Histogram ==
  [counts : [Index -> Nat], total : Nat, min : 1 .. UINT64_MAX, max : Nat]

TypeOK ==
  /\ hist \in [Worker -> Histogram] /\ recording \in [Worker -> 0 .. highest]
  /\ samples \in [Worker -> [Values -> 0 .. MaxSamples]]
  /\ running \subseteq Worker /\ stop \in BOOLEAN
  /\ sampler \in {"test", "sleep", "scan", "ended"}
  /\ pos \in 0 .. workers * Len(IndexSeq)
  /\ {current, previous, interval} \subseteq Histogram
  /\ reported \in [Index -> Nat] /\ before \in [Index -> Nat]
  /\ merged \in Histogram \cup {NoHist}

\* The intervals that were printed share no sample: together they have at most
\* what the workers recorded (DESIGN.md: an interval is the difference of two
\* cumulative snapshots).  The state is well typed.
IntervalsDisjoint == TypeOK /\ \A i \in Index : reported[i] <= Counted(i)

\* A sample recorded before a scan began is in one of the intervals when the
\* scan is over, although its worker may record in between.
NothingOverlooked ==
  sampler \in {"test", "ended"} => \A i \in Index : before[i] <= reported[i]

\* How many samples of all workers are at most v.
AtMost(v) ==
  LET low(f) == SumFunctionOnSet(f, {u \in Values : Clamp(u) <= Clamp(v)})
  IN  FoldFunction(LAMBDA f, n : low(f) + n, 0, samples)

AllSamples == FoldFunction(LAMBDA f, n : SumFunction(f) + n, 0, samples)

\* The summary tells the truth about the samples: how many there were, the
\* exact extremes, and as percentile the upper end of the bucket that holds the
\* sample of that rank.
SummaryExact ==
  merged # NoHist =>
    LET taken == {v \in Values : \E w \in Worker : samples[w][v] > 0}
        ranked(p) == {v \in taken : AtMost(v) >= Rank(p, AllSamples)}
        nearest(p) == CHOOSE v \in ranked(p) : \A u \in ranked(p) : Clamp(v) <= Clamp(u)
    IN  /\ merged.total = AllSamples
        /\ taken # {} =>
             /\ merged.min = Min({Clamp(v) : v \in taken})
             /\ merged.max = Max({Clamp(v) : v \in taken})
             /\ \A p \in {50, 90, 99, 100} :
                  kv_hist_value_at_percentile(merged, p) = ValueAt(IndexOf(Clamp(nearest(p))))

\* The position of latency v is inside the array and no lower than that of a
\* lower latency, and the value reported for it is above v by no more than one
\* or a 2^(half magnitude - 1)-th of v.
FitsItsBucket(v) ==
  /\ IndexOf(v) < counts_array_length /\ IndexOf(v - 1) <= IndexOf(v)
  /\ ValueAt(IndexOf(v)) - v \in 1 .. Max({1, v \div 2^(sub_bucket_half_count_magnitude - 1)})

\* Whatever the latencies were, no percentile of the summary is further off
\* than a bucket is wide: every latency up to the highest one that was recorded
\* fits its bucket (SummaryExact says which bucket is reported).
BucketsHoldTheirValues ==
  merged # NoHist => \A v \in 1 .. merged.max : FitsItsBucket(v)
=============================================================================
