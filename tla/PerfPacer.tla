------------------------------ MODULE PerfPacer ------------------------------
(***************************************************************************)
(* The pure parts of the load generator: the fixed-rate schedule of        *)
(* bin/perf_pacer.h and the latency histogram of bin/perf_latency_hist.h,  *)
(* with the second, the length of a tick and the bins as parameters.       *)
(***************************************************************************)
EXTENDS Integers, FiniteSetsExt

CONSTANTS
    Second,         \* clock ticks (nanoseconds) of a second
    TickUs,         \* microseconds of a tick
    Bins            \* upper ends and widths of the three ranges of bins

ASSUME PacerAssumption ==
    /\ Second \in Nat \ {0}
    /\ TickUs \in Nat \ {0}
    /\ Bins \in [fine : Nat, mid : Nat, top : Nat, midWidth : Nat \ {0},
                 topWidth : Nat \ {0}]
    /\ Bins.fine <= Bins.mid /\ Bins.mid <= Bins.top
    /\ (Bins.mid - Bins.fine) % Bins.midWidth = 0
    /\ (Bins.top - Bins.mid) % Bins.topWidth = 0

-----------------------------------------------------------------------------
(* perf_pacer_t                                                            *)

\* perf_pacer_init: no pacer if a parameter is out of range.
PacerAccepts(rps, count, id, duration) ==
    rps > 0 /\ count > 0 /\ id < count /\ duration > 0

\* The deadline of a slot, from the start of the schedule.
Offset(rps, slot) == (slot * Second) \div rps

\* Mutant: rounded down, the slot that has just passed is used again.
FloorSlot(rps, elapsed) == (elapsed * rps) \div Second

\* The first slot of all workers whose deadline has not passed.
CurrentSlot(rps, elapsed) == (elapsed * rps + Second - 1) \div Second

\* The first ordinal of this worker at or after that slot.
DesiredOrdinal(current, count, id) ==
    IF current > id THEN (current - id + count - 1) \div count ELSE 0

\* Every worker owns the slots id, id + count, id + 2 * count, ...
SlotOf(id, ordinal, count) == id + ordinal * count

\* perf_pacer_next, as the ordinal it settles on.
PacerOrdinal(rps, count, id, next, elapsed) ==
    Max({next, DesiredOrdinal(CurrentSlot(rps, elapsed), count, id)})

-----------------------------------------------------------------------------
(* The histogram                                                           *)

MidBins == (Bins.mid - Bins.fine) \div Bins.midWidth
TopBins == (Bins.top - Bins.mid) \div Bins.topWidth
Overflow == Bins.fine + MidBins + TopBins
Bucket == 0 .. Overflow

perf_latency_bucket(us) ==
    CASE us < Bins.fine -> us
      [] us >= Bins.fine /\ us < Bins.mid ->
            Bins.fine + (us - Bins.fine) \div Bins.midWidth
      [] us >= Bins.mid /\ us < Bins.top ->
            Bins.fine + MidBins + (us - Bins.mid) \div Bins.topWidth
      [] OTHER -> Overflow

perf_latency_bucket_upper_us(b) ==
    CASE b < Bins.fine -> b + 1
      [] b >= Bins.fine /\ b < Bins.fine + MidBins ->
            Bins.fine + (b - Bins.fine + 1) * Bins.midWidth
      [] b >= Bins.fine + MidBins /\ b < Overflow ->
            Bins.mid + (b - Bins.fine - MidBins + 1) * Bins.topWidth
      [] OTHER -> Bins.top

\* Mutant: rounded down, the rank misses the slowest answers.
RankDown(total, percentile) == (total * percentile) \div 100

Rank(total, percentile) == (total * percentile + 99) \div 100

\* The sum of the first n numbers of f, whose domain begins at 0.
SumFirst(f, n) ==
    LET sum[i \in 0 .. n] == IF i = 0 THEN 0 ELSE sum[i - 1] + f[i - 1]
    IN  sum[n]

Seen(hist, b) == SumFirst(hist, b + 1)

\* The first bucket at which the rank has been seen, else 0.
perf_latency_percentile_upper_us(hist, total, percentile) ==
    LET reached == {b \in Bucket : Seen(hist, b) >= Rank(total, percentile)} IN
    IF total = 0 \/ reached = {} THEN 0
    ELSE perf_latency_bucket_upper_us(Min(reached))
=============================================================================
