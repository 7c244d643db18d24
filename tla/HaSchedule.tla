---------------------------- MODULE HaSchedule ----------------------------
(***************************************************************************)
(* The arithmetic of a request's schedule, src/src/r_client.c: the units   *)
(* of a round (r_ha_schedule_units), the deduplication TTL announced to    *)
(* the servers (r_request_policy_ttl_ms) and the deadlines the rounds walk *)
(* through (r_start_round, r_enter_final), in C's unsigned arithmetic.     *)
(* The module is instantiated with words small enough for every policy to  *)
(* be tried; it shows that PolicyAssumption of RateClient is what an       *)
(* accepted policy gives.                                                  *)
(***************************************************************************)
EXTENDS Integers

CONSTANTS
    UINT32_MAX,
    UINT64_MAX,
    MaxReplayCount, \* R_CLIENT_HA_MAX_REPLAY_COUNT
    UnitMs,         \* values of unit_ms to try
    FinalUnits,     \* values of final_receive_units to try
    QuotaMs,        \* values of dedup_ttl_ms_max to try
    StartMs         \* clock values to submit at

ASSUME WidthAssumption ==
    /\ UINT32_MAX \in Nat \ {0}
    /\ UINT64_MAX \in Nat
    /\ UINT64_MAX >= UINT32_MAX * (UINT32_MAX + 2)
    /\ MaxReplayCount \in 0 .. UINT32_MAX - 1
    /\ UnitMs \subseteq 0 .. UINT64_MAX
    /\ FinalUnits \subseteq 0 .. UINT32_MAX
    /\ QuotaMs \subseteq 0 .. UINT32_MAX
    /\ StartMs \subseteq 0 .. UINT64_MAX

VARIABLES
    policy,         \* client->policy
    quota,          \* client->quotas.dedup_ttl_ms_max
    phase,          \* of the request
    start,          \* req->start_ms
    dedup_ttl_ms,   \* req->dedup_ttl_ms
    round,          \* req->ha_round
    deadline        \* req->ha_round_deadline_ms

scheduleVars == <<policy, quota, phase, start, dedup_ttl_ms, round, deadline>>

UInt32 == 0 .. UINT32_MAX
Wrap32(n) == n % (UINT32_MAX + 1)
Wrap64(n) == n % (UINT64_MAX + 1)

\* A call returned RCLIENT_ERR_CONFIG.
Error == -1

Kind == {"FIXED", "LINEAR", "EXPONENTIAL"}

\* growth is the union of step and factor; a fixed schedule reads neither.
Schedule ==
    {s \in [kind : Kind, initial_units : UInt32, max_units : UInt32,
            growth : UInt32] : s.kind = "FIXED" => s.growth = 0}

Policy ==
    [unit_ms : UnitMs, replay_count : 0 .. MaxReplayCount + 1,
     replay_gap : Schedule, final_receive_units : FinalUnits]

\* Mutant: the sum is capped after it has been computed.
LinearCappedLate(s, k) ==
    IF Wrap32(s.initial_units + Wrap32(k * s.growth)) > s.max_units
        THEN s.max_units
        ELSE Wrap32(s.initial_units + Wrap32(k * s.growth))

Linear(s, k) ==
    IF k > (s.max_units - s.initial_units) \div s.growth
        THEN s.max_units
        ELSE Wrap32(s.initial_units + Wrap32(k * s.growth))

Exponential(s, k) ==
    LET value[i \in 0 .. k] ==
            IF i = 0 THEN s.initial_units
            ELSE IF value[i - 1] >= s.max_units THEN value[i - 1]
            ELSE IF value[i - 1] > s.max_units \div s.growth THEN s.max_units
            ELSE Wrap32(value[i - 1] * s.growth)
    IN  value[k]

r_ha_schedule_units(s, k) ==
    IF \/ s.initial_units = 0
       \/ s.initial_units > s.max_units
       \/ s.kind = "LINEAR" /\ s.growth = 0
       \/ s.kind = "EXPONENTIAL" /\ s.growth < 2
        THEN Error
        ELSE CASE s.kind = "FIXED" -> s.initial_units
               [] s.kind = "LINEAR" -> Linear(s, k)
               [] s.kind = "EXPONENTIAL" -> Exponential(s, k)

Limit == IF quota > 0 THEN quota ELSE UINT32_MAX

\* Round i is added to the units of the rounds before it.
AddGap(p, before, i) ==
    LET gap == r_ha_schedule_units(p.replay_gap, i)
    IN  IF \/ before = Error
           \/ gap = Error
           \/ before > UINT64_MAX - gap
           \/ Wrap64(before + gap) > Limit \div p.unit_ms
            THEN Error
            ELSE Wrap64(before + gap)

(* The loop over the rounds: the units of the rounds up to k, or Error as  *)
(* soon as they are too many.                                              *)
TotalUnits(p, k) ==
    LET total[i \in 0 .. k] ==
            IF i = 0 THEN AddGap(p, 0, 0) ELSE AddGap(p, total[i - 1], i)
    IN  total[k]

\* Mutant: the receive-only phase is not announced.
TtlWithoutFinal(p) ==
    IF p.unit_ms = 0 \/ p.replay_count > MaxReplayCount \/ p.unit_ms > Limit
        THEN Error
        ELSE LET total == TotalUnits(p, p.replay_count)
             IN  IF total = Error THEN Error ELSE Wrap32(Wrap64(total * p.unit_ms))

r_request_policy_ttl_ms(p) ==
    IF p.unit_ms = 0 \/ p.replay_count > MaxReplayCount \/ p.unit_ms > Limit
        THEN Error
        ELSE LET rounds == TotalUnits(p, p.replay_count)
                 total == Wrap64(rounds + p.final_receive_units)
             IN  IF \/ rounds = Error
                    \/ rounds > UINT64_MAX - p.final_receive_units
                    \/ total = 0
                    \/ total > UINT32_MAX \div p.unit_ms
                    \/ total > Limit \div p.unit_ms
                    THEN Error
                    ELSE Wrap32(Wrap64(total * p.unit_ms))

-----------------------------------------------------------------------------
ScheduleInit ==
    /\ policy \in Policy
    /\ quota \in QuotaMs
    /\ phase = "new"
    /\ start = 0
    /\ dedup_ttl_ms = 0
    /\ round = 0
    /\ deadline = 0

\* The deadline of a window of units that begins at b.
WindowEnd(b, units) == Wrap64(b + Wrap64(policy.unit_ms * units))

\* r_client_check_rate_limit_async_impl with the clock at t.
SubmitRefused(t) ==
    /\ phase = "new"
    /\ LET announced == r_request_policy_ttl_ms(policy)
       IN  announced \in {Error, 0} \/ t > UINT64_MAX - announced
    /\ phase' = "refused"
    /\ start' = t
    /\ UNCHANGED <<policy, quota, dedup_ttl_ms, round, deadline>>

SubmitPolicy(t) ==
    /\ phase = "new"
    /\ LET announced == r_request_policy_ttl_ms(policy)
       IN  /\ announced \notin {Error, 0}
           /\ t <= UINT64_MAX - announced
           /\ dedup_ttl_ms' = announced
    /\ start' = t
    /\ phase' = "ROUND"
    /\ round' = 0
    /\ deadline' = WindowEnd(t, r_ha_schedule_units(policy.replay_gap, 0))
    /\ UNCHANGED <<policy, quota>>

\* r_start_round for a replay, from the end of the round before.
StartRound ==
    /\ phase = "ROUND"
    /\ round < policy.replay_count
    /\ round' = round + 1
    /\ deadline' = WindowEnd(deadline,
                        r_ha_schedule_units(policy.replay_gap, round + 1))
    /\ UNCHANGED <<policy, quota, phase, start, dedup_ttl_ms>>

EnterFinal ==
    /\ phase = "ROUND"
    /\ round = policy.replay_count
    /\ policy.final_receive_units > 0
    /\ phase' = "FINAL"
    /\ deadline' = WindowEnd(deadline, policy.final_receive_units)
    /\ UNCHANGED <<policy, quota, start, dedup_ttl_ms, round>>

ScheduleNext ==
    \/ \E t \in StartMs : SubmitPolicy(t) \/ SubmitRefused(t)
    \/ StartRound
    \/ EnterFinal

ScheduleSpec == ScheduleInit /\ [][ScheduleNext]_scheduleVars

-----------------------------------------------------------------------------
(* The reference: the schedule in unbounded arithmetic.                    *)

\* g to the power of k.
Power(g, k) ==
    LET power[i \in 0 .. k] == IF i = 0 THEN 1 ELSE power[i - 1] * g
    IN  power[k]

Units(s, k) ==
    LET grown == CASE s.kind = "FIXED" -> s.initial_units
                   [] s.kind = "LINEAR" -> s.initial_units + k * s.growth
                   [] s.kind = "EXPONENTIAL" -> s.initial_units * Power(s.growth, k)
    IN  IF grown < s.max_units THEN grown ELSE s.max_units

WellFormed(s) ==
    /\ s.initial_units \in 1 .. s.max_units
    /\ s.kind = "LINEAR" => s.growth >= 1
    /\ s.kind = "EXPONENTIAL" => s.growth >= 2

\* The units of the rounds up to k.
SumUnits(s, k) ==
    LET sum[i \in 0 .. k] == IF i = 0 THEN Units(s, 0) ELSE sum[i - 1] + Units(s, i)
    IN  sum[k]

WholeMs(p) ==
    p.unit_ms * (SumUnits(p.replay_gap, p.replay_count) + p.final_receive_units)

ScheduleTypeOK ==
    /\ policy \in Policy
    /\ quota \in QuotaMs
    /\ phase \in {"new", "refused", "ROUND", "FINAL"}
    /\ start \in 0 .. UINT64_MAX
    /\ dedup_ttl_ms \in UInt32
    /\ round \in 0 .. policy.replay_count
    /\ deadline \in 0 .. UINT64_MAX

(* The announced TTL is the length of the whole schedule, no product or    *)
(* sum having wrapped, and a policy is refused exactly if its schedule is  *)
(* malformed, too long for the credential, or would pass the end of the    *)
(* clock (r_request_policy_ttl_ms, docs/api.md "Resource-Request HA        *)
(* Policy").                                                               *)
TtlIsWholeSchedule ==
    LET legal == /\ policy.unit_ms > 0
                 /\ policy.replay_count <= MaxReplayCount
                 /\ WellFormed(policy.replay_gap)
                 /\ WholeMs(policy) <= Limit
                 /\ start + WholeMs(policy) <= UINT64_MAX
    IN  /\ phase \in {"ROUND", "FINAL"} => legal /\ dedup_ttl_ms = WholeMs(policy)
        /\ phase = "refused" => ~legal

(* The last window the rounds walk to ends exactly when the announced TTL  *)
(* does, so no server forgets a request the client still replays or waits  *)
(* for, and none keeps it longer (r_start_round, r_enter_final).           *)
WalkEndsAtTtl ==
    \/ phase = "FINAL"
    \/ phase = "ROUND" /\ round = policy.replay_count
                       /\ policy.final_receive_units = 0
    => deadline = start + dedup_ttl_ms

(* The inductive invariant: WalkEndsAtTtl speaks of the last window only,  *)
(* WindowsInv of where each one ends.                                      *)
WindowsInv ==
    /\ phase = "ROUND" =>
           deadline = start + policy.unit_ms * SumUnits(policy.replay_gap, round)
    /\ phase = "FINAL" => deadline = start + dedup_ttl_ms

ScheduleInv == ScheduleTypeOK /\ TtlIsWholeSchedule /\ WindowsInv

=============================================================================
