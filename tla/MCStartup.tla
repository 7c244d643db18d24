----------------------------- MODULE MCStartup ------------------------------
(* Small environments, keys and DNS answers for Startup, and instances of  *)
(* what a started program works with: the schedule its policy gives        *)
(* (HaSchedule) and the admission objects it owns (Admission).  The three  *)
(* share no state: a behaviour is one of one of them, and the variables of *)
(* the others keep a first value.                                          *)
EXTENDS Startup, Admission, HaSchedule

\* Texts of up to three digits, around the limits 25, 255 and 256, and some
\* that are no plain numbers.
Numerals == UNION {[1..n -> {0, 2, 5, 6}] : n \in 0..3}
NumberTexts == Numerals \cup
    {<<Letter>>, <<2, Letter>>, <<Minus, 2>>, <<Blank, 5>>, <<Plus, 5>>,
     <<Minus>>, <<Minus, 2, 5, 0>>, <<Plus, Minus, 2>>, <<5, Blank>>}

TextsOf == [TENANT |-> {<<>>, <<Letter>>},
            AUTH_KEY |-> {<<>>, <<Letter>>},
            HOST |-> {<<>>, <<Letter>>, <<Letter, Letter>>},
            PORT |-> NumberTexts,
            UNIT_MS |-> NumberTexts,
            REPLAY_COUNT |-> NumberTexts,
            PROFILE |-> {<<>>, <<1>>, <<2>>, <<1, 1>>}]
Names == DOMAIN TextsOf

Few == {<<>>, <<0>>, <<2, 5>>, <<2, 6>>, <<2, 5, 6>>, <<Letter>>, <<Minus, 2>>}

\* A key, and one more variable with any text, host and port with any, or
\* two others with one of a few; and no key.
MCEnvironments ==
    LET Key == [AUTH_KEY |-> <<Letter>>]
        One(v) == {[x \in {v} |-> t] : t \in TextsOf[v]}
        Two(v, w, T, U) == {[x \in {v, w} |-> IF x = v THEN t ELSE u] :
                               t \in T, u \in U}
        Some(v) == IF v \in {"PORT", "UNIT_MS", "REPLAY_COUNT"}
                   THEN Few ELSE TextsOf[v]
        Pairs == UNION {Two(v, w, Some(v), Some(w)) :
                           v \in Names \ {"AUTH_KEY"},
                           w \in Names \ {"AUTH_KEY"}}
        Fixed == Two("HOST", "PORT", TextsOf["HOST"], TextsOf["PORT"])
        Tenanted == {e @@ [TENANT |-> <<Letter>>] :
                     e \in Two("HOST", "PORT", {<<Letter>>}, Few)}
    IN  {e @@ Key : e \in Pairs \cup Fixed \cup Tenanted
                         \cup UNION {One(v) : v \in Names}}
        \cup {e @@ [AUTH_KEY |-> <<>>] : e \in Tenanted}
        \cup Tenanted \cup {Key}

\* Every field of the quota word at its lowest, its highest and the limits.
Lowest == <<0, 0, 0, 0, 1, 0>>
MCFields ==
    {[Lowest EXCEPT ![i] = x] : i \in {1, 2}, x \in {0, 24, 25, 31}}
    \cup {[Lowest EXCEPT ![3] = x] : x \in {1, 31}}
    \cup {[Lowest EXCEPT ![4] = x] : x \in {1, 15}}
    \cup {[Lowest EXCEPT ![5] = x] : x \in {0, 1, 128, 200, 201, 255}}
    \cup {[Lowest EXCEPT ![6] = x] : x \in {1, 30, 31}}
    \cup {<<24, 24, 31, 15, 200, 31>>}

MCIssued ==
    {[hrp |-> h, id |-> {0, 63}, fields |-> f] :
        h \in {"rl-cookie", "rl-aes"}, f \in MCFields}
    \cup {[hrp |-> "rl-aes", id |-> i, fields |-> Lowest] :
             i \in {{}, {7}, {8}, 0..63}}

\* One issued key with one thing wrong with it.
Good == Issue("rl-aes", {0, 63}, Lowest)
Flawed ==
    {[Good EXCEPT !.text = t] : t \in {"empty", "control", "mixed"}}
    \cup {[Good EXCEPT !.hrp = h] : h \in {"none", "empty", "rl-other"}}
    \cup {[Good EXCEPT !.chars = n] : n \in {5, 6, 77, 79, 80}}
    \cup {[Good EXCEPT !.alphabet = FALSE], [Good EXCEPT !.checksum = FALSE],
          [Good EXCEPT !.chars = 80, !.pad = 1],
          [Good EXCEPT !.version = 0], [Good EXCEPT !.version = 2]}

MCKeys == {Text[i] : i \in MCIssued} \cup Flawed

MCClaims ==
    [type : {"none", "cookie", "aes"}, id : {{}, {0}, {0, 63}}]

Srv(t, p, s) == [type |-> "srv", class |-> "in", whole |-> TRUE,
                 target |-> t, port |-> p, ttl |-> s]

\* Two servers, one of them with two ports, numbers at the end of 64 bits
\* and past it, TTLs of zero, short, and past 32 bits, and records that are
\* not to be used.
MCRecords ==
    {Srv(<<1>>, 1, 3), Srv(<<1>>, 2, 0), Srv(<<2, 5, 5>>, 1, 9),
     Srv(<<2, 5, 7>>, 1, 8), Srv(NotServer, 1, 1), Srv(<<>>, 1, 1),
     [Srv(<<2>>, 1, 1) EXCEPT !.type = "cname"],
     [Srv(<<2>>, 2, 2) EXCEPT !.class = "other"],
     [Srv(<<2>>, 1, 1) EXCEPT !.whole = FALSE]}
MCReplies == UNION {[1..n -> MCRecords] : n \in 0..3}

Addr(f, n) == [family |-> f, n |-> n]
MCTargets == {r.target : r \in MCRecords}
MCBooks ==
    {[t \in MCTargets |->
        CASE t = <<1>> -> one
          [] t = <<2>> -> <<Addr("v4", 2)>>
          [] OTHER -> rest] :
        one \in {<<>>, <<Addr("v6", 1), Addr("other", 1), Addr("v4", 1)>>},
        rest \in {<<>>, <<Addr("v4", 3)>>}}

MCDefaultPolicy == [unit |-> 20, replay |-> 2]

VARIABLE machine

mcVars == <<machine, startupVars, vars, scheduleVars>>

StartupParked == StartupInit /\ host = "runtime"

ScheduleParked ==
    /\ policy = [unit_ms |-> 0, replay_count |-> 0, final_receive_units |-> 0,
                 replay_gap |-> [kind |-> "FIXED", initial_units |-> 0,
                                 max_units |-> 0, growth |-> 0]]
    /\ quota = 0 /\ phase = "new" /\ start = 0 /\ dedup_ttl_ms = 0
    /\ round = 0 /\ deadline = 0

MCInit ==
    /\ Init
    /\ \/ machine = "startup" /\ StartupInit /\ ScheduleParked
       \/ machine = "admission" /\ StartupParked /\ ScheduleParked
       \/ machine = "schedule" /\ StartupParked /\ ScheduleInit

MCNext ==
    /\ UNCHANGED machine
    /\ \/ machine = "startup" /\ StartupNext /\ UNCHANGED <<vars, scheduleVars>>
       \/ machine = "admission" /\ Next /\ UNCHANGED <<startupVars, scheduleVars>>
       \/ machine = "schedule" /\ ScheduleNext /\ UNCHANGED <<startupVars, vars>>

\* The bound on the uses of an admission and the end of a schedule stop two
\* of the machines.
MCSpec == MCInit /\ [][MCNext]_mcVars
=============================================================================
