----------------------------- MODULE EnvOptions -----------------------------
(***************************************************************************)
(* r_runtime_options_from_env of r_client_runtime.c: how the environment   *)
(* of a program becomes the options of its client.  An environment is a    *)
(* function on the variables that are set; a text is a sequence of         *)
(* characters, of which the numbers 0 to 9 are the digits.                 *)
(***************************************************************************)
EXTENDS Integers, Sequences, SequencesExt

CONSTANTS
    U64,            \* one more than UINT64_MAX
    PortMax,        \* UINT16_MAX
    MaxReplay,      \* R_CLIENT_HA_MAX_REPLAY_COUNT
    HostCapacity,   \* sizeof(runtime->server_host)
    DefaultPolicy   \* r_client_default_request_policy

ASSUME EnvAssumption ==
    /\ U64 \in Nat \ {0}
    /\ PortMax \in 1..(U64 - 1)
    /\ MaxReplay \in 0..(U64 - 1)
    /\ HostCapacity \in Nat \ {0}
    /\ DefaultPolicy \in [unit : 1..(U64 - 1), replay : 0..MaxReplay]

Digit == 0..9
Minus == 10
Plus == 11
Blank == 12
Letter == 13
Char == Digit \cup {Minus, Plus, Blank, Letter}

\* A number that could not be read, and a number that was too large.
Refused == -1
TooLarge == -2

\* The code's test for a variable that is set and not empty.
Given(env, v) == v \in DOMAIN env /\ env[v] # <<>>

-----------------------------------------------------------------------------
(* Reading numbers                                                         *)

\* What a loop makes of the first n characters of a text: it starts at 0, and
\* each turn takes what it has so far and a character.
AfterTurns(turn, text, n) ==
    LET at[i \in 0..n] == IF i = 0 THEN 0 ELSE turn[at[i - 1]][text[i]]
    IN  at[n]

\* Mutant: the last digit may carry the number over the maximum.
TakeDigitUnchecked(max, parsed, c) ==
    IF parsed = Refused \/ c \notin Digit \/ parsed > max \div 10
    THEN Refused
    ELSE (parsed * 10 + c) % U64

\* One turn of the loop of runtime_parse_u64.
TakeDigit(max, parsed, c) ==
    IF \/ parsed = Refused
       \/ c \notin Digit
       \/ parsed > max \div 10
       \/ parsed = max \div 10 /\ c > max % 10
    THEN Refused
    ELSE (parsed * 10 + c) % U64

runtime_parse_u64(text, max) ==
    IF text = <<>> THEN Refused
    ELSE AfterTurns([p \in Int |-> [c \in Int |-> TakeDigit(max, p, c)]], text,
                    Len(text))

\* The text from the first character on that is not in the set.
SkipAll(text, chars) ==
    LET kept == {i \in 1..Len(text) : text[i] \notin chars}
    IN  IF kept = {} THEN <<>>
        ELSE SubSeq(text, CHOOSE i \in kept : \A j \in kept : i <= j, Len(text))

\* strtoul(text, &end, 10) with the whole text read: blanks and a sign may
\* come first, and a minus sign negates in the unsigned type.
strtoul(text) ==
    LET rest == SkipAll(text, {Blank})
        signed == rest # <<>> /\ rest[1] \in {Minus, Plus}
        digits == IF signed THEN Tail(rest) ELSE rest
        add == [p \in Int |-> [c \in Int |->
                  IF p = TooLarge \/ p * 10 + c >= U64 THEN TooLarge
                  ELSE p * 10 + c]]
        value == AfterTurns(add, digits, Len(digits))
    IN  IF digits = <<>> \/ \E i \in DOMAIN digits : digits[i] \notin Digit
        THEN Refused
        ELSE IF value # TooLarge /\ signed /\ rest[1] = Minus
             THEN (U64 - value) % U64
             ELSE value

-----------------------------------------------------------------------------
(* The options                                                             *)

Unit(env) == runtime_parse_u64(env["UNIT_MS"], U64 - 1)
Replay(env) == runtime_parse_u64(env["REPLAY_COUNT"], MaxReplay)
Port(env) == strtoul(env["PORT"])

\* What each variable may hold, as the early returns test it.
UnitReadable(env) == Given(env, "UNIT_MS") => Unit(env) \notin {Refused, 0}
ReplayReadable(env) == Given(env, "REPLAY_COUNT") => Replay(env) # Refused
ProfileReadable(env) == Given(env, "PROFILE") => env["PROFILE"] = <<1>>
PortReadable(env) == Given(env, "PORT") => Port(env) \in 1..PortMax

\* A host that is set counts, even if it is empty; a port counts if given.
EndpointPaired(env) == ("HOST" \in DOMAIN env) = Given(env, "PORT")

AcceptsEnvironment(env) ==
    /\ UnitReadable(env)
    /\ ReplayReadable(env)
    /\ ProfileReadable(env)
    /\ PortReadable(env)
    /\ Given(env, "AUTH_KEY")
    /\ EndpointPaired(env)

\* r_runtime_options_t as an accepted environment leaves it.
OptionsOf(env) ==
    [tenant  |-> Given(env, "TENANT"),
     host    |-> "HOST" \in DOMAIN env,
     hostLen |-> IF "HOST" \in DOMAIN env THEN Len(env["HOST"]) ELSE 0,
     port    |-> IF Given(env, "PORT") THEN Port(env) ELSE 0,
     policy  |-> Given(env, "UNIT_MS") \/ Given(env, "REPLAY_COUNT"),
     request |-> [unit   |-> IF Given(env, "UNIT_MS")
                             THEN Unit(env) ELSE DefaultPolicy.unit,
                  replay |-> IF Given(env, "REPLAY_COUNT")
                             THEN Replay(env) ELSE DefaultPolicy.replay],
     profile |-> Given(env, "PROFILE")]

\* copy_fixed_host of r_runtime_client_init.
FixedHostFits(options) ==
    \/ ~options.host /\ options.port = 0
    \/ /\ options.host /\ options.port # 0
       /\ options.hostLen \in 1..(HostCapacity - 1)
=============================================================================
