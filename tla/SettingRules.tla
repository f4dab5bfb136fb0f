---------------------------- MODULE SettingRules ----------------------------
(***************************************************************************)
(* What the setters of SsvcSettings::Builder make of a value, what the     *)
(* handlers of PUT /rest/settings let through, and which version of the    *)
(* controller's API a parameter needs.                                     *)
(*                                                                         *)
(* A setting is a tuple of numbers in the resolution of its command:       *)
(* tenths for the open time of a valve, speeds and temperatures, hundredths*)
(* for the hysteresis, whole seconds, minutes, percents and mm elsewhere.  *)
(* parallel_v3 is the concatenation of its triples.                        *)
(***************************************************************************)
EXTENDS Integers, Sequences

UpTo(high) == <<0, high>>
Speed == <<UpTo(999), UpTo(999)>>

\* The settings that a setter presses into a range.
Ranges ==
    [heads |-> Speed, hearts |-> Speed, late_heads |-> Speed, tails |-> Speed,
     parallel |-> Speed, parallel_v1 |-> Speed,
     hyst |-> <<UpTo(5000)>>, decrement |-> <<UpTo(100)>>, tank_mmhg |-> <<UpTo(50)>>,
     heads_timer |-> <<UpTo(86400)>>, late_heads_timer |-> <<UpTo(86400)>>,
     hearts_timer |-> <<UpTo(30)>>, start_delay |-> <<UpTo(18000)>>,
     tails_temp |-> <<UpTo(1100)>>, hearts_finish_temp |-> <<UpTo(1100)>>,
     formula_start_temp |-> << <<840, 1000>> >>,
     valve_bw |-> <<UpTo(20000), UpTo(20000), UpTo(20000)>>,
     release_speed |-> <<UpTo(999)>>, release_timer |-> <<UpTo(1200)>>, heads_final |-> <<UpTo(999)>>]

\* The settings that keep their old value when the new one is none of these.
Allowed == [formula |-> {0, 1, 2}, predec |-> {0, 7, 13}, extended_heads |-> {0, 1}]

\* Settings of the present stage: sent as they come, and not kept.
Steps == {"s_temp", "s_hyst", "s_speed", "s_decrement", "s_timer", "tank_mmhg_act"}

Flags ==
    {"sound", "pressure", "relay_inverted", "relay_autostart", "autoresume", "auto_mode",
     "hearts_pause", "tp_filter", "signal_tp1_control", "signal_inverted",
     "tp1_control_start", "stab_limit_finish"}

\* What the mirror knows.  The flags and the last ones are only shown.
Mirrored == DOMAIN Ranges \cup DOMAIN Allowed \cup {"parallel_v3"} \cup Flags
            \cup {"hearts_temp_shift", "tp2_shift", "tp1_control_temp", "stab_limit_time", "backlight"}

Settable == DOMAIN Ranges \cup DOMAIN Allowed \cup {"parallel_v3"} \cup Steps

Bytes == {"decrement", "hearts_timer", "s_decrement"}
Words == {"heads_timer", "late_heads_timer", "start_delay"}

\* Above every range: what a negative number becomes in 32 unsigned bits.
Huge == 2147483647

\* A parameter of type unsigned char or unsigned int, given an int.
Passed(f, n) == IF f \in Bytes THEN n % 256 ELSE IF f \in Words /\ n < 0 THEN Huge ELSE n

Pressed(range, n) == IF n < range[1] THEN range[1] ELSE IF n > range[2] THEN range[2] ELSE n

\* Mutant of Clamped: the setter takes what it gets.
ClampedNever(f, v) == v

Clamped(f, v) == [i \in DOMAIN v |-> Pressed(Ranges[f][i], Passed(f, v[i]))]

\* A setter, given the value the mirror has.
Written(f, v, old) ==
    IF f \in DOMAIN Ranges THEN Clamped(f, v)
    ELSE IF f \in DOMAIN Allowed /\ v[1] \notin Allowed[f] THEN old
    ELSE v

\* What the command of a stage setting says.
Said(f, v) ==
    IF f = "tank_mmhg_act" THEN [i \in {1} |-> Pressed(UpTo(500), v[1])]
    ELSE [i \in DOMAIN v |-> Passed(f, v[i])]

\* The handler of a parameter refuses what it does not understand.
Arity(f) ==
    IF f \in DOMAIN Ranges THEN Len(Ranges[f]) ELSE IF f = "s_speed" THEN 2 ELSE 1

\* A value has as many numbers as its setting takes.
Shaped(f, v) == v \in Seq(Int) /\ (f # "parallel_v3" => Len(v) = Arity(f))

Handles(f, v) ==
    IF f = "parallel_v3" THEN Len(v) % 3 = 0 /\ Len(v) <= 12
    ELSE /\ Len(v) = Arity(f)
         /\ f \in DOMAIN Allowed => v[1] \in Allowed[f]
         /\ f \in Words \cup {"release_timer", "s_timer"} => v[1] >= 0

\* A profile is read with the type of the field; an array has the length it has.
Applies(f, v) ==
    /\ f = "late_heads_timer" => v[1] >= 0
    /\ f = "start_delay" => v[1] < Huge

-----------------------------------------------------------------------------
(* Versions: the controller's API, "1.10", as the numbers of its text.     *)

Unknown == 0

\* parseApiVersion(): two numbers of at most three and two digits; 0 when it is not one.
ApiCode(text) ==
    IF Len(text) = 2 /\ text[1] <= 255 /\ text[2] <= 99 THEN 100 * text[1] + text[2] ELSE Unknown

MinSupported == 107

\* requiredForSetParam()
Required(f, v) ==
    IF f = "predec" \/ (f = "formula" /\ v = <<2>>) THEN 109
    ELSE IF f = "extended_heads" THEN 108
    ELSE 107

\* isSetParamAvailable(): before the version is known only the base set.
Available(f, v, api) == Required(f, v) <= (IF api = Unknown THEN MinSupported ELSE api)

-----------------------------------------------------------------------------
(* The mirror and JSON.                                                    *)

\* In the order of applySettingsToController().
Order(tails) ==
    <<"heads", "hearts">>
        \o (IF tails THEN <<"tails", "release_speed", "release_timer", "heads_final">>
            ELSE <<"late_heads">>)
        \o <<"heads_timer", "late_heads_timer", "hearts_timer", "start_delay", "valve_bw", "hyst",
             "decrement", "formula", "tank_mmhg", "hearts_finish_temp", "formula_start_temp",
             "parallel", "parallel_v1", "predec", "extended_heads", "parallel_v3">>

\* updateStateFromJson() leaves these alone when they are missing; the others become 0.
LeftAlone ==
    {"heads", "hearts", "late_heads", "tails", "tails_temp", "valve_bw", "parallel", "parallel_v1",
     "parallel_v3", "release_timer", "release_speed", "heads_final", "predec", "extended_heads"}

Read(f, v) ==
    IF f \in Flags THEN <<IF v[1] # 0 THEN 1 ELSE 0>>
    ELSE IF f = "late_heads_timer" /\ v[1] < 0 THEN <<0>>
    ELSE IF f \in {"heads_timer", "start_delay"} /\ v[1] = Huge THEN <<0>>
    ELSE [i \in DOMAIN v |-> Passed(f, v[i])]

\* The defaults of the header: -1 in what one of the two firmwares does not have.
Default(f) ==
    IF f \in {"late_heads", "tails"} THEN <<-10, -1>>
    ELSE IF f \in {"release_speed", "heads_final"} THEN <<-10>>
    ELSE IF f = "release_timer" THEN <<-1>>
    ELSE IF f \in DOMAIN Ranges THEN [i \in DOMAIN Ranges[f] |-> 0]
    ELSE IF f = "parallel_v3" THEN <<>>
    ELSE <<0>>

\* fillSettings() leaves out what is not there.
Shown(f, v) ==
    CASE f \in {"late_heads", "tails"} -> v[1] > -10 \/ v[2] > -1
      [] f = "tails_temp" -> v[1] > 0
      [] f \in {"parallel", "parallel_v1"} -> v # <<0, 0>>
      [] f = "parallel_v3" -> v # <<>>
      [] OTHER -> TRUE
=============================================================================
