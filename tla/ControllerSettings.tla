------------------------- MODULE ControllerSettings -------------------------
(***************************************************************************)
(* The settings of the controller as openConnect keeps them (SsvcSettings):*)
(* a mirror in RAM, written by requests and profiles before anything is    *)
(* sent, and reloaded from what the controller reports.  Whether a value   *)
(* is sent at all depends on the mirror, so a mirror that lies keeps a     *)
(* setting from ever reaching the controller.                              *)
(*                                                                         *)
(* Two threads: the web server (Put, and in Profiles the profile that is   *)
(* applied), and the worker of the command queue.  SsvcSettings has no     *)
(* lock.  The controller and its panel are external.                       *)
(*                                                                         *)
(* SettingRules has the ranges and the versions of every setting; Fields   *)
(* are the ones that a run follows, one for each way they are treated.     *)
(***************************************************************************)
EXTENDS SettingRules, SequencesExt

CONSTANTS
    Fields,      \* the settings of the mirror that are followed
    Inputs,      \* what users put in a setting, and the panel of the controller sets
    PerSet,      \* settings of a batch that fit into one SET (250 characters)
    QueueLimit,  \* room in the command queue
    Setups       \* what a behaviour starts from: the controller's firmware, and the
                 \* bounds on what may happen

Bounds == [requests: Nat, puts: Nat, panel: Nat, misses: Nat, crashes: Nat, faults: Nat]

ASSUME SettingsAssumption ==
    /\ QueueLimit \in Nat \ {0} /\ PerSet \in Nat \ {0}
    /\ Fields \subseteq Mirrored
    /\ DOMAIN Inputs \subseteq Fields \cup Steps
    /\ \A f \in DOMAIN Inputs : Inputs[f] \subseteq Seq(Int)
    /\ Setups \subseteq [tails: BOOLEAN, version: Seq(Nat), ids: SUBSET Nat, left: Bounds]

VARIABLES
    firmware, \* external: has the controller tails, and its API version
    ctrl,     \* external: the settings of the controller
    mirror,   \* SsvcSettings: heads, hyst, ...
    caps,     \* supportTails, ssvcApiVersionCode
    queue,    \* the command queue: "get", "version", or the values of a SET
    answer,   \* the controller's answer to GET_SETTINGS, until it is loaded
    timer,    \* get_settings_timer: "none", "armed", or "fired" while its callback runs
    left,     \* what may still happen
    unsure    \* history: the mirror may lie, and nothing under way loads it again

settingsVars == <<firmware, ctrl, mirror, caps, queue, answer, timer, unsure>>

Spend(what) == left[what] > 0 /\ left' = [left EXCEPT ![what] = @ - 1]

Nothing == [f \in {} |-> 0]

\* The numbers of a set in ascending order, each at the place of its rank, and the elements
\* of a sequence at some of its places, in its order.
Ascending(S) == [k \in 1..Cardinality(S) |-> CHOOSE x \in S : Cardinality({y \in S : y <= x}) = k]
Picked(s, places) == [k \in 1..Cardinality(places) |-> s[Ascending(places)[k]]]

\* Something under way ends in the mirror being loaded again.
QueueReads == \E i \in 1..Len(queue) : queue[i].kind \in {"set", "get"}
ReadBack == timer = "armed" \/ QueueReads
MirrorWritten == unsure' = (unsure \/ (mirror' # mirror /\ ~ReadBack'))

-----------------------------------------------------------------------------
(* The gate of the queue.                                                  *)

\* Parameters that the controller's version does not have are taken out of a SET.
Filtered(values) == [f \in {g \in DOMAIN values : Available(g, values[g], caps.api)} |-> values[f]]

\* A command is dropped when the queue stays full.
Pushed(q, command) == IF Len(q) < QueueLimit THEN Append(q, command) ELSE q

Get == [kind |-> "get", values |-> Nothing]
Version == [kind |-> "version", values |-> Nothing]
Set(values) == [kind |-> "set", values |-> values]

PushedSet(q, values) ==
    IF DOMAIN Filtered(values) = {} THEN q ELSE Pushed(q, Set(Filtered(values)))

-----------------------------------------------------------------------------
(* A profile or another JSON object.                                       *)

\* applySettingsToController(): what of it differs from the mirror, in the code's order.
Compared(json) ==
    LET all == Order(caps.tails)
    IN Picked(all, {k \in DOMAIN all : /\ all[k] \in DOMAIN json \cap Fields
                                       /\ Applies(all[k], json[all[k]])
                                       /\ json[all[k]] # mirror[all[k]]})

New(json, f) == Written(f, json[f], mirror[f])
Changed(json) ==
    LET all == Compared(json)
    IN Picked(all, {k \in DOMAIN all : New(json, all[k]) # mirror[all[k]]})

\* applySettings(): a batch is cut into SETs, and those that find no room are dropped.
Batches(names) ==
    [k \in 1..((Len(names) + PerSet - 1) \div PerSet) |->
        {names[n] : n \in {n \in DOMAIN names : (n - 1) \div PerSet = k - 1}}]

Queued(sets) ==
    LET said == Picked(sets, {k \in DOMAIN sets : DOMAIN Filtered(sets[k]) # {}})
        room == QueueLimit - Len(queue)
    IN queue \o [k \in 1..(IF Len(said) < room THEN Len(said) ELSE room) |-> Set(Filtered(said[k]))]

ApplySettingsToController(json) ==
    LET changed == Changed(json)
        batches == Batches(changed)
    IN /\ mirror' = [f \in Fields |-> IF f \in ToSet(changed) THEN New(json, f) ELSE mirror[f]]
       /\ queue' = Queued([k \in DOMAIN batches |-> [f \in batches[k] |-> New(json, f)]])

\* updateStateFromJson()
Updated(json) ==
    [f \in Fields |-> IF f \in DOMAIN json THEN Read(f, json[f])
                      ELSE IF f \in LeftAlone THEN mirror[f] ELSE <<0>>]

\* fillSettings()
Filled == [f \in {g \in Fields : Shown(g, mirror[g])} |-> mirror[f]]

-----------------------------------------------------------------------------
(* The web server: PUT /rest/settings with one field, and perhaps another  *)
(* one that is refused.                                                    *)

Put(f, v, refused) ==
    LET new == IF f \in Steps THEN Said(f, v) ELSE Written(f, v, mirror[f])
        sends == Handles(f, v) /\ (f \in Steps \/ new # mirror[f])
        sets == IF sends THEN PushedSet(queue, [g \in {f} |-> new]) ELSE queue
    IN /\ Spend("puts")
       /\ mirror' = IF sends /\ f \in Fields THEN [mirror EXCEPT ![f] = new] ELSE mirror
       /\ queue' = IF refused \/ ~Handles(f, v) THEN sets ELSE Pushed(sets, Get)
       /\ UNCHANGED <<firmware, ctrl, caps, answer, timer>>
       /\ MirrorWritten

-----------------------------------------------------------------------------
(* The worker.                                                             *)

\* What the controller has: of the two firmwares only one has tails, and the other has late
\* heads and a release; some settings came with a later API.
Reported ==
    {f \in Fields :
        /\ f \in {"tails", "tails_temp"} => firmware.tails
        /\ f \in {"late_heads", "late_heads_timer", "release_speed", "release_timer", "heads_final"} =>
               ~firmware.tails
        /\ f \in {"predec", "extended_heads"} => ApiCode(firmware.version) >= Required(f, <<0>>)}
Report == [f \in Reported |-> ctrl[f]]

Taken(values) == [f \in Fields |-> IF f \in DOMAIN values \cap Reported THEN values[f] ELSE ctrl[f]]

\* Mutant of TimerAfterSet: an accepted SET starts no timer.
TimerAfterSetNever == timer

\* An accepted SET starts get_settings_timer, or starts it anew; a timer whose callback is
\* running has its deletion queued, so that starting it anew leads nowhere.
TimerAfterSet == IF timer = "fired" THEN "fired" ELSE "armed"

ServeSet ==
    /\ queue # <<>> /\ Head(queue).kind = "set"
    /\ queue' = Tail(queue)
    /\ \/ /\ ctrl' = Taken(Head(queue).values)
          /\ timer' = TimerAfterSet
          /\ unsure' = (unsure \/ (timer = "fired" /\ ~QueueReads'))
          /\ UNCHANGED left
       \/ \* refused, or without an answer: done or not, nothing is read back
          /\ Spend("misses")
          /\ ctrl' \in {ctrl, Taken(Head(queue).values)}
          /\ unsure' = TRUE
          /\ UNCHANGED timer
    /\ UNCHANGED <<firmware, mirror, caps, answer>>

\* The answer lies in the mailbox until the worker loads it.
ServeGet ==
    /\ queue # <<>> /\ Head(queue).kind = "get" /\ answer = Nothing
    /\ answer' = Report
    /\ unsure' = FALSE
    /\ UNCHANGED <<firmware, ctrl, mirror, caps, queue, timer, left>>

Load ==
    /\ answer # Nothing
    /\ queue' = Tail(queue)
    /\ answer' = Nothing
    /\ \/ mirror' = Updated(answer) /\ UNCHANGED <<left, unsure>>
       \/ \* telemetry has taken the answer's place: done, and nothing is loaded
          Spend("misses") /\ unsure' = TRUE /\ UNCHANGED mirror
    /\ UNCHANGED <<firmware, ctrl, caps, timer>>

ServeVersion ==
    /\ queue # <<>> /\ Head(queue).kind = "version"
    /\ queue' = Tail(queue)
    /\ \/ caps' = [tails |-> firmware.tails, api |-> ApiCode(firmware.version)] /\ UNCHANGED left
       \/ Spend("misses") /\ UNCHANGED caps
    /\ UNCHANGED <<firmware, ctrl, mirror, answer, timer, unsure>>

\* The callback asks for the settings, has the timer deleted, and only then takes
\* _timerMutex and clears the handle.
TimerFires ==
    /\ timer = "armed"
    /\ timer' = "fired"
    /\ queue' = Pushed(queue, Get)
    /\ unsure' = (unsure \/ ~ReadBack')
    /\ UNCHANGED <<firmware, ctrl, mirror, caps, answer, left>>

TimerForgotten ==
    /\ timer = "fired"
    /\ timer' = "none"
    /\ UNCHANGED <<firmware, ctrl, mirror, caps, queue, answer, unsure, left>>

\* Somebody turns a setting on the controller itself.
PanelChanges(f, v) ==
    /\ f \in Reported /\ ctrl[f] # v
    /\ Spend("panel")
    /\ ctrl' = [ctrl EXCEPT ![f] = v]
    /\ unsure' = TRUE
    /\ UNCHANGED <<firmware, mirror, caps, queue, answer, timer>>

-----------------------------------------------------------------------------
\* A value the controller may have at the start.
Factory(f) == IF f \in DOMAIN Ranges THEN [i \in DOMAIN Ranges[f] |-> Ranges[f][i][1] + 1] ELSE Default(f)

Defaults == [f \in Fields |-> Default(f)]
NoCaps == [tails |-> FALSE, api |-> Unknown]

SettingsInit ==
    /\ ctrl = [f \in Fields |-> Factory(f)]
    /\ mirror = Defaults
    /\ caps = NoCaps
    /\ queue = <<>>
    /\ answer = Nothing
    /\ timer = "none"
    /\ unsure = TRUE

\* Power goes and comes back; the controller keeps what it has.
SettingsReset ==
    /\ mirror' = Defaults
    /\ caps' = NoCaps
    /\ queue' = <<>>
    /\ answer' = Nothing
    /\ timer' = "none"
    /\ unsure' = TRUE
    /\ UNCHANGED <<firmware, ctrl>>

Settled == queue = <<>> /\ answer = Nothing /\ timer # "armed"

\* What the controller's specification allows (SsvcUartApiSpec), but for two rules that no
\* setter enforces: a valve is not open longer than its period, timers are whole 300 s.
InRange(f, v) ==
    /\ Shaped(f, v)
    /\ f \in Flags => v \in {<<0>>, <<1>>}
    /\ f \in DOMAIN Ranges => \A i \in DOMAIN v : v[i] \in Ranges[f][i][1]..Ranges[f][i][2]
    /\ f \in DOMAIN Allowed => v[1] \in Allowed[f]

SettingsTypeOK ==
    /\ firmware \in [tails: BOOLEAN, version: Seq(Nat)]
    /\ \A f \in Fields : InRange(f, ctrl[f]) /\ Shaped(f, mirror[f])
    /\ caps.tails \in BOOLEAN /\ caps.api \in Nat
    /\ \A i \in 1..Len(queue) :
           /\ queue[i].kind \in {"get", "version", "set"}
           /\ DOMAIN queue[i].values \subseteq Fields \cup Steps
           /\ \A f \in DOMAIN queue[i].values : InRange(f, queue[i].values[f])
    /\ Len(queue) <= QueueLimit
    /\ timer \in {"none", "armed", "fired"} /\ unsure \in BOOLEAN
    /\ left \in Bounds

\* When nothing is queued, timed or on its way, the mirror shows what the controller has,
\* unless (`unsure`) what was last written to it was never sent or was refused, an answer was
\* lost, a GET_SETTINGS of the timer found no room, the panel was used, or a SET was accepted
\* while the timer's callback ran and its GET_SETTINGS was through already: that SET is never
\* read back (SsvcCommandsQueue.cpp:641-679 means to reread the settings 30 s after each).
MirrorFollows ==
    Settled /\ ~unsure => \A f \in Reported : mirror[f] = ctrl[f]

\* What is sent of a valve's speed is one the specification of the controller's API allows
\* (SsvcUartApiSpec.h:78: open no longer than the period).  No setter looks at it.
SpeedsValid ==
    \A i \in 1..Len(queue), f \in {"heads", "hearts", "late_heads", "tails", "parallel", "parallel_v1"} :
        f \in DOMAIN queue[i].values => queue[i].values[f][1] <= 10 * queue[i].values[f][2]
=============================================================================
