--------------------------- MODULE Rectification ---------------------------
(***************************************************************************)
(* RectificationProcess: what one frame of the controller does to the      *)
(* firmware's picture of the process, and how that picture is shown.       *)
(***************************************************************************)
EXTENDS Integers

CONSTANTS
    Pids,     \* identifiers the controller gives to processes
    NoPid,    \* no "pid" in a frame, or no process
    ValveBw,  \* SsvcSettings::getValveBw(): millilitres per hour of the three valves
    SupportTails \* SsvcSettings::isSupportTails()

ASSUME NoPidAssumption == NoPid \notin Pids
ASSUME ValveAssumption == ValveBw \in [1..3 -> Nat]
ASSUME TailsAssumption == SupportTails \in BOOLEAN

NoEvent == "none"
Manual == {"manually_closed", "manually_opened"}
SensorError == {"ds_error", "ds_error_stop"}
Events == Manual \cup SensorError \cup
    {"heads_finished", "late_heads_finished", "hearts_finished", "tails_finished",
     "remote_stop", "stabilization_limit"}

KnownTypes == {"waiting", "tp1_waiting", "delayed_start", "heads", "late_heads", "hearts", "tails"}
Stages == KnownTypes \cup {"empty", "error"}
ProcessStates == {"IDLE", "RUNNING", "PAUSED", "FINISHED", "SKIPPED", "STOPPED", "PROCESS_ERROR"}

\* stringToRectificationStage(); "settings" is handled before a stage is looked for.
StageOf(type) == IF type \in KnownTypes THEN type ELSE "error"

\* Telemetry and answers alike: an answer has the type "response" and none of the
\* fields of telemetry.
Frames ==
    [type: KnownTypes \cup {"settings", "response"}, pid: Pids \cup {NoPid},
     event: Events \cup {NoEvent}, seconds: Nat]

Idle == [s \in Stages |-> "IDLE"]
NoVolumes == [s \in Stages |-> 0]

\* The members of RectificationProcess.  `pending` is the task's currentEvent while
\* eventReceived is set; `base` is initial_pressure, zero while it is not set.
NoProcess ==
    [pid |-> NoPid, status |-> "IDLE", current |-> "empty", previous |-> "empty",
     states |-> Idle, started |-> FALSE, ended |-> FALSE, event |-> NoEvent,
     pending |-> NoEvent, base |-> 0, relative |-> 0, volumes |-> NoVolumes]

Readings == Int
Volumes == [Stages -> Nat]
ProcessType ==
    [pid: Pids \cup {NoPid}, status: ProcessStates, current: Stages, previous: Stages,
     states: [Stages -> ProcessStates], started: BOOLEAN, ended: BOOLEAN,
     event: Events \cup {NoEvent}, pending: Events \cup {NoEvent},
     base: Readings, relative: Readings, volumes: Volumes]

-----------------------------------------------------------------------------
(* One frame, in the order in which update() goes through it.              *)

NewProcess(p, f) == f.pid \notin {NoPid, p.pid}
ProcessOver(p, f) == f.pid = NoPid /\ f.type = "waiting" /\ p.pid # NoPid
Standby(p, f) == f.pid = NoPid /\ f.type = "waiting" /\ p.pid = NoPid

\* Mutant of Identified: the table of the stages survives into the next process.
IdentifiedKeeps(p, f) ==
    CASE NewProcess(p, f) ->
            [p EXCEPT !.pid = f.pid, !.status = "RUNNING", !.started = TRUE, !.ended = FALSE,
                      !.volumes = NoVolumes, !.previous = "empty", !.base = 0]
      [] ProcessOver(p, f) ->
            [p EXCEPT !.pid = NoPid, !.status = "FINISHED", !.ended = TRUE]
      [] Standby(p, f) -> [p EXCEPT !.status = "IDLE", !.started = FALSE, !.ended = FALSE]
      [] OTHER -> p

\* The pid tells a new process, the end of one, and standby.
Identified(p, f) ==
    CASE NewProcess(p, f) ->
            [p EXCEPT !.pid = f.pid, !.status = "RUNNING", !.started = TRUE, !.ended = FALSE,
                      !.volumes = NoVolumes, !.states = Idle, !.previous = "empty", !.base = 0]
      [] ProcessOver(p, f) ->
            [p EXCEPT !.pid = NoPid, !.status = "FINISHED", !.ended = TRUE]
      [] Standby(p, f) -> [p EXCEPT !.status = "IDLE", !.started = FALSE, !.ended = FALSE]
      [] OTHER -> p

\* A frame of another stage moves the process there.
Moved(p, stage) ==
    IF p.current = stage THEN p
    ELSE [p EXCEPT !.states = [@ EXCEPT ![p.previous] = "FINISHED", ![stage] = "RUNNING"],
                   !.previous = p.current, !.current = stage]

FinishedStage(event) ==
    CASE event = "heads_finished" -> "heads"
      [] event = "late_heads_finished" -> "late_heads"
      [] event = "hearts_finished" -> "hearts"
      [] event = "tails_finished" -> "tails"
      [] OTHER -> NoEvent

\* startEventHandler()
EventStarted(p, event) ==
    CASE event \in Manual -> [p EXCEPT !.status = "PAUSED"]
      [] event = "remote_stop" -> [p EXCEPT !.status = "STOPPED"]
      [] event \in SensorError -> [p EXCEPT !.status = "PROCESS_ERROR"]
      [] FinishedStage(event) \in Stages ->
            [p EXCEPT !.states[FinishedStage(event)] = "FINISHED"]
      [] OTHER -> p

\* endEventHandler()
EventEnded(p, event) ==
    IF event \in Manual \cup SensorError THEN [p EXCEPT !.status = "RUNNING"] ELSE p

\* An event begins with every frame that has it and ends with the first that has none.
\* Mutant of WithEvent: an event is looked at only when it differs from the last one.
WithEventOnce(p, f) ==
    CASE f.event # NoEvent -> [p EXCEPT !.event = f.event, !.pending = f.event]
      [] f.event = NoEvent /\ p.pending # NoEvent ->
            [EventEnded(p, p.pending) EXCEPT !.pending = NoEvent]
      [] OTHER -> p

WithEvent(p, f) ==
    CASE f.event # NoEvent ->
            [EventStarted(p, f.event) EXCEPT !.event = f.event, !.pending = f.event]
      [] f.event = NoEvent /\ p.pending # NoEvent ->
            [EventEnded(p, p.pending) EXCEPT !.pending = NoEvent]
      [] OTHER -> p

\* The stage left behind counts as passed, or as skipped when it never ran.
LeftBehind(state) ==
    CASE state = "RUNNING" -> "FINISHED" [] state = "IDLE" -> "SKIPPED" [] OTHER -> state

Tabled(p) ==
    LET running == [p.states EXCEPT ![p.current] = "RUNNING"]
    IN  [p EXCEPT !.states = [running EXCEPT ![p.previous] = LeftBehind(@)]]

\* The pressure of the tank when the process began to run is the base of the others.
WithPressure(p, pressure) ==
    IF p.status # "RUNNING" THEN [p EXCEPT !.base = 0, !.relative = 0]
    ELSE CASE p.base # 0 -> [p EXCEPT !.relative = pressure - p.base]
           [] p.base = 0 /\ pressure > 0 -> [p EXCEPT !.base = pressure, !.relative = 0]
           [] OTHER -> p

Valve(stage) ==
    CASE stage = "heads" -> 1 [] stage = "hearts" -> 2
      [] stage \in {"tails", "late_heads"} -> 3 [] OTHER -> 0

\* recalculateFlowVolume(): integers, so the quotient is cut towards zero.
WithVolume(p, seconds) ==
    IF Valve(p.current) = 0 THEN p
    ELSE [p EXCEPT !.volumes[p.current] = (ValveBw[Valve(p.current)] * seconds) \div 3600]

\* The metric is cleared before anything else is read.
Cleared(p) == [p EXCEPT !.event = NoEvent, !.relative = 0]

\* update(): what can become of the process by one frame, one result for each pressure
\* its caller may find in the sensor table.
Consumed(p, f, pressures) ==
    LET moved == {Moved(q, StageOf(f.type)) : q \in {Identified(Cleared(p), f)}}
        tabled == {Tabled(q) : q \in {WithEvent(m, f) : m \in moved}}
        pressed == {WithPressure(q, pressure) : q \in tabled, pressure \in pressures}
    IN  CASE f.type = "settings" -> {p}
          [] f.type # "settings" /\ StageOf(f.type) = "error" -> moved
          [] OTHER -> {WithVolume(q, f.seconds) : q \in pressed}

-----------------------------------------------------------------------------
(* What the clients see.                                                   *)

\* stateToString(): STOPPED and PROCESS_ERROR have no name.
NameOf(state) == IF state \in {"STOPPED", "PROCESS_ERROR"} THEN "unknown" ELSE state

\* getStatus()
Status(p) ==
    [stage |-> p.current, status |-> NameOf(p.status), startTime |-> p.started,
     endTime |-> p.ended,
     stages |-> [s \in {t \in Stages \ {"empty"} : p.states[t] # "IDLE"} |-> NameOf(p.states[s])]]

\* rectificationEventToString(): an event without a name of its own.
EventName(event) == IF event = "late_heads_finished" THEN "unknown_event" ELSE event

\* The stages whose volume is shown: a controller has tails or late heads.
Collected == {"heads", "hearts", IF SupportTails THEN "tails" ELSE "late_heads"}

\* writeTelemetryTo(): what the panel gets every second.
Telemetry(p) ==
    [pid |-> p.pid, event |-> EventName(p.event), volumes |-> [s \in Collected |-> p.volumes[s]],
     pressure |-> IF p.base # 0 THEN p.relative ELSE 0]
=============================================================================
