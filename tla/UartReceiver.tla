---------------------------- MODULE UartReceiver ----------------------------
(***************************************************************************)
(* From the wire to the process: the task that assembles frames and        *)
(* watches the link (SsvcConnector::_telemetry), the one mailbox in which  *)
(* it leaves every frame, the task that reads telemetry from it            *)
(* (RectificationProcess::update), and the command worker, which reads     *)
(* settings from it.  The controller is external: it sends a frame of      *)
(* telemetry a second while it is on, and an answer to every command.      *)
(*                                                                         *)
(* Each task is a sequence of steps, one per access to what they share:    *)
(* the mailbox (under `mutex`), the event bits, the fault, the queue.      *)
(***************************************************************************)
EXTENDS Rectification, Sequences, FiniteSets

CONSTANTS
    Threshold,   \* kErrorThreshold
    StageOrder,  \* the stages of a process, in their order
    EventsSeen,  \* events the controller may report
    Pressures,   \* readings of the pressure sensor in the tank
    QueueLength, \* COMMAND_QUEUE_LENGTH
    Budgets      \* bounds on what happens from outside, one of them for a behaviour

ASSUME ReceiverAssumption ==
    /\ Threshold \in Nat \ {0}
    /\ Pids \subseteq Nat
    /\ StageOrder \in Seq(KnownTypes \ {"waiting"}) /\ StageOrder # << >>
    /\ EventsSeen \subseteq Events
    /\ Pressures \subseteq Nat
    /\ QueueLength \in Nat \ {0}

NoSettings == -1
Kinds == {"telemetry", "answer", "settings", "log"}

\* What the receiver holds: the frame, what its other fields say, its settings.
Messages ==
    [kind: Kinds, frame: Frames, changed: BOOLEAN, settings: Int]

NoFrame == [type |-> "response", pid |-> NoPid, event |-> NoEvent, seconds |-> 0]
Message(kind) == [kind |-> kind, frame |-> NoFrame, changed |-> FALSE, settings |-> NoSettings]
NoMessage == Message("answer")

\* What the queue tells apart: GET_SETTINGS and every other command, VERSION among them.
Commands == {"settings", "other"}
IdleWorker == [at |-> "idle", command |-> "other"]

VARIABLES
    ctrl,     \* external: the controller
    line,     \* lineBuffer: "empty", "partial", or "discarding" up to the next newline
    errors,   \* errorCounter, counted up to the threshold
    lost,     \* uartCommunicationError
    fault,    \* the fault UART_LINK_LOST of AlarmMonitor
    rx,       \* the receiver's place and the frame it works on
    mailbox,  \* lastMessage
    bits,     \* BIT0 and BIT10 of eventGroup
    rect,     \* place of RectTelemetry
    proc,     \* RectificationProcess
    worker,   \* the command worker, waiting for an answer or about to put a command back
    queue,    \* command_queue, the one FIFO of all commands
    retry,    \* _uartRetryTimer
    settings, \* the settings the firmware holds
    session,  \* SsvcLogProtocol::Transfer as isBlocked() and completeDrain() see it
    skipped,  \* history: what kept the last frame from asking for settings
    left      \* what may still happen from outside

rxVars == <<line, errors, lost, fault, rx, skipped>>
sharedVars == <<mailbox, bits>>
procVars == <<rect, proc>>
queueVars == <<worker, queue, retry, settings>>
vars == <<ctrl, rxVars, sharedVars, procVars, queueVars, session, left>>

Spend(what) == left[what] > 0 /\ left' = [left EXCEPT ![what] = @ - 1]
Blocked == session # "none"

\* xQueueSend: the FIFO is shared, and a push that finds it full is dropped.
Full == Len(queue) >= QueueLength

\* Mutant of Pushed: the queue has no end.
PushedAlways(commands) == queue \o commands

\* What the queue holds after the commands were pushed one after another.
Pushed(commands) ==
    LET all == queue \o commands
    IN  IF Len(all) <= QueueLength THEN all ELSE SubSeq(all, 1, QueueLength)

-----------------------------------------------------------------------------
(* External: the controller and its line.                                  *)

\* `visited` and `last` are history: the stages of the current process, the newest pid.
CtrlType ==
    [on: BOOLEAN, menu: BOOLEAN, stage: KnownTypes, pid: Pids \cup {NoPid}, event: Events \cup {NoEvent},
     seconds: Nat, changed: BOOLEAN, settings: Nat, answers: SUBSET {"settings", "other"},
     visited: SUBSET KnownTypes, last: Pids \cup {NoPid}]

Running == ctrl.pid # NoPid
Place == CHOOSE i \in 1..Len(StageOrder) : StageOrder[i] = ctrl.stage

Enters(stage) ==
    [ctrl EXCEPT !.stage = stage, !.seconds = 0, !.visited = @ \cup {stage}]

CtrlStarts ==
    /\ ~Running
    /\ \E pid \in Pids :
        /\ \A last \in {ctrl.last} \ {NoPid} : pid > last
        /\ ctrl' = [Enters(Head(StageOrder)) EXCEPT !.pid = pid, !.last = pid,
                                                    !.visited = {Head(StageOrder)}]
    /\ Spend("processes")

CtrlNextStage ==
    /\ Running /\ ctrl.stage # StageOrder[Len(StageOrder)]
    /\ ctrl' = Enters(StageOrder[Place + 1])
    /\ Spend("moves")

CtrlCollects ==
    /\ Running /\ ctrl.seconds = 0
    /\ ctrl' = [ctrl EXCEPT !.seconds = 1]
    /\ Spend("moves")

CtrlEvent ==
    /\ Running /\ Spend("moves")
    /\ \E event \in (EventsSeen \cup {NoEvent}) \ {ctrl.event} :
        /\ FinishedStage(event) \in ctrl.visited \cup {NoEvent}
        /\ ctrl' = [ctrl EXCEPT !.event = event]

\* A STOP, or the end of the last stage: the pid goes with the process.
CtrlStops ==
    /\ Running /\ Spend("moves")
    /\ ctrl' = [ctrl EXCEPT !.stage = "waiting", !.pid = NoPid, !.event = NoEvent, !.seconds = 0]

CtrlMenu ==
    /\ ctrl' = [ctrl EXCEPT !.menu = ~@]
    /\ IF ctrl.menu THEN UNCHANGED left ELSE Spend("menus")

CtrlButtons ==
    /\ Spend("buttons")
    /\ ctrl' = [ctrl EXCEPT !.settings = @ + 1, !.changed = TRUE]

CtrlOff == ctrl.on /\ Spend("losses") /\ ctrl' = [ctrl EXCEPT !.on = FALSE, !.answers = {}]
CtrlOn == ~ctrl.on /\ ctrl' = [ctrl EXCEPT !.on = TRUE] /\ UNCHANGED left

Controller ==
    /\ CtrlStarts \/ CtrlNextStage \/ CtrlCollects \/ CtrlEvent \/ CtrlStops
       \/ CtrlMenu \/ CtrlButtons \/ CtrlOff \/ CtrlOn
    /\ UNCHANGED <<rxVars, sharedVars, procVars, queueVars, session>>

\* What it sends now.
TelemetryMessage ==
    [kind |-> "telemetry", changed |-> ctrl.changed, settings |-> NoSettings,
     frame |-> IF ctrl.menu
               THEN [NoFrame EXCEPT !.type = "settings"]
               ELSE [type |-> ctrl.stage, pid |-> ctrl.pid, event |-> ctrl.event,
                     seconds |-> 3600 * ctrl.seconds]]

SettingsMessage == [Message("settings") EXCEPT !.settings = ctrl.settings]

-----------------------------------------------------------------------------
(* The receiver: bytes become lines.                                       *)

\* The link counts as lost: the retry is scheduled and the fault raised.
ReportLoss ==
    /\ lost' = TRUE
    /\ IF lost THEN UNCHANGED <<fault, retry>>
       ELSE /\ fault' = TRUE
            /\ retry' = IF retry = "none" THEN "armed" ELSE retry

Counted == IF errors < Threshold THEN errors + 1 ELSE errors

\* A line that is no JSON counts as an error while no journal is transferred.
BadLine ==
    /\ IF Blocked THEN UNCHANGED <<errors, lost, fault, retry>>
       ELSE /\ errors' = Counted
            /\ IF errors + 1 >= Threshold THEN ReportLoss
               ELSE UNCHANGED <<lost, fault, retry>>
    /\ UNCHANGED <<rx, mailbox, session>>

\* A frame: completeDrain() and the mailbox, unless it belongs to a journal.
Store(message) ==
    /\ errors' = 0
    /\ session' = IF message.kind # "log" /\ session = "draining" THEN "none" ELSE session
    /\ mailbox' = IF message.kind # "log" THEN message ELSE mailbox
    /\ rx' = [at |-> "stored", message |-> message]
    /\ UNCHANGED <<lost, fault, retry>>

\* The newline of a frame: it ends the frame, a line that began before it, or the
\* discarding of one.
LineEnds(message) ==
    /\ rx.at = "read" /\ ctrl.on
    /\ line' = "empty"
    /\ \/ line = "empty" /\ Store(message)
       \/ line = "partial" /\ BadLine
       \/ line = "discarding" /\ UNCHANGED <<errors, lost, fault, retry, rx, mailbox, session>>
    /\ UNCHANGED <<skipped, bits, procVars, worker, queue, settings>>

TelemetryArrives == LineEnds(TelemetryMessage) /\ UNCHANGED <<ctrl, left>>

AnswerArrives ==
    \E a \in ctrl.answers :
        /\ LineEnds(IF a = "settings" THEN SettingsMessage ELSE Message("answer"))
        /\ ctrl' = [ctrl EXCEPT !.answers = @ \ {a},
                                !.changed = IF a = "settings" THEN FALSE ELSE @]
        /\ UNCHANGED left

LogFrameArrives ==
    session = "active" /\ LineEnds(Message("log")) /\ Spend("logs") /\ UNCHANGED ctrl

\* A burst of bytes without a newline: a line begins, or gets too long or too slow and is
\* discarded; once more than kMaxDiscardedBytes are gone the receiver listens again.
Noise ==
    /\ rx.at = "read" /\ ctrl.on /\ Spend("noise")
    /\ line' \in {"empty", "partial", "discarding"} \ {line}
    /\ UNCHANGED <<ctrl, errors, lost, fault, rx, skipped, sharedVars, procVars, queueVars, session>>

\* Nothing comes: the controller is off, or on and quiet.
Quiet == IF ctrl.on THEN Spend("quiet") ELSE UNCHANGED left

\* Mutant of DropPartial: the line is kept, however long the silence lasts.
DropPartialNever == FALSE /\ UNCHANGED vars

\* A line nobody goes on with is dropped after kFrameTimeoutMs of silence.
DropPartial ==
    /\ rx.at = "read" /\ line = "partial" /\ Quiet
    /\ line' = "empty"
    /\ UNCHANGED <<ctrl, errors, lost, fault, rx, skipped, sharedVars, procVars, queueVars, session>>

\* A second of silence counts, unless a line is open.
Silence ==
    /\ rx.at = "read" /\ line # "partial" /\ Quiet
    /\ errors < Threshold \/ ~lost
    /\ errors' = Counted
    /\ IF errors + 1 >= Threshold THEN ReportLoss ELSE UNCHANGED <<lost, fault, retry>>
    /\ UNCHANGED <<ctrl, line, rx, skipped, sharedVars, procVars, worker, queue, settings, session>>

-----------------------------------------------------------------------------
(* The receiver: the rest of a frame.                                       *)

\* The first frame after a loss has settings and version asked for and the fault cleared,
\* but not while a journal has the line.
Recovers == lost /\ ~Blocked

\* Mutant of RecoveryPushes: nothing is asked after the link has come back.
NoPushes == << >>
RecoveryPushes == IF Recovers THEN <<"settings", "other">> ELSE << >>

ButtonsUsed == rx.message.kind = "telemetry" /\ rx.message.changed
ButtonPushes == IF ButtonsUsed THEN <<"settings">> ELSE << >>

\* The loss is forgotten in any case, and what getSettings() returns is not looked at.
\* An answer with settings wakes the worker, telemetry the task that reads it; other
\* answers set bits of CommandQueue.
Dispatch ==
    /\ rx.at = "stored"
    /\ fault' = (fault /\ ~Recovers)
    /\ lost' = FALSE
    /\ skipped' = CASE lost /\ Blocked -> "session"
                    [] Recovers /\ Full -> "full"
                    [] OTHER -> "no"
    /\ queue' = Pushed(RecoveryPushes \o ButtonPushes)
    /\ bits' = CASE rx.message.kind = "settings" -> bits \cup {"BIT10"}
                 [] rx.message.kind = "telemetry" -> bits \cup {"BIT0"}
                 [] OTHER -> bits
    /\ rx' = [at |-> "read", message |-> NoMessage]
    /\ UNCHANGED <<ctrl, line, errors, mailbox, procVars, worker, retry, settings, session, left>>

-----------------------------------------------------------------------------
(* RectTelemetry.                                                          *)

\* The bit is cleared first and the mailbox read later, and by then it may hold another
\* frame, an answer to a command among them.
WakeUp ==
    /\ rect = "wait" /\ "BIT0" \in bits
    /\ bits' = bits \ {"BIT0"}
    /\ rect' = "woken"
    /\ UNCHANGED <<ctrl, rxVars, mailbox, proc, queueVars, session, left>>

Update ==
    /\ rect = "woken"
    /\ proc' \in Consumed(proc, mailbox.frame, Pressures)
    /\ rect' = "wait"
    /\ UNCHANGED <<ctrl, rxVars, sharedVars, queueVars, session, left>>

-----------------------------------------------------------------------------
(* The worker and the timer.                                               *)

\* Any other task's command, while there is room for it.
OtherCommand ==
    /\ ~Full /\ Spend("commands")
    /\ queue' = Append(queue, "other")
    /\ UNCHANGED <<ctrl, rxVars, sharedVars, procVars, worker, retry, settings, session>>

Takes == worker.at = "idle" /\ queue # << >> /\ queue' = Tail(queue)

\* The bits of earlier answers are cleared before a command is written.
Write ==
    /\ Takes /\ ~Blocked
    /\ worker' = [at |-> "waits", command |-> Head(queue)]
    /\ bits' = IF Head(queue) = "settings" THEN bits \ {"BIT10"} ELSE bits
    /\ ctrl' = IF ctrl.on THEN [ctrl EXCEPT !.answers = @ \cup {Head(queue)}] ELSE ctrl
    /\ UNCHANGED <<rxVars, mailbox, procVars, retry, settings, session, left>>

\* While a journal has the line an ordinary command goes back to the tail.  Its place is
\* free for anybody meanwhile, and the worker tries until it finds one.
Defer ==
    /\ Takes /\ Blocked
    /\ worker' = [at |-> "defers", command |-> Head(queue)]
    /\ UNCHANGED <<ctrl, rxVars, sharedVars, procVars, retry, settings, session, left>>

PutBack ==
    /\ worker.at = "defers" /\ ~Full
    /\ queue' = Append(queue, worker.command)
    /\ worker' = IdleWorker
    /\ UNCHANGED <<ctrl, rxVars, sharedVars, procVars, retry, settings, session, left>>

Asking == worker = [at |-> "waits", command |-> "settings"]

\* The callback of BIT10 loads what the mailbox holds, if there are settings in it.
LoadSettings ==
    /\ Asking /\ "BIT10" \in bits
    /\ settings' = IF mailbox.settings # NoSettings THEN mailbox.settings ELSE settings
    /\ bits' = bits \ {"BIT10"}
    /\ worker' = IdleWorker
    /\ UNCHANGED <<ctrl, rxVars, mailbox, procVars, queue, retry, session, left>>

\* The other answers, and the end of the wait by timeout.
CommandEnds ==
    /\ worker.at = "waits"
    /\ worker' = IdleWorker
    /\ UNCHANGED <<ctrl, rxVars, sharedVars, procVars, queue, retry, settings, session, left>>

\* The timer asks for settings and version again and is only then forgotten: a loss in
\* between schedules none.
RetryFires ==
    /\ retry = "armed"
    /\ retry' = "fired" /\ queue' = Pushed(<<"settings", "other">>)
    /\ UNCHANGED <<ctrl, rxVars, sharedVars, procVars, worker, settings, session, left>>

RetryForgotten ==
    /\ retry = "fired"
    /\ retry' = "none"
    /\ UNCHANGED <<ctrl, rxVars, sharedVars, procVars, worker, queue, settings, session, left>>

-----------------------------------------------------------------------------
(* A journal session, as LogSession has it.                                *)

SessionBegins == session = "none" /\ Spend("sessions") /\ session' = "active"
SessionEnds == Blocked /\ session' = "none" /\ UNCHANGED left
SessionCancelled == session = "active" /\ session' = "draining" /\ UNCHANGED left
Session ==
    /\ SessionBegins \/ SessionEnds \/ SessionCancelled
    /\ UNCHANGED <<ctrl, rxVars, sharedVars, procVars, queueVars>>

-----------------------------------------------------------------------------
Init ==
    /\ ctrl = [on |-> TRUE, menu |-> FALSE, stage |-> "waiting", pid |-> NoPid,
               event |-> NoEvent, seconds |-> 0, changed |-> FALSE, settings |-> 0,
               answers |-> {}, visited |-> {}, last |-> NoPid]
    /\ line = "empty" /\ errors = 0 /\ lost = FALSE /\ fault = FALSE
    /\ rx = [at |-> "read", message |-> NoMessage]
    /\ mailbox = NoMessage /\ bits = {}
    /\ rect = "wait" /\ proc = NoProcess
    /\ worker = IdleWorker /\ queue = << >> /\ retry = "none" /\ settings = NoSettings
    /\ session = "none" /\ skipped = "no"
    /\ left \in Budgets

Receiver == TelemetryArrives \/ DropPartial \/ Silence \/ Dispatch
RectTelemetry == WakeUp \/ Update
Worker == Write \/ Defer \/ PutBack \/ LoadSettings \/ CommandEnds
Retry == RetryFires \/ RetryForgotten

Next ==
    \/ Controller \/ Session \/ AnswerArrives \/ LogFrameArrives \/ Noise \/ OtherCommand
    \/ Receiver \/ RectTelemetry \/ Worker \/ Retry

Spec == Init /\ [][Next]_vars

\* The scheduler runs every task, the controller sends while it is on, a wait ends by its
\* timeout at last, and so does a session (LogSession).
FairSpec ==
    /\ Spec
    /\ WF_vars(Receiver) /\ WF_vars(RectTelemetry) /\ WF_vars(Worker) /\ WF_vars(Retry)
    /\ WF_vars(Session /\ SessionEnds)

-----------------------------------------------------------------------------
(* Properties.                                                             *)

\* The members have the values their types allow.
TypeOK ==
    /\ ctrl \in CtrlType
    /\ line \in {"empty", "partial", "discarding"}
    /\ errors \in 0..Threshold /\ lost \in BOOLEAN /\ fault \in BOOLEAN
    /\ rx \in [at: {"read", "stored"}, message: Messages]
    /\ mailbox \in Messages /\ bits \subseteq {"BIT0", "BIT10"}
    /\ rect \in {"wait", "woken"}
    /\ proc \in ProcessType
    /\ worker \in [at: {"idle", "waits", "defers"}, command: Commands]
    /\ queue \in Seq(Commands) /\ Len(queue) <= QueueLength
    /\ retry \in {"none", "armed", "fired"} /\ settings \in Int
    /\ session \in {"none", "active", "draining"}
    /\ skipped \in {"no", "session", "full"}

\* The table of getStatus() shows one stage as running, the current one, whatever frames
\* are lost, repeated or overwritten by answers; while an answer was taken for a stage
\* ("error") the stage before it is still shown as well.
OneStageRunning ==
    \A s \in Stages : proc.states[s] = "RUNNING" =>
        s = proc.current \/ (proc.current = "error" /\ s = proc.previous)

\* Nothing of an earlier process is shown as running or collected in the present one,
\* even when its end and standby were never seen.
TableOfThisProcess ==
    (Running /\ proc.pid = ctrl.pid) =>
        \A s \in KnownTypes :
            proc.states[s] = "RUNNING" \/ proc.volumes[s] > 0 => s \in ctrl.visited

\* The table of stages is sound.
TableSound == OneStageRunning /\ TableOfThisProcess

\* What the telemetry of the controller says, once it says nothing else any more.
Follows ==
    /\ Status(proc).stage = ctrl.stage
    /\ Telemetry(proc).pid = ctrl.pid
    /\ Telemetry(proc).event = EventName(ctrl.event)
    /\ Running /\ ctrl.stage \in Collected =>
           Telemetry(proc).volumes[ctrl.stage] = ValveBw[Valve(ctrl.stage)] * ctrl.seconds
    /\ ctrl.event \in Manual => proc.status = "PAUSED"
    /\ ctrl.event \in SensorError => proc.status = "PROCESS_ERROR"
    /\ ctrl.event = "remote_stop" => proc.status = "STOPPED"
    /\ ~Running => proc.status = "IDLE" /\ ~Status(proc).endTime

\* The panel comes to show the stage, process, event and volume of the controller,
\* though every answer may overwrite a frame of telemetry and noise may eat one.
ProcessFollows == <>[](ctrl.on /\ ~ctrl.menu) => <>[]Follows

\* A link that stays silent is reported, even when it fell silent in the middle of a
\* frame or while an oversized one was being discarded.
SilenceReported == <>[](~ctrl.on) => <>[](lost /\ fault)

\* The worker holds a deferred command whose place another one took: nobody else takes
\* from the queue, so it waits for good (CommandQueue has this case too).
Stuck == worker.at = "defers" /\ Full

\* When the controller is back after a loss, it is asked for its settings again, though
\* the retry of the timer may have been spent while it was off, and whatever sessions and
\* commands of others come between.  The exceptions are what the code does: the loss was
\* forgotten while a session had the line, the push found no room (`skipped`), or the
\* worker is stuck.
RecoveryAsks ==
    (lost /\ ctrl.on /\ rx.at = "read")
        ~> (~ctrl.on \/ skipped # "no" \/ Stuck \/ (Asking /\ ctrl.on))

\* What the comment at SsvcConnector.cpp:408-409 expects of the time after a loss: the
\* controller is back for good, and the fault of the link ends.
FaultEnds == <>[](ctrl.on) => <>[](~fault)
=============================================================================
