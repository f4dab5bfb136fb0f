---------------------------- MODULE CommandQueue ----------------------------
(***************************************************************************)
(* The road of a command to the controller: SsvcCommandsQueue with its two *)
(* FreeRTOS queues and its worker, the event group on which the worker     *)
(* waits for an answer, and the receiver that sets the bits.               *)
(*                                                                         *)
(*   - tasks (HTTP, MQTT, timers, the receiver itself) call                *)
(*     pushCommandInQueue() or emergencyStop();                            *)
(*   - the worker, commandProcessorTask(), takes the safety queue first,   *)
(*     drops what is stale, defers what must not disturb a journal         *)
(*     download, writes the command and waits for its answer in slices;    *)
(*   - the receiver stores an answer and then sets its bit.                *)
(*                                                                         *)
(* Two steps of the code are one action here only when no other task can   *)
(* tell: reads of two shared variables, a store and the bit that announces *)
(* it, a queue operation and an assignment are separate actions.           *)
(*                                                                         *)
(* Journal downloads matter here because a blocked session defers other    *)
(* commands; module LogSession has their details.  The receiver's and the  *)
(* worker's clock readings are not tracked, so a blocked session may time  *)
(* out at any moment.                                                      *)
(***************************************************************************)
EXTENDS LogTransfer, FiniteSets

CONSTANTS
    Tasks,        \* tasks that push commands or call emergencyStop()
    Types,        \* the command types they push
    AttemptCount, \* ATTEMPT_COUNT
    Timeout,      \* TIMEOUT, in slices of kSafetyPollTicks
    TickMod,      \* size of TickType_t, in the same slices
    MaxLate,      \* bound: slices by which the worker may wake up late
    QueueLen,     \* COMMAND_QUEUE_LENGTH
    HelloCount,   \* STATUS commands that sendHello() pushes
    MaxCommands,  \* bound: commands ever created
    MaxStops      \* bound: calls of emergencyStop()

CommandTypes == {"GET_SETTINGS", "VERSION", "STOP", "START", "PAUSE", "RESUME",
                 "NEXT", "AT", "SET", "STATUS", "GET_LOG"}

ASSUME TypesAssumption == Types \subseteq CommandTypes
ASSUME QueueBoundsAssumption ==
    /\ {AttemptCount, Timeout, TickMod, QueueLen} \subseteq Nat \ {0}
    /\ {MaxLate, HelloCount, MaxCommands, MaxStops} \subseteq Nat
    /\ Timeout < TickMod

\* isIdempotentRetry()
NonIdempotent(type) == type \in {"START", "NEXT", "RESUME"}

\* commandToExpectedBit; GET_LOG waits for no bit.
ExpectedBit(type) ==
    CASE type = "GET_SETTINGS" -> "BIT10"
      [] type = "VERSION" -> "BIT11"
      [] OTHER -> "BIT9"

Mask(type) == {ExpectedBit(type), "BIT1"}

\* `id` is the address of the command, in the order of `new`.
Commands ==
    [id: Nat, type: CommandTypes, attempts: Nat, gen: Nat, epoch: Nat,
     proc: Procs \cup {ListRequest}]

VARIABLES
    tr,      \* the Transfer object
    cmdQ,    \* command_queue
    safetyQ, \* safety_queue
    epoch,   \* _safetyEpoch
    caller,  \* what each task is doing
    w,       \* the worker
    bits,    \* eventGroup
    rect,    \* whether RectTelemetry waits for BIT0
    rx,      \* the receiver: the bit it is about to set
    stored,  \* verb of lastResponse and lastResponseRequest
    ctl,     \* the controller: commands it has not read, frames on the line
    hist     \* history, for the properties: no action's guard reads it

vars == <<tr, cmdQ, safetyQ, epoch, caller, w, bits, rect, rx, stored, ctl, hist>>

NoCmd == [id |-> 0, type |-> "AT", attempts |-> 0, gen |-> 0, epoch |-> 0,
          proc |-> ListRequest]

AtSafety == [pc |-> "safety", cmd |-> NoCmd, waited |-> 0, got |-> {}, hello |-> 0]

IdleTask == [pc |-> "idle", cmd |-> NoCmd]

EventBits == {"BIT0", "BIT1", "BIT9", "BIT10", "BIT11"}

\* A command as the controller sees it; the id only names it.
Lines == [id: Nat, type: CommandTypes, proc: Procs \cup {ListRequest}]
Line(c) == [id |-> c.id, type |-> c.type, proc |-> c.proc]

Answers == [verb: CommandTypes \cup {"file"}, ok: BOOLEAN, proc: Procs \cup {ListRequest}]

Fates == {"open", "refused", "dropped", "sent", "ok", "unknown"}

TypeOK ==
    /\ tr \in Transfers
    /\ cmdQ \in Seq(Commands)
    /\ safetyQ \in Seq(Commands)
    /\ epoch \in Nat
    /\ caller \in [Tasks -> [pc: {"idle", "send", "sendSafety", "publish"},
                             cmd: Commands]]
    /\ w \in [pc: {"safety", "queue", "check", "gate", "requeue", "attempt",
                   "probe", "cancel", "mark", "write", "poll", "blocked",
                   "answer", "hello"},
              cmd: Commands, waited: Nat, got: SUBSET EventBits, hello: Nat]
    /\ bits \in SUBSET EventBits
    /\ rect \in {"waiting", "busy"}
    /\ rx \in EventBits \cup {"none"}
    /\ stored \in CommandTypes \cup {"none"}
    /\ ctl \in [inbox: Seq(Lines), line: Seq(Answers)]
    /\ hist \in [fate: Seq(Fates), stops: Nat, fence: Nat, written: SUBSET Nat,
                 overtook: SUBSET Nat]

Init ==
    /\ tr = NewTransfer
    /\ cmdQ = << >> /\ safetyQ = << >> /\ epoch = 0
    /\ caller = [t \in Tasks |-> IdleTask]
    /\ w = AtSafety
    /\ bits = {} /\ rect = "waiting" /\ rx = "none" /\ stored = "none"
    /\ ctl = [inbox |-> << >>, line |-> << >>]
    /\ hist = [fate |-> << >>, stops |-> 0, fence |-> 0, written |-> {},
               overtook |-> {}]

-----------------------------------------------------------------------------
(* History.  `fate` has one entry for every command created; `fence` is the *)
(* youngest STOP whose emergencyStop() has returned true; `written` are the *)
(* commands written to the UART; `overtook` those other than STOP written   *)
(* while a STOP waited in safety_queue.                                     *)

NewId == Len(hist.fate) + 1
MayCreate == Len(hist.fate) < MaxCommands
Born == [hist EXCEPT !.fate = Append(@, "open")]
Ended(c, fate) == [hist EXCEPT !.fate[c.id] = fate]

-----------------------------------------------------------------------------
(* pushCommandInQueue()                                                    *)

TaskGoes(t, pc, c) == caller' = [caller EXCEPT ![t] = [pc |-> pc, cmd |-> c]]
TaskDone(t) == caller' = [caller EXCEPT ![t] = IdleTask]

NewCommand(type, attempts, gen, p) ==
    [id |-> NewId, type |-> type, attempts |-> attempts, gen |-> gen,
     epoch |-> epoch, proc |-> p]

\* The command is made, with the epoch of this moment.
Push(t, type) ==
    /\ caller[t].pc = "idle" /\ MayCreate /\ type # "GET_LOG"
    /\ TaskGoes(t, "send", NewCommand(type, AttemptCount, 0, ListRequest))
    /\ hist' = Born
    /\ UNCHANGED <<tr, cmdQ, safetyQ, epoch, w, bits, rect, rx, stored, ctl>>

\* A GET_LOG is made for a session that was reserved for it (LogSession has
\* the steps between the two).
PushGetLog(t, p) ==
    /\ caller[t].pc = "idle" /\ MayCreate /\ "GET_LOG" \in Types
    /\ Verdict(tr, p) = "Accepted"
    /\ tr' = Reserve(tr, p)
    /\ TaskGoes(t, "send", NewCommand("GET_LOG", 1, tr'.gen, p))
    /\ hist' = Born
    /\ UNCHANGED <<cmdQ, safetyQ, epoch, w, bits, rect, rx, stored, ctl>>

\* xQueueSend() to command_queue
Send(t) ==
    /\ caller[t].pc = "send" /\ Len(cmdQ) < QueueLen
    /\ cmdQ' = Append(cmdQ, caller[t].cmd)
    /\ TaskDone(t)
    /\ UNCHANGED <<tr, safetyQ, epoch, w, bits, rect, rx, stored, ctl, hist>>

\* It stayed full for a second: queue_full.
SendRefused(t) ==
    LET c == caller[t].cmd
    IN  /\ caller[t].pc = "send" /\ Len(cmdQ) = QueueLen
        /\ TaskDone(t)
        /\ tr' = IF c.type = "GET_LOG" THEN ReleaseReservation(tr) ELSE tr
        /\ hist' = Ended(c, "refused")
        /\ UNCHANGED <<cmdQ, safetyQ, epoch, w, bits, rect, rx, stored, ctl>>

-----------------------------------------------------------------------------
(* emergencyStop()                                                         *)

\* _safetyEpoch + 1 is computed.
EmergencyStop(t) ==
    /\ caller[t].pc = "idle" /\ MayCreate /\ hist.stops < MaxStops
    /\ TaskGoes(t, "sendSafety",
                [NewCommand("STOP", 1, 0, ListRequest) EXCEPT !.epoch = epoch + 1])
    /\ hist' = [Born EXCEPT !.stops = @ + 1]
    /\ UNCHANGED <<tr, cmdQ, safetyQ, epoch, w, bits, rect, rx, stored, ctl>>

\* xQueueSend() to safety_queue
SendSafety(t) ==
    /\ caller[t].pc = "sendSafety" /\ Len(safetyQ) < QueueLen
    /\ safetyQ' = Append(safetyQ, caller[t].cmd)
    /\ TaskGoes(t, "publish", caller[t].cmd)
    /\ UNCHANGED <<tr, cmdQ, epoch, w, bits, rect, rx, stored, ctl, hist>>

SafetyRefused(t) ==
    /\ caller[t].pc = "sendSafety" /\ Len(safetyQ) = QueueLen
    /\ TaskDone(t)
    /\ hist' = Ended(caller[t].cmd, "refused")
    /\ UNCHANGED <<tr, cmdQ, safetyQ, epoch, w, bits, rect, rx, stored, ctl>>

\* _safetyEpoch = safetyEpoch, and the call returns true.
Publish(t) ==
    LET c == caller[t].cmd
    IN  /\ caller[t].pc = "publish"
        /\ epoch' = c.epoch
        /\ TaskDone(t)
        /\ hist' = [hist EXCEPT !.fence = IF c.id > @ THEN c.id ELSE @]
        /\ UNCHANGED <<tr, cmdQ, safetyQ, w, bits, rect, rx, stored, ctl>>

-----------------------------------------------------------------------------
(* commandProcessorTask(): taking a command and deciding about it.         *)

WorkerAt(pc) == w' = [w EXCEPT !.pc = pc]

\* `delete cmd` and round again
Finish(fate) == w' = AtSafety /\ hist' = Ended(w.cmd, fate)

TakeSafety ==
    /\ w.pc = "safety" /\ safetyQ # << >>
    /\ w' = [AtSafety EXCEPT !.pc = "check", !.cmd = Head(safetyQ)]
    /\ safetyQ' = Tail(safetyQ)
    /\ hist' = [hist EXCEPT !.overtook = IF Len(safetyQ) = 1 THEN {} ELSE @]
    /\ UNCHANGED <<tr, cmdQ, epoch, caller, bits, rect, rx, stored, ctl>>

\* Mutant of NoSafety: the FIFO is not kept waiting for the safety queue.
NoSafetyFirst ==
    /\ w.pc = "safety"
    /\ WorkerAt("queue")
    /\ UNCHANGED <<tr, cmdQ, safetyQ, epoch, caller, bits, rect, rx, stored, ctl, hist>>

NoSafety ==
    /\ w.pc = "safety" /\ safetyQ = << >>
    /\ WorkerAt("queue")
    /\ UNCHANGED <<tr, cmdQ, safetyQ, epoch, caller, bits, rect, rx, stored, ctl, hist>>

TakeCommand ==
    /\ w.pc = "queue" /\ cmdQ # << >>
    /\ w' = [AtSafety EXCEPT !.pc = "check", !.cmd = Head(cmdQ)]
    /\ cmdQ' = Tail(cmdQ)
    /\ UNCHANGED <<tr, safetyQ, epoch, caller, bits, rect, rx, stored, ctl, hist>>

\* 500 ms without a command
QueueIdle ==
    /\ w.pc = "queue" /\ cmdQ = << >>
    /\ WorkerAt("safety")
    /\ UNCHANGED <<tr, cmdQ, safetyQ, epoch, caller, bits, rect, rx, stored, ctl, hist>>

\* Mutant of Stale: the epoch is not looked at.
StaleByGenerationOnly(c) == c.gen # 0 /\ c.gen # tr.gen

\* No command has both a generation and an epoch that is compared, so the two
\* tests are one step.
Stale(c) ==
    \/ c.gen # 0 /\ c.gen # tr.gen
    \/ NonIdempotent(c.type) /\ c.epoch # epoch

\* Mutant of DropStale: the loop is not left after `delete cmd`.
DropStaleGoesOn ==
    /\ w.pc = "check" /\ Stale(w.cmd)
    /\ WorkerAt("gate") /\ hist' = Ended(w.cmd, "dropped")
    /\ UNCHANGED <<tr, cmdQ, safetyQ, epoch, caller, bits, rect, rx, stored, ctl>>

DropStale ==
    /\ w.pc = "check" /\ Stale(w.cmd)
    /\ Finish("dropped")
    /\ UNCHANGED <<tr, cmdQ, safetyQ, epoch, caller, bits, rect, rx, stored, ctl>>

KeepFresh ==
    /\ w.pc = "check" /\ ~Stale(w.cmd)
    /\ WorkerAt("gate")
    /\ UNCHANGED <<tr, cmdQ, safetyQ, epoch, caller, bits, rect, rx, stored, ctl, hist>>

\* Mutant of Deferred: only a session that is not sent yet is spared.
DeferredWhenQueued(c) ==
    c.type \notin {"GET_LOG", "STOP"} /\ tr.status \in QueuedStatuses

\* An ordinary command does not break into a journal session.
Deferred(c) == c.type \notin {"GET_LOG", "STOP"} /\ Blocked(tr)

Gate ==
    /\ w.pc = "gate"
    /\ WorkerAt(IF Deferred(w.cmd) THEN "requeue" ELSE "attempt")
    /\ UNCHANGED <<tr, cmdQ, safetyQ, epoch, caller, bits, rect, rx, stored, ctl, hist>>

\* Back to the tail, after 100 ms; tried again until there is room.
Requeue ==
    /\ w.pc = "requeue" /\ Len(cmdQ) < QueueLen
    /\ cmdQ' = Append(cmdQ, w.cmd)
    /\ w' = AtSafety
    /\ UNCHANGED <<tr, safetyQ, epoch, caller, bits, rect, rx, stored, ctl, hist>>

-----------------------------------------------------------------------------
(* One attempt: clear the bits, write, wait.                               *)

\* Mutant of Attempt: one attempt more than the command has.
AttemptOnceMore ==
    /\ w.pc = "attempt"
    /\ bits' = IF w.cmd.type = "GET_LOG" THEN bits ELSE bits \ Mask(w.cmd.type)
    /\ w' = [w EXCEPT !.cmd.attempts = @ - 1, !.waited = 0, !.got = {}, !.pc = "write"]
    /\ UNCHANGED <<tr, cmdQ, safetyQ, epoch, caller, rect, rx, stored, ctl, hist>>

Attempt ==
    /\ w.pc = "attempt" /\ w.cmd.attempts # 0
    /\ bits' = IF w.cmd.type = "GET_LOG" THEN bits ELSE bits \ Mask(w.cmd.type)
    /\ w' = [w EXCEPT !.cmd.attempts = @ - 1, !.waited = 0, !.got = {},
               !.pc = CASE w.cmd.type = "STOP" -> "probe"
                        [] w.cmd.type = "GET_LOG" -> "mark"
                        [] OTHER -> "write"]
    /\ UNCHANGED <<tr, cmdQ, safetyQ, epoch, caller, rect, rx, stored, ctl, hist>>

NoMoreAttempts ==
    /\ w.pc = "attempt" /\ w.cmd.attempts = 0
    /\ Finish("unknown")
    /\ UNCHANGED <<tr, cmdQ, safetyQ, epoch, caller, bits, rect, rx, stored, ctl>>

\* STOP: isFileSession(), then cancel()
StopProbe ==
    /\ w.pc = "probe"
    /\ WorkerAt(IF IsFileSession(tr) THEN "cancel" ELSE "write")
    /\ UNCHANGED <<tr, cmdQ, safetyQ, epoch, caller, bits, rect, rx, stored, ctl, hist>>

StopCancel ==
    /\ w.pc = "cancel"
    /\ tr' = Cancel(tr)
    /\ WorkerAt("write")
    /\ UNCHANGED <<cmdQ, safetyQ, epoch, caller, bits, rect, rx, stored, ctl, hist>>

\* GET_LOG: markSent()
Mark ==
    /\ w.pc = "mark"
    /\ tr' = MarkSent(tr)
    /\ WorkerAt("write")
    /\ UNCHANGED <<cmdQ, safetyQ, epoch, caller, bits, rect, rx, stored, ctl, hist>>

WasWritten ==
    [hist EXCEPT !.written = @ \cup {w.cmd.id},
                 !.overtook = IF safetyQ = << >> \/ w.cmd.type = "STOP" THEN @
                              ELSE @ \cup {w.cmd.id}]

\* sendCommand() returned true.  A GET_LOG is done with; others are waited for.
WriteOk ==
    /\ w.pc = "write"
    /\ ctl' = [ctl EXCEPT !.inbox = Append(@, Line(w.cmd))]
    /\ IF w.cmd.type = "GET_LOG"
       THEN /\ w' = AtSafety
            /\ hist' = [WasWritten EXCEPT !.fate[w.cmd.id] = "sent"]
       ELSE /\ WorkerAt("poll")
            /\ hist' = WasWritten
    /\ UNCHANGED <<tr, cmdQ, safetyQ, epoch, caller, bits, rect, rx, stored>>

\* It returned false: tried again in two seconds, while attempts are left.
WriteFailed ==
    /\ w.pc = "write"
    /\ tr' = IF w.cmd.type = "GET_LOG"
             THEN AbortReservation(tr, "uart_write_failed") ELSE tr
    /\ WorkerAt("attempt")
    /\ UNCHANGED <<cmdQ, safetyQ, epoch, caller, bits, rect, rx, stored, ctl, hist>>

\* responseDeadline - xTaskGetTickCount(), in unsigned TickType_t
Left == (Timeout - w.waited) % TickMod

\* `left <= 0` ends the wait; a bit that is set already ends it too.
Poll ==
    LET m == Mask(w.cmd.type)
    IN  /\ w.pc = "poll"
        /\ \/ /\ Left = 0
              /\ WorkerAt("answer") /\ UNCHANGED bits
           \/ /\ Left # 0 /\ bits \cap m # {}
              /\ w' = [w EXCEPT !.pc = "answer", !.got = bits]
              /\ bits' = bits \ m
           \/ /\ Left # 0 /\ bits \cap m = {}
              /\ WorkerAt("blocked") /\ UNCHANGED bits
        /\ UNCHANGED <<tr, cmdQ, safetyQ, epoch, caller, rect, rx, stored, ctl, hist>>

\* A slice is over: xEventGroupWaitBits() returns every bit of the group.  If
\* none is set, a STOP in safety_queue ends the wait of any other command.
SliceOver ==
    /\ w.pc = "blocked"
    /\ \E late \in 0 .. MaxLate :
         LET now == w.waited + 1 + late
         IN  /\ now < 2 * TickMod
             /\ \/ /\ bits # {}
                   /\ w' = [w EXCEPT !.pc = "answer", !.got = bits, !.waited = now]
                   /\ UNCHANGED hist
                \/ /\ bits = {} /\ w.cmd.type # "STOP" /\ safetyQ # << >>
                   /\ Finish("unknown")
                \/ /\ bits = {} /\ (w.cmd.type = "STOP" \/ safetyQ = << >>)
                   /\ w' = [w EXCEPT !.pc = "poll", !.waited = now]
                   /\ UNCHANGED hist
    /\ UNCHANGED <<tr, cmdQ, safetyQ, epoch, caller, bits, rect, rx, stored, ctl>>

-----------------------------------------------------------------------------
(* What an attempt came to.                                                *)

Answered == ExpectedBit(w.cmd.type) \in w.got

\* The callbacks: BIT9 compares the verb of the stored answer with the command,
\* BIT10 and BIT11 take what is stored.
Accepted ==
    /\ Answered
    /\ ExpectedBit(w.cmd.type) = "BIT9" => stored = w.cmd.type
    /\ w.cmd.type = "VERSION" => stored = "VERSION"

Success ==
    /\ w.pc = "answer" /\ Accepted
    /\ IF w.cmd.type = "VERSION"
       THEN w' = [w EXCEPT !.pc = "hello", !.hello = HelloCount] /\ UNCHANGED hist
       ELSE Finish("ok")
    /\ UNCHANGED <<tr, cmdQ, safetyQ, epoch, caller, bits, rect, rx, stored, ctl>>

\* Mutant of Failure: every command is tried again.
FailureRetriesAll ==
    /\ w.pc = "answer" /\ ~Accepted
    /\ WorkerAt("attempt") /\ UNCHANGED hist
    /\ UNCHANGED <<tr, cmdQ, safetyQ, epoch, caller, bits, rect, rx, stored, ctl>>

\* Refused, not answered, or answered for another command: only what can be
\* repeated is tried again.
Failure ==
    /\ w.pc = "answer" /\ ~Accepted
    /\ IF NonIdempotent(w.cmd.type) THEN Finish("unknown")
       ELSE WorkerAt("attempt") /\ UNCHANGED hist
    /\ UNCHANGED <<tr, cmdQ, safetyQ, epoch, caller, bits, rect, rx, stored, ctl>>

\* sendHello(), inside the callback of BIT11: the worker pushes to its own queue.
Hello ==
    /\ w.pc = "hello" /\ w.hello # 0 /\ MayCreate
    /\ w' = [w EXCEPT !.hello = @ - 1]
    /\ IF Len(cmdQ) < QueueLen
       THEN /\ cmdQ' = Append(cmdQ, NewCommand("STATUS", AttemptCount, 0, ListRequest))
            /\ hist' = Born
       ELSE UNCHANGED <<cmdQ, hist>> \* queue_full, after a second
    /\ UNCHANGED <<tr, safetyQ, epoch, caller, bits, rect, rx, stored, ctl>>

HelloDone ==
    /\ w.pc = "hello" /\ (w.hello = 0 \/ ~MayCreate)
    /\ Finish("ok")
    /\ UNCHANGED <<tr, cmdQ, safetyQ, epoch, caller, bits, rect, rx, stored, ctl>>

-----------------------------------------------------------------------------
(* The controller (outside the repository): it reads commands in order and  *)
(* answers each with OK, with another result, or (not in the stage for it,  *)
(* or the answer lost) not at all.  A journal is one chunk long.            *)

Answer(verb, ok, p) == [verb |-> verb, ok |-> ok, proc |-> p]

ControllerReads ==
    LET c == Head(ctl.inbox)
        Replies(more) ==
            ctl' = [inbox |-> Tail(ctl.inbox), line |-> ctl.line \o more]
    IN  /\ ctl.inbox # << >>
        /\ \/ Replies(<< >>)
           \/ Replies(<<Answer(c.type, FALSE, c.proc)>>)
           \/ /\ c.type # "GET_LOG" \/ c.proc = ListRequest
              /\ Replies(<<Answer(c.type, TRUE, c.proc)>>)
           \/ /\ c.type = "GET_LOG" /\ c.proc # ListRequest
              /\ Replies(<<Answer("GET_LOG", TRUE, c.proc), Answer("file", TRUE, c.proc)>>)
        /\ UNCHANGED <<tr, cmdQ, safetyQ, epoch, caller, w, bits, rect, rx, stored, hist>>

-----------------------------------------------------------------------------
(* The receiver.                                                           *)

\* xEventGroupSetBits(): a task that waits for the bit gets the bits and what
\* it waits for is cleared, in this same step.
SetBit(b) ==
    IF w.pc = "blocked" /\ b \in Mask(w.cmd.type)
    THEN /\ w' = [w EXCEPT !.pc = "answer", !.got = bits \cup {b}]
         /\ bits' = (bits \cup {b}) \ Mask(w.cmd.type)
    ELSE /\ bits' = bits \cup {b}
         /\ UNCHANGED w

LogFrame(a) ==
    [kind |-> IF a.verb = "file" THEN "file" ELSE IF ~a.ok THEN "ERR"
              ELSE IF a.proc = ListRequest THEN "LIST" ELSE "START",
     file |-> a.proc, n |-> 1, intact |-> TRUE]

\* A journal frame goes to consume() and nowhere else.
RxLogFrame ==
    /\ rx = "none" /\ ctl.line # << >>
    /\ Head(ctl.line).verb \in {"GET_LOG", "file"}
    /\ tr' = Consume(tr, LogFrame(Head(ctl.line)), TRUE)
    /\ ctl' = [ctl EXCEPT !.line = Tail(@)]
    /\ UNCHANGED <<cmdQ, safetyQ, epoch, caller, w, bits, rect, rx, stored, hist>>

\* Any other answer: storeResponse() for an answer that has a payload to keep.
RxResponse ==
    LET a == Head(ctl.line)
        settings == a.verb = "GET_SETTINGS"
        kept == ~settings /\ (a.ok \/ a.verb = "VERSION")
    IN  /\ rx = "none" /\ ctl.line # << >> /\ a.verb \notin {"GET_LOG", "file"}
        /\ tr' = CompleteDrain(tr)
        /\ stored' = IF kept THEN a.verb ELSE stored
        /\ rx' = IF kept \/ (settings /\ a.ok) THEN ExpectedBit(a.verb) ELSE "BIT1"
        /\ ctl' = [ctl EXCEPT !.line = Tail(@)]
        /\ UNCHANGED <<cmdQ, safetyQ, epoch, caller, w, bits, rect, hist>>

\* The bit is set after the answer was stored.
RxSetBit ==
    /\ rx # "none"
    /\ SetBit(rx)
    /\ rx' = "none"
    /\ UNCHANGED <<tr, cmdQ, safetyQ, epoch, caller, rect, stored, ctl, hist>>

\* Telemetry ends a drain and sets BIT0, for RectTelemetry.  The controller
\* sends none between START and the last chunk.
Telemetry ==
    /\ rx = "none" /\ \A i \in DOMAIN ctl.line : ctl.line[i].verb # "file"
    /\ tr' = CompleteDrain(tr)
    /\ IF rect = "waiting" THEN rect' = "busy" /\ bits' = bits \ {"BIT0"}
       ELSE UNCHANGED rect /\ bits' = bits \cup {"BIT0"}
    /\ UNCHANGED <<cmdQ, safetyQ, epoch, caller, w, rx, stored, ctl, hist>>

\* RectTelemetry is through with a frame and waits for the next.
RectWaits ==
    /\ rect = "busy"
    /\ IF "BIT0" \in bits THEN bits' = bits \ {"BIT0"} /\ UNCHANGED rect
       ELSE rect' = "waiting" /\ UNCHANGED bits
    /\ UNCHANGED <<tr, cmdQ, safetyQ, epoch, caller, w, rx, stored, ctl, hist>>

\* Mutant of SessionTimeout: only a transfer under way times out.
SessionTimeoutReceiving ==
    /\ tr.status = "RECEIVING"
    /\ tr' = Fail(tr, "timeout")
    /\ UNCHANGED <<cmdQ, safetyQ, epoch, caller, w, bits, rect, rx, stored, ctl, hist>>

\* checkTimeout() by the receiver, by the idle worker or by a deferred command
SessionTimeout ==
    /\ Blocked(tr)
    /\ tr' = Fail(tr, "timeout")
    /\ UNCHANGED <<cmdQ, safetyQ, epoch, caller, w, bits, rect, rx, stored, ctl, hist>>

-----------------------------------------------------------------------------

TaskStep(t) ==
    \/ Send(t) \/ SendRefused(t)
    \/ SendSafety(t) \/ SafetyRefused(t) \/ Publish(t)

WorkerStep ==
    \/ TakeSafety \/ NoSafety \/ TakeCommand \/ QueueIdle
    \/ DropStale \/ KeepFresh \/ Gate \/ Requeue
    \/ Attempt \/ NoMoreAttempts \/ StopProbe \/ StopCancel \/ Mark
    \/ WriteOk \/ WriteFailed \/ Poll \/ SliceOver
    \/ Success \/ Failure \/ Hello \/ HelloDone

ReceiverStep == RxLogFrame \/ RxResponse \/ RxSetBit

Next ==
    \/ \E t \in Tasks :
         \/ \E type \in Types : Push(t, type)
         \/ \E p \in Procs \cup {ListRequest} : PushGetLog(t, p)
         \/ EmergencyStop(t)
         \/ TaskStep(t)
    \/ WorkerStep
    \/ ControllerReads
    \/ ReceiverStep \/ Telemetry
    \/ RectWaits \/ SessionTimeout

Spec == Init /\ [][Next]_vars

\* Every task runs when it can, and the receiver's loop calls checkTimeout()
\* again and again.  Nothing is assumed of the controller.
Fairness ==
    /\ WF_vars(WorkerStep)
    /\ WF_vars(ReceiverStep)
    /\ WF_vars(RectWaits)
    /\ WF_vars(SessionTimeout)
    /\ \A t \in Tasks : WF_vars(TaskStep(t))

FairSpec == Spec /\ Fairness

-----------------------------------------------------------------------------
(* Safety.                                                                 *)

IdsOf(q) == {q[i].id : i \in DOMAIN q}
Distinct(q) == \A i, j \in DOMAIN q : q[i].id = q[j].id => i = j

Making(t) == caller[t].pc \in {"send", "sendSafety"}
InMaking == {caller[t].cmd.id : t \in {t \in Tasks : Making(t)}}
InWorker == {w.cmd.id} \ {NoCmd.id}
Open == {i \in DOMAIN hist.fate : hist.fate[i] = "open"}

\* A command that was made is neither lost nor doubled, through every deferral,
\* retry, drop and preemption: until `delete cmd` one task, one place in a queue
\* or the worker has it, and no two of them have the same.
EachCommandOwned ==
    /\ Open = InMaking \cup IdsOf(cmdQ) \cup IdsOf(safetyQ) \cup InWorker
    /\ Distinct(cmdQ) /\ Distinct(safetyQ)
    /\ \A s, t \in Tasks :
         Making(s) /\ Making(t) /\ caller[s].cmd.id = caller[t].cmd.id => s = t
    /\ InMaking \cap (IdsOf(cmdQ) \cup IdsOf(safetyQ) \cup InWorker) = {}
    /\ IdsOf(cmdQ) \cap (IdsOf(safetyQ) \cup InWorker) = {}
    /\ IdsOf(safetyQ) \cap InWorker = {}

\* START, NEXT and RESUME reach the line once at most.
Writing == w.pc = "write" /\ ctl'.inbox # ctl.inbox

NonIdempotentOnce ==
    [][Writing /\ NonIdempotent(w.cmd.type) => w.cmd.id \notin hist.written]_vars

\* Once emergencyStop() has returned, no START, NEXT or RESUME that was made
\* before the call is taken for execution.
Taking == w.pc = "check" /\ w'.pc = "gate"

StaleDropped ==
    [][Taking /\ NonIdempotent(w.cmd.type) => w.cmd.id > hist.fence]_vars

\* What those who push commands are promised (CommandDelivery).  A command that reached the
\* line stays with the worker to its end: it is neither deferred nor dropped, nor counted as
\* refused; one that counts as done has reached the line; attempts are not exceeded, and START,
\* NEXT and RESUME have one write, however deferral, retries, preemption by a STOP and the
\* greeting from inside a callback come together.
InHand ==
    IF w.pc \in {"safety", "queue"} THEN [id |-> 0, once |-> FALSE, left |-> 0]
    ELSE [id |-> w.cmd.id, once |-> NonIdempotent(w.cmd.type),
          left |-> w.cmd.attempts
                   + IF w.pc \in {"probe", "cancel", "mark", "write"} THEN 1 ELSE 0]

Delivery == INSTANCE CommandDelivery WITH
    fate <- hist.fate,
    making <- InMaking,
    queued <- IdsOf(cmdQ) \cup IdsOf(safetyQ),
    current <- InHand,
    written <- hist.written,
    line <- ctl.inbox

DeliveryKept == Delivery!DeliverySpec

\* However full the FIFO is, at most one of its commands gets to the line while
\* a STOP waits in the safety queue.
OvertakenByOne == Cardinality(hist.overtook) <= 1

\* No ordinary command is written between GET_LOG and the controller's answer
\* to it.
NoOrdinaryWhileWaiting ==
    [][Writing /\ w.cmd.type \notin {"GET_LOG", "STOP"}
          => tr.status \notin WaitingStatuses]_vars

(* What a comment of the code says and a run refutes.                      *)

\* START, NEXT and RESUME do not catch up with a STOP: none that was made before
\* it is written behind it.
NoCatchUp ==
    \A i, j \in DOMAIN ctl.inbox :
        i < j /\ ctl.inbox[i].type = "STOP" /\ NonIdempotent(ctl.inbox[j].type)
          => ctl.inbox[j].id > ctl.inbox[i].id

\* A late answer to a command that was given up is not credited to the next: a
\* START, NEXT or RESUME that counts as done has been read by the controller.
AnswerIsOwn ==
    \A j \in DOMAIN ctl.inbox :
        NonIdempotent(ctl.inbox[j].type) => hist.fate[ctl.inbox[j].id] # "ok"

\* The wait for an answer is over after cmd->timeout, but for the lateness of
\* the worker's last wake-up.
WaitBounded == w.pc \in {"poll", "blocked"} => w.waited <= Timeout + MaxLate

\* The worker never keeps a deferred command in a loop: it goes on polling the
\* safety queue, so a STOP that waits there is taken.
SafetyPolled == safetyQ # << >> ~> safetyQ = << >>

(* Liveness.                                                               *)

\* Every command that was accepted comes to an end: a STOP among them.
Settled(i) == i \in Open ~> i \notin Open
EveryCommandSettles == \A i \in 1 .. MaxCommands : Settled(i)

=============================================================================
