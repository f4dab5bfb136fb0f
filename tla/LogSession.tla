----------------------------- MODULE LogSession -----------------------------
(***************************************************************************)
(* The life of journal downloads: the tasks of the firmware that share the *)
(* one Transfer object, the GET_LOG commands on their way to the worker,   *)
(* and the controller on the other end of the UART.                        *)
(*                                                                         *)
(*   - a REST client runs on the HTTP task: GET /rest/logs/<id>,           *)
(*     GET /rest/logs, DELETE /rest/logs (HandlerRegistrator.cpp);         *)
(*   - a command client runs the get_log entry of COMMAND_MAP, from the    *)
(*     HTTP or the MQTT task (SsvcCommandsQueue.cpp, MqttCommandHandler);  *)
(*   - the worker takes GET_LOG commands and STOP (commandProcessorTask);  *)
(*   - the receiver feeds frames to consume() (SsvcConnector::_telemetry); *)
(*   - any of them calls checkTimeout().                                   *)
(*                                                                         *)
(* A handler is one action between two points where another task can run:  *)
(* each call into Transfer takes and releases its mutex, so the code       *)
(* between two calls is atomic only with one of them.                      *)
(***************************************************************************)
EXTENDS LogTransfer, FiniteSets

CONSTANTS
    RestClients,     \* tasks that serve /rest/logs
    CommandClients,  \* tasks that call COMMAND_MAP["get_log"]
    FileChunks,      \* number of chunks of each journal on the controller
    QueueLen,        \* COMMAND_QUEUE_LENGTH
    MaxGen,          \* bound: no new request once the generation is this high
    MaxNoise         \* bound: frames lost or damaged, and short heaps

Clients == RestClients \cup CommandClients

ASSUME FileChunksAssumption == FileChunks \in [Procs -> Nat]
ASSUME SessionBoundsAssumption ==
    QueueLen \in Nat \ {0} /\ MaxGen \in Nat /\ MaxNoise \in Nat

VARIABLES
    tr,      \* the Transfer object
    queue,   \* GET_LOG commands in command_queue
    client,  \* what each client's task is doing
    worker,  \* what the worker is doing with which GET_LOG command
    ctl,     \* the controller: requests it has not read, file it is sending
    noise,   \* how much has gone wrong so far
    quiet    \* not in the code: ticks since a request was accepted or a frame came

vars == <<tr, queue, client, worker, ctl, noise, quiet>>

Requests == Procs \cup {ListRequest}

\* SsvcCommand of type GET_LOG: parameters and generation.
Commands == [proc: Requests, gen: Nat]
NoCommand == [proc |-> ListRequest, gen |-> 0]

ClientStates ==
    [pc: {"idle", "decide", "reserve", "generation", "send", "snapshot", "copy"},
     want: Requests, via: {"rest", "plain", "refresh", "statusOnly", "map"},
     gen: Nat]
IdleClient == [pc |-> "idle", want |-> ListRequest, via |-> "rest", gen |-> 0]

AtTake == [pc |-> "take", cmd |-> NoCommand]

NotSending == [file |-> ListRequest, next |-> 0]

TypeOK ==
    /\ tr \in Transfers
    /\ queue \in Seq(Commands)
    /\ client \in [Clients -> ClientStates]
    /\ worker \in [pc: {"take", "check", "mark", "write", "stop"}, cmd: Commands]
    /\ ctl \in [inbox: Seq(Requests), stream: [file: Requests, next: Nat]]
    /\ noise \in Nat
    /\ quiet \in 0 .. OldAge

Init ==
    /\ tr = NewTransfer
    /\ queue = << >>
    /\ client = [c \in Clients |-> IdleClient]
    /\ worker = AtTake
    /\ ctl = [inbox |-> << >>, stream |-> NotSending]
    /\ noise = 0
    /\ quiet = 0

-----------------------------------------------------------------------------
(* Clients.                                                                *)

Goto(c, pc) == client' = [client EXCEPT ![c].pc = pc]

\* The request is answered: a reply says what the object is at this moment.
Reply(c) == client' = [client EXCEPT ![c] = IdleClient]

\* On to the reply, for a REST request; a command has none from the object.
Finish(c) ==
    client' = [client EXCEPT ![c] =
        IF @.via = "map" THEN IdleClient
        ELSE [@ EXCEPT !.pc = "snapshot", !.gen = 0]]

\* checkTimeout() and releaseExpiredResult() at the top of both GET handlers.
\* They are two critical sections, but a checkTimeout() of another task can
\* come first as well, so one step loses no interleaving; and one of the two at
\* most has something to do, so one reading of the clock stands for both.
Refreshed(t, lag) == ReleaseExpired(CheckTimeout(t, lag), lag)

\* GET /rest/logs/<p>
GetFile(c, p) ==
    /\ client[c].pc = "idle" /\ tr.gen < MaxGen
    /\ \E lag \in 0 .. MaxLag : tr' = Refreshed(tr, lag)
    /\ client' = [client EXCEPT ![c] =
                    [IdleClient EXCEPT !.pc = "reserve", !.want = p]]
    /\ UNCHANGED <<queue, worker, ctl, noise, quiet>>

\* GET /rest/logs, with its two optional parameters
GetList(c, via) ==
    /\ client[c].pc = "idle" /\ tr.gen < MaxGen
    /\ \E lag \in 0 .. MaxLag : tr' = Refreshed(tr, lag)
    /\ client' = [client EXCEPT ![c] =
                    [IdleClient EXCEPT !.pc = "decide", !.via = via]]
    /\ UNCHANGED <<queue, worker, ctl, noise, quiet>>

\* A refresh does not push out a file session; a plain GET asks the controller
\* only when nothing is known.
Decide(c) ==
    LET refresh  == client[c].via = "refresh"
        needList == refresh \/ (client[c].via = "plain" /\ tr.status = "IDLE")
    IN  /\ client[c].pc = "decide"
        /\ IF refresh /\ IsFileSession(tr)
           THEN Reply(c) \* 409
           ELSE client' = [client EXCEPT ![c].via = "rest",
                             ![c].pc = IF needList THEN "reserve" ELSE "snapshot"]
        /\ UNCHANGED <<tr, queue, worker, ctl, noise, quiet>>

\* COMMAND_MAP["get_log"]
CommandGetLog(c, p) ==
    /\ client[c].pc = "idle" /\ tr.gen < MaxGen
    /\ client' = [client EXCEPT ![c] =
                    [IdleClient EXCEPT !.pc = "reserve", !.want = p, !.via = "map"]]
    /\ UNCHANGED <<tr, queue, worker, ctl, noise, quiet>>

\* reserveList() or reserveFile(), and what the caller makes of the verdict
ReserveSession(c) ==
    LET v == Verdict(tr, client[c].want)
    IN  /\ client[c].pc = "reserve"
        /\ tr' = Reserve(tr, client[c].want)
        /\ \/ v = "Accepted" /\ Goto(c, "generation")
           \/ v = "SameRequest" /\ Finish(c)
           \/ v = "Busy" /\ Reply(c) \* 409, or the command returns false
        /\ quiet' = IF v = "Accepted" THEN 0 ELSE quiet
        /\ UNCHANGED <<queue, worker, ctl, noise>>

\* transfer.generation(), an argument of getLog(): a second critical section
ReadGeneration(c) ==
    /\ client[c].pc = "generation"
    /\ client' = [client EXCEPT ![c].pc = "send", ![c].gen = tr.gen]
    /\ UNCHANGED <<tr, queue, worker, ctl, noise, quiet>>

\* getLog() puts the command into command_queue
Send(c) ==
    /\ client[c].pc = "send" /\ Len(queue) < QueueLen
    /\ queue' = Append(queue, [proc |-> client[c].want, gen |-> client[c].gen])
    /\ Finish(c)
    /\ UNCHANGED <<tr, worker, ctl, noise, quiet>>

\* getLog() returns false.  Other commands share the queue, so it may be full
\* whatever this module's share of it.
SendRefused(c) ==
    /\ client[c].pc = "send"
    /\ tr' = ReleaseReservation(tr)
    /\ Reply(c) \* 503, or the command returns false
    /\ UNCHANGED <<queue, worker, ctl, noise, quiet>>

Finished(p) == p # ListRequest /\ tr.status = "COMPLETED" /\ tr.proc = p

\* snapshot(): the reply, unless the journal is there to be sent
Snapshot(c) ==
    /\ client[c].pc = "snapshot"
    /\ \/ /\ Finished(client[c].want)
          /\ Goto(c, "copy") /\ UNCHANGED noise
       \/ /\ Finished(client[c].want)
          /\ noise < MaxNoise /\ noise' = noise + 1 \* no heap for the copy
          /\ Reply(c) \* 503
       \/ /\ ~Finished(client[c].want)
          /\ Reply(c) /\ UNCHANGED noise \* progress, the list or the error
    /\ UNCHANGED <<tr, queue, worker, ctl, quiet>>

\* data(): the body of the 200 reply, read after the snapshot was released
CopyData(c) ==
    /\ client[c].pc = "copy"
    /\ Reply(c) \* 200, with the bytes of tr.data
    /\ UNCHANGED <<tr, queue, worker, ctl, noise, quiet>>

\* DELETE /rest/logs
Delete(c) ==
    /\ client[c].pc = "idle" /\ tr.gen < MaxGen
    /\ tr' = Cancel(tr)
    /\ UNCHANGED <<queue, client, worker, ctl, noise, quiet>>

-----------------------------------------------------------------------------
(* The worker.                                                             *)

WorkerTake ==
    /\ worker.pc = "take" /\ queue # << >>
    /\ worker' = [pc |-> "check", cmd |-> Head(queue)]
    /\ queue' = Tail(queue)
    /\ UNCHANGED <<tr, client, ctl, noise, quiet>>

\* A command of a cancelled or outdated session is dropped.
WorkerCheck ==
    /\ worker.pc = "check"
    /\ worker' = IF worker.cmd.gen = tr.gen THEN [worker EXCEPT !.pc = "mark"]
                 ELSE AtTake
    /\ UNCHANGED <<tr, queue, client, ctl, noise, quiet>>

WorkerMark ==
    /\ worker.pc = "mark"
    /\ tr' = MarkSent(tr)
    /\ worker' = [worker EXCEPT !.pc = "write"]
    /\ UNCHANGED <<queue, client, ctl, noise, quiet>>

WorkerWrite ==
    /\ worker.pc = "write"
    /\ worker' = AtTake
    /\ \/ /\ ctl' = [ctl EXCEPT !.inbox = Append(@, worker.cmd.proc)]
          /\ UNCHANGED <<tr, noise>>
       \/ /\ noise < MaxNoise /\ noise' = noise + 1 \* sendCommand() failed
          /\ tr' = AbortReservation(tr, "uart_write_failed")
          /\ UNCHANGED ctl
    /\ UNCHANGED <<queue, client, quiet>>

\* STOP asks isFileSession() and then calls cancel(): two critical sections.
WorkerStop ==
    /\ worker.pc = "take" /\ IsFileSession(tr) /\ tr.gen < MaxGen
    /\ worker' = [AtTake EXCEPT !.pc = "stop"]
    /\ UNCHANGED <<tr, queue, client, ctl, noise, quiet>>

WorkerStopCancel ==
    /\ worker.pc = "stop"
    /\ tr' = Cancel(tr)
    /\ worker' = AtTake
    /\ UNCHANGED <<queue, client, ctl, noise, quiet>>

-----------------------------------------------------------------------------
(* Time.                                                                   *)

\* millis() as the object's timestamps see it.
Tick ==
    /\ tr' = Aged(tr)
    /\ quiet' = Older(quiet)
    /\ UNCHANGED <<queue, client, worker, ctl, noise>>

\* checkTimeout(millis()) by the receiver's loop, by the idle worker or by a
\* deferred command.
TimeoutCheck ==
    /\ \E lag \in 0 .. MaxLag : tr' = CheckTimeout(tr, lag)
    /\ UNCHANGED <<queue, client, worker, ctl, noise, quiet>>

-----------------------------------------------------------------------------
(* The controller (outside the repository) and the receiver's consume().   *)
(* Frames arrive in the order they are sent.                               *)

Frame(kind, p, n, intact) ==
    [kind |-> kind, file |-> p, n |-> n, intact |-> intact]

\* A frame reaches consume(), or is lost or damaged on the line.
Deliver(kind, p, n) ==
    \/ tr' = Consume(tr, Frame(kind, p, n, TRUE), TRUE) /\ quiet' = 0 /\ UNCHANGED noise
    \/ /\ noise < MaxNoise /\ noise' = noise + 1
       /\ \/ UNCHANGED <<tr, quiet>>
          \/ tr' = Consume(tr, Frame(kind, p, n, FALSE), TRUE) /\ quiet' = 0
          \/ tr' = Consume(tr, Frame(kind, p, n, TRUE), FALSE) /\ quiet' = 0

Sending == ctl.stream # NotSending

\* The controller reads the next GET_LOG and answers it, refuses it, or (not
\* in its waiting stage) ignores it.
ControllerAnswer ==
    LET p == Head(ctl.inbox)
        Consumed(stream) == ctl' = [inbox |-> Tail(ctl.inbox), stream |-> stream]
    IN  /\ ~Sending /\ ctl.inbox # << >>
        /\ \/ p = ListRequest /\ Deliver("LIST", p, 0) /\ Consumed(NotSending)
           \/ /\ p # ListRequest /\ Deliver("START", p, FileChunks[p])
              /\ Consumed(IF FileChunks[p] = 0 THEN NotSending
                          ELSE [file |-> p, next |-> 1])
           \/ \E kind \in {"ERR", "OK"} : Deliver(kind, p, 0) /\ Consumed(NotSending)
           \/ UNCHANGED <<tr, noise, quiet>> /\ Consumed(NotSending)
        /\ UNCHANGED <<queue, client, worker>>

\* The next chunk of the file, or an err_int instead of it.
ControllerChunk ==
    LET s == ctl.stream
    IN  /\ Sending
        /\ \/ /\ Deliver("file", s.file, s.next)
              /\ ctl' = [ctl EXCEPT !.stream =
                           IF s.next = FileChunks[s.file] THEN NotSending
                           ELSE [s EXCEPT !.next = @ + 1]]
           \/ /\ Deliver("ERR", s.file, 0)
              /\ ctl' = [ctl EXCEPT !.stream = NotSending]
        /\ UNCHANGED <<queue, client, worker>>

\* Any frame that is not a log frame: telemetry is silent while a file is sent.
Telemetry ==
    /\ ~Sending
    /\ tr' = CompleteDrain(tr)
    /\ UNCHANGED <<queue, client, worker, ctl, noise, quiet>>

-----------------------------------------------------------------------------

RestRequest(c) ==
    \/ \E p \in Procs : GetFile(c, p)
    \/ \E via \in {"plain", "refresh", "statusOnly"} : GetList(c, via)
    \/ Delete(c)

ClientStep(c) ==
    \/ Decide(c) \/ ReserveSession(c) \/ ReadGeneration(c)
    \/ Send(c) \/ SendRefused(c) \/ Snapshot(c) \/ CopyData(c)

WorkerStep ==
    \/ WorkerTake \/ WorkerCheck \/ WorkerMark \/ WorkerWrite
    \/ WorkerStop \/ WorkerStopCancel

Next ==
    \/ \E c \in RestClients : RestRequest(c)
    \/ \E c \in CommandClients : \E p \in Requests : CommandGetLog(c, p)
    \/ \E c \in Clients : ClientStep(c)
    \/ WorkerStep
    \/ ControllerAnswer \/ ControllerChunk \/ Telemetry
    \/ Tick \/ TimeoutCheck

Spec == Init /\ [][Next]_vars

\* The clock runs and the receiver keeps calling checkTimeout(): its loop
\* comes round at least every UART_READ_TIMEOUT_MS.  Nothing is assumed of the
\* controller, the line or the clients.
Fairness == WF_vars(Tick) /\ WF_vars(TimeoutCheck)

FairSpec == Spec /\ Fairness

-----------------------------------------------------------------------------
(* Safety.                                                                 *)

\* Every part of what the object promises about its fields holds between any
\* two calls: Transfer never shows a half-made state.
TransferConsistent ==
    /\ RequestMatchesStatus(tr)
    /\ ProgressConsistent(tr)

\* A finished download is the journal that was asked for: every chunk of it,
\* once, in order, and none of another file, whatever was lost, damaged, late,
\* repeated or cancelled on the way.
Journal(p) == [i \in 1 .. FileChunks[p] |-> <<p, i>>]

DownloadIntact == tr.status = "COMPLETED" => tr.data = Journal(tr.proc)

\* The buffer (up to 64 KB of a small heap) is never left behind by a session
\* that failed: silence, a bad frame and a failed write all give it back.
BufferFreed == BufferOwned(tr)

\* A session that makes other commands wait always has a running deadline.
BlockedHasDeadline == DeadlineArmed(tr)

\* Between any two calls of any tasks the object keeps all it promises: its fields agree, its
\* memory is owned by a session that is alive, and a session that blocks the queue is timed.
ObjectSound == TransferConsistent /\ BufferFreed /\ BlockedHasDeadline

\* A running session is not taken over: the generation changes only when the
\* session was free, or when a request that was not sent yet is cancelled.
NoTakeover ==
    [][tr'.gen # tr.gen =>
          \/ ~Blocked(tr)
          \/ tr.status \in QueuedStatuses /\ tr'.status = "IDLE"]_vars

\* A cancelled transfer is not revived by what the controller still sends: it
\* ends in IDLE or ERROR, and no client gets the session before that.
DrainIsFinal ==
    [][tr.status = "DRAINING" =>
          /\ tr'.status \in {"DRAINING", "IDLE", "ERROR"}
          /\ tr'.gen = tr.gen]_vars

\* A slow transfer is not declared dead while it lives: when "timeout" is said, no
\* frame had come and no request had been accepted for the whole limit, by a
\* clock that is not the object's own stamp.  The exception is the unsigned
\* difference in checkTimeout(): something came while the task that
\* read millis() waited for the mutex (see TimeoutOnlyAfterSilence).
TimedOut == tr'.error = "timeout" /\ tr.error # "timeout"

LiveNotTimedOut ==
    [][TimedOut => quiet >= TransferTimeout \/ quiet < MaxLag]_vars

(* What the code or its documentation says and a run refutes.              *)

\* docs/develop/api/logs.md: once the transfer has ended with an error, the
\* reply to GET /rest/logs/<id> carries its code.  The request must not wipe
\* out the error it is going to report.
Asking(c, p) == /\ client[c].pc = "reserve" /\ client'[c].pc # "reserve"
                /\ client[c].via = "rest" /\ client[c].want = p

ErrorReported ==
    [][\A c \in Clients, p \in Procs :
          Asking(c, p) /\ tr.status = "ERROR" /\ tr.request = "File" /\ tr.proc = p
             => tr'.error = tr.error]_vars

\* releaseExpiredResult(): a finished journal that was kept for the whole hold
\* time gives its memory back when the next request comes.
Expired == tr.status = "COMPLETED" /\ tr'.status = "IDLE" /\ client' # client

ResultReleased == [][Expired => ~tr'.buffer]_vars

\* SsvcLogProtocol.h, checkTimeout(): it ends a transfer without activity for
\* longer than timeoutMs.  A stamp later than the time that was read makes
\* `nowMs - _lastActivityMs` wrap, and the transfer ends when its frame has just come.
TimeoutOnlyAfterSilence == [][TimedOut => quiet >= TransferTimeout]_vars

(* Liveness.                                                               *)

\* Every session that blocks the queue ends, even when the controller never
\* answers: a lost LIST or START does not occupy it for ever.
Occupied(g) == Blocked(tr) /\ tr.gen = g

SessionEnds == \A g \in 1 .. MaxGen : Occupied(g) ~> ~Occupied(g)

=============================================================================
