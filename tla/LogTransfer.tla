---------------------------- MODULE LogTransfer ----------------------------
(***************************************************************************)
(* The journal-download object of the firmware, class                      *)
(* SsvcLogProtocol::Transfer.  There is one of it (getTransfer()) and the  *)
(* HTTP task, the MQTT task, the queue worker and the UART receiver all    *)
(* call it.  Every method runs under Transfer::_mutex, so a call is one    *)
(* atomic step: each operator below maps the object's value t before the   *)
(* call to its value after it.  The modules that extend this one hold the  *)
(* object in a variable and decide who calls what and when.                *)
(*                                                                         *)
(* A journal's CSV is a sequence of chunk names <<process, number>>.  The  *)
(* names in `files` are not kept: only that a list arrived.  `buffer` is   *)
(* whether _data holds heap memory: clear() empties a string and keeps its *)
(* memory, shrink_to_fit() gives it back.  Time is held as the age of each *)
(* timestamp, so `nowMs - _lastActivityMs` is read off the ages and no     *)
(* absolute clock is needed.  The nowMs of a call is read before the mutex *)
(* is taken.  For a check that is the parameter `lag`; for a stamp it only *)
(* makes the limit shorter by the wait for the mutex, and is left out.     *)
(***************************************************************************)
EXTENDS Integers, Sequences

CONSTANTS
    Procs,           \* numbers of the processes that have a journal
    DataMax,         \* LOG_TOTAL_RAW_MAX, in full chunks of FILE_CHUNK_RAW_MAX
    TransferTimeout, \* TRANSFER_TIMEOUT_MS, in ticks of the model's clock
    HoldTime,        \* holdMs, how long a finished journal is kept, in ticks
    MaxLag           \* bound: ticks between reading millis() and taking the mutex

ASSUME ProcsAssumption == Procs \subseteq Nat \ {0}
ASSUME DataMaxAssumption == DataMax \in Nat
ASSUME TimeAssumption == /\ TransferTimeout \in Nat \ {0}
                         /\ HoldTime \in Nat \ {0}
                         /\ MaxLag \in Nat

\* The process number that stands for "no number": a request for the list.
ListRequest == 0

\* _lastActivityMs == 0 and _completedAtMs == 0: the time is not tracked.
Never == -1

\* Ages saturate here: no comparison tells larger ones apart.
OldAge == TransferTimeout + HoldTime + MaxLag

QueuedStatuses  == {"QUEUED_LIST", "QUEUED_FILE"}
WaitingStatuses == {"WAITING_LIST", "WAITING_START"}
BlockedStatuses ==
    QueuedStatuses \cup WaitingStatuses \cup {"RECEIVING", "DRAINING"}
Statuses == BlockedStatuses \cup {"IDLE", "LIST_RECEIVED", "COMPLETED", "ERROR"}

Reasons == {"", "timeout", "uart_write_failed", "cancelled", "invalid_list",
            "invalid_start", "unexpected_file", "log_heap_low", "err_",
            "invalid_chunk", "invalid_data", "log_too_large"}

Ages   == Never .. OldAge
Chunks == Procs \X (Nat \ {0})

Transfers ==
    [status: Statuses, request: {"None", "List", "File"}, gen: Nat,
     proc: Procs \cup {ListRequest}, data: Seq(Chunks), error: Reasons,
     buffer: BOOLEAN, total: Nat, received: Nat, age: Ages, held: Ages]

\* The frames of the controller that consume() tells apart: the answer to a
\* list request, the announcement of a file with n chunks, an err_* code, a bare
\* OK, and chunk number n of a file.  `intact` is false when a field is missing or
\* does not parse (a file array, total, Base64).
Frames == [kind: {"LIST", "START", "ERR", "OK", "file"},
           file: Procs \cup {ListRequest}, n: Nat, intact: BOOLEAN]

NewTransfer ==
    [status |-> "IDLE", request |-> "None", gen |-> 0, proc |-> ListRequest,
     data |-> << >>, error |-> "", buffer |-> FALSE, total |-> 0, received |-> 0,
     age |-> Never, held |-> Never]

-----------------------------------------------------------------------------
(* Helpers that the methods share.                                         *)

Blocked(t) == t.status \in BlockedStatuses

IsFileSession(t) == t.request = "File" /\ Blocked(t)

\* resetLocked(): everything but the generation and the memory of the buffer.
Reset(t) == [NewTransfer EXCEPT !.gen = t.gen, !.buffer = t.buffer]

NextGeneration(t) == [t EXCEPT !.gen = @ + 1]

\* failLocked(): ERROR, the reason, and the buffer given back.
Fail(t, reason) ==
    [t EXCEPT !.status = "ERROR", !.error = reason, !.data = << >>, !.buffer = FALSE]

\* touchLocked() with a time read just now.
Touch(t) == [t EXCEPT !.age = 0]

\* `nowMs - then` in unsigned long, when `then` is `age` ticks old and nowMs
\* was read `lag` ticks ago: a timestamp younger than the reading makes the
\* difference wrap round to more than any limit.
Elapsed(age, lag) == IF age >= lag THEN age - lag ELSE OldAge

Older(age) == IF age = Never \/ age = OldAge THEN age ELSE age + 1

\* Not a method: one tick of millis() as the object's timestamps see it.
Aged(t) == [t EXCEPT !.age = Older(@), !.held = Older(@)]

-----------------------------------------------------------------------------
(* Reservation, on behalf of a client.                                     *)

\* Mutant of Verdict: a running session is not in the way.
VerdictIgnoresBlocked(t, p) ==
    IF t.request = (IF p = ListRequest THEN "List" ELSE "File") /\ t.proc = p
       /\ Blocked(t)
    THEN "SameRequest" ELSE "Accepted"

\* reserveList() for ListRequest, reserveFile() for a process number.
Verdict(t, p) ==
    LET same ==
          IF p = ListRequest
          THEN /\ t.request = "List"
               /\ t.status \in {"QUEUED_LIST", "WAITING_LIST"}
          ELSE /\ t.request = "File" /\ t.proc = p
               /\ t.status \in {"QUEUED_FILE", "WAITING_START",
                                "RECEIVING", "COMPLETED"}
    IN  IF same THEN "SameRequest" ELSE IF Blocked(t) THEN "Busy" ELSE "Accepted"

Reserve(t, p) ==
    IF Verdict(t, p) # "Accepted" THEN t
    ELSE [Reset(t) EXCEPT
             !.gen = t.gen + 1,
             !.request = IF p = ListRequest THEN "List" ELSE "File",
             !.status = IF p = ListRequest THEN "QUEUED_LIST" ELSE "QUEUED_FILE",
             !.proc = p,
             !.age = 0]

MarkSent(t) ==
    [t EXCEPT !.status = IF @ = "QUEUED_LIST" THEN "WAITING_LIST"
                         ELSE IF @ = "QUEUED_FILE" THEN "WAITING_START" ELSE @]

AbortReservation(t, reason) ==
    IF t.status \in QueuedStatuses \cup WaitingStatuses THEN Fail(t, reason) ELSE t

ReleaseReservation(t) == IF t.status \in QueuedStatuses THEN Reset(t) ELSE t

\* Before the request is sent (or when the result is ready) the session is
\* forgotten under a new generation; after that it drains.
Cancel(t) ==
    IF t.status \in QueuedStatuses \cup {"COMPLETED"} THEN NextGeneration(Reset(t))
    ELSE IF Blocked(t) THEN [t EXCEPT !.status = "DRAINING", !.error = ""]
    ELSE t

\* completeDrain("telemetry_resumed", false), its one call.
CompleteDrain(t) == IF t.status = "DRAINING" THEN Reset(t) ELSE t

\* releaseExpiredResult(millis(), holdMs), the time read `lag` ticks ago.
ReleaseExpired(t, lag) ==
    IF /\ t.status = "COMPLETED" /\ t.held # Never
       /\ Elapsed(t.held, lag) >= HoldTime
    THEN NextGeneration(Reset(t))
    ELSE t

\* Mutant of CheckTimeout: not while the answer is awaited.
CheckTimeoutNotWaiting(t, lag) ==
    IF /\ t.age # Never /\ Blocked(t) /\ t.status \notin WaitingStatuses
       /\ Elapsed(t.age, lag) >= TransferTimeout
    THEN Fail(t, "timeout")
    ELSE t

\* checkTimeout(millis()), the argument read `lag` ticks before the mutex.
CheckTimeout(t, lag) ==
    IF /\ t.age # Never /\ Blocked(t)
       /\ Elapsed(t.age, lag) >= TransferTimeout
    THEN Fail(t, "timeout")
    ELSE t

-----------------------------------------------------------------------------
(* consume(): a frame of the controller.  `heap` is whether the memory that *)
(* START asks for is there.                                                *)

ConsumeDraining(t, f) ==
    IF f.kind = "file" /\ t.total > 0 /\ f.n >= t.total
    THEN Fail(t, "cancelled")
    ELSE t

ConsumeList(t, f) ==
    IF t.request # "List" THEN t
    ELSE IF ~f.intact THEN Fail(t, "invalid_list")
    ELSE [t EXCEPT !.status = "LIST_RECEIVED"]

\* Mutant of ConsumeStart: a START in the middle of a transfer does not begin
\* the count again.
ConsumeStartKeepsCount(t, f, heap) ==
    LET begun == [t EXCEPT !.total = f.n, !.data = << >>]
    IN  IF t.request # "File" THEN t
        ELSE IF ~f.intact THEN Fail(t, "invalid_start")
        ELSE IF f.file # t.proc THEN Fail(t, "unexpected_file")
        ELSE IF ~heap THEN Fail(begun, "log_heap_low")
        ELSE IF f.n = 0 THEN [begun EXCEPT !.status = "COMPLETED", !.held = 0]
        ELSE [begun EXCEPT !.status = "RECEIVING", !.buffer = TRUE]

ConsumeStart(t, f, heap) ==
    LET begun == [t EXCEPT !.total = f.n, !.received = 0, !.data = << >>]
    IN  IF t.request # "File" THEN t
        ELSE IF ~f.intact THEN Fail(t, "invalid_start")
        ELSE IF f.file # t.proc THEN Fail(t, "unexpected_file")
        ELSE IF ~heap THEN Fail(begun, "log_heap_low")
        ELSE IF f.n = 0 THEN [begun EXCEPT !.status = "COMPLETED", !.held = 0]
        ELSE [begun EXCEPT !.status = "RECEIVING", !.buffer = TRUE]

\* Mutants of ConsumeChunk: the order is not checked; what remains is counted.
ConsumeChunkAnyOrder(t, f) ==
    LET grown == [t EXCEPT !.data = Append(@, <<f.file, f.n>>), !.received = f.n]
    IN  IF t.status # "RECEIVING" THEN t
        ELSE IF ~f.intact THEN Fail(t, "invalid_data")
        ELSE IF Len(t.data) + 1 > DataMax THEN Fail(t, "log_too_large")
        ELSE IF f.n = t.total
             THEN [grown EXCEPT !.status = "COMPLETED", !.held = 0]
             ELSE grown

ConsumeChunkCountsDown(t, f) ==
    IF t.status # "RECEIVING" THEN t
    ELSE [t EXCEPT !.data = Append(@, <<f.file, f.n>>), !.received = f.n - t.total]

ConsumeChunk(t, f) ==
    LET grown == [t EXCEPT !.data = Append(@, <<f.file, f.n>>), !.received = f.n]
    IN  IF t.status # "RECEIVING" THEN t
        ELSE IF f.n # t.received + 1 THEN Fail(t, "invalid_chunk")
        ELSE IF ~f.intact THEN Fail(t, "invalid_data")
        ELSE IF Len(t.data) + 1 > DataMax THEN Fail(t, "log_too_large")
        ELSE IF f.n = t.total
             THEN [grown EXCEPT !.status = "COMPLETED", !.held = 0]
             ELSE grown

\* Mutant of Consume: a draining session takes frames like any other.
ConsumeWhileDraining(t, f, heap) ==
    LET u == Touch(t)
    IN  CASE f.kind = "LIST"  -> ConsumeList(u, f)
          [] f.kind = "START" -> ConsumeStart(u, f, heap)
          [] f.kind = "ERR"   -> Fail(u, "err_")
          [] f.kind = "OK"    -> u
          [] f.kind = "file"  -> ConsumeChunk(u, f)

\* Mutant of Consume: only the answer to the request renews the deadline, the
\* chunks that follow it do not.
ConsumeChunksUnnoticed(t, f, heap) ==
    LET u == IF f.kind = "file" THEN t ELSE Touch(t)
    IN  IF u.status = "DRAINING" THEN ConsumeDraining(u, f)
        ELSE CASE f.kind = "LIST"  -> ConsumeList(u, f)
               [] f.kind = "START" -> ConsumeStart(u, f, heap)
               [] f.kind = "ERR"   -> Fail(u, "err_")
               [] f.kind = "OK"    -> u
               [] f.kind = "file"  -> ConsumeChunk(u, f)

\* Every one of these frames renews the deadline first, whatever the status.
Consume(t, f, heap) ==
    LET u == Touch(t)
    IN  IF u.status = "DRAINING" THEN ConsumeDraining(u, f)
        ELSE CASE f.kind = "LIST"  -> ConsumeList(u, f)
               [] f.kind = "START" -> ConsumeStart(u, f, heap)
               [] f.kind = "ERR"   -> Fail(u, "err_")
               [] f.kind = "OK"    -> u
               [] f.kind = "file"  -> ConsumeChunk(u, f)

-----------------------------------------------------------------------------
(* What the object promises about its own fields at every moment.          *)

\* A list request never has the statuses of a file transfer and conversely, and
\* a file transfer knows its process.
RequestMatchesStatus(t) ==
    /\ t.status = "IDLE" => t.request = "None"
    /\ t.status \in {"QUEUED_LIST", "WAITING_LIST", "LIST_RECEIVED"}
         => t.request = "List"
    /\ t.status \in {"QUEUED_FILE", "WAITING_START", "RECEIVING", "COMPLETED"}
         => t.request = "File"
    /\ t.request = "File" => t.proc \in Procs

\* The chunks stored are numbers 1, 2, 3 and so on, as many as are counted, and
\* COMPLETED means all of them.
ProgressConsistent(t) ==
    /\ \A i \in 1 .. Len(t.data) : t.data[i][2] = i
    /\ t.status = "RECEIVING" => t.received < t.total /\ Len(t.data) = t.received
    /\ t.status = "COMPLETED" =>
         /\ t.received = t.total /\ Len(t.data) = t.total
         /\ t.held # Never

\* Bytes are stored for a running, finished or draining transfer only, in memory
\* that was reserved for them, and a session that failed has no memory left.
BufferOwned(t) ==
    /\ t.data # << >> => t.status \in {"RECEIVING", "COMPLETED", "DRAINING"}
    /\ t.data # << >> \/ t.status = "RECEIVING" => t.buffer
    /\ t.status = "ERROR" => ~t.buffer

\* A session that blocks the queue has a timestamp its timeout runs from.
DeadlineArmed(t) == Blocked(t) => t.age # Never

\* All of it: what every method may rely on and has to leave behind.
Sound(t) ==
    /\ t \in Transfers
    /\ RequestMatchesStatus(t) /\ ProgressConsistent(t)
    /\ BufferOwned(t) /\ DeadlineArmed(t)

=============================================================================
