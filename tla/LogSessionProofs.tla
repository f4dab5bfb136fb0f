-------------------------- MODULE LogSessionProofs --------------------------
(***************************************************************************)
(* Proofs about LogTransfer and LogSession, for any set of journals, any   *)
(* number of clients and any number of faults on the line.  First: every   *)
(* method of the Transfer object keeps it sound, whatever state it finds   *)
(* and whatever it is called with.  What is left then is that every task   *)
(* calls the methods with what they ask for: a process number that exists, *)
(* a chunk that belongs to a journal.  On top of that: IntactInv, that     *)
(* what is received is what is sent, until a second fault; and StepDue,    *)
(* that a timeout is said in time, and ClockInv, that time is counted from *)
(* the last thing heard.                                                   *)
(***************************************************************************)
EXTENDS LogSession, TLAPS

\* What the receiver hands to consume(): chunks belong to a journal.
WellFormed(f) == f \in Frames /\ (f.kind = "file" => f.file \in Procs)

-----------------------------------------------------------------------------

\* The ages a timestamp can show include "not tracked" and "just now".
LEMMA AgesHold == /\ Never \in Ages /\ 0 \in Ages
                  /\ \A a \in Ages : Older(a) \in Ages /\ (a # Never => Older(a) # Never)
  BY TimeAssumption DEF Ages, Never, OldAge, Older

\* The object as constructed is sound.
LEMMA NewTransferSound == Sound(NewTransfer)
  BY AgesHold DEF Sound, NewTransfer, Transfers, Statuses, BlockedStatuses,
     QueuedStatuses, WaitingStatuses, Reasons, ListRequest, RequestMatchesStatus,
     ProgressConsistent, BufferOwned, DeadlineArmed, Blocked

\* resetLocked() leaves a sound object of the same generation.
LEMMA ResetSound ==
  ASSUME NEW t, Sound(t)
  PROVE  Sound(Reset(t)) /\ Reset(t).gen = t.gen /\ Reset(t).status = "IDLE"
  BY NewTransferSound DEF Reset, NewTransfer, Sound, Transfers, RequestMatchesStatus,
     ProgressConsistent, BufferOwned, DeadlineArmed, Blocked

\* failLocked() gives the buffer back and makes the object sound whatever its
\* counters were.
LEMMA FailMends ==
  ASSUME NEW t, t \in Transfers, t.request = "File" => t.proc \in Procs,
         NEW reason \in Reasons
  PROVE  Sound(Fail(t, reason))
<1> DEFINE u == Fail(t, reason)
<1>1. u \in Transfers
  <2>1. "ERROR" \in Statuses /\ << >> \in Seq(Chunks) /\ FALSE \in BOOLEAN
    BY DEF Statuses
  <2> QED
    BY <2>1 DEF Fail, Transfers
<1>2. RequestMatchesStatus(u)
  BY DEF Transfers, Fail, RequestMatchesStatus
<1>3. ProgressConsistent(u)
  BY DEF Transfers, Fail, ProgressConsistent
<1>4. BufferOwned(u) /\ DeadlineArmed(u)
  BY DEF Transfers, Fail, BufferOwned, DeadlineArmed, Blocked, BlockedStatuses,
     QueuedStatuses, WaitingStatuses
<1> QED
  BY <1>1, <1>2, <1>3, <1>4 DEF Sound

LEMMA FailSound ==
  ASSUME NEW t, Sound(t), NEW reason \in Reasons
  PROVE  Sound(Fail(t, reason))
  BY FailMends DEF Sound, RequestMatchesStatus

-----------------------------------------------------------------------------
(* Reservation.                                                            *)

LEMMA ReserveSound ==
  ASSUME NEW t, Sound(t), NEW p \in Procs \cup {ListRequest}
  PROVE  Sound(Reserve(t, p))
<1> DEFINE u == Reserve(t, p)
<1>1. CASE Verdict(t, p) # "Accepted"
  BY <1>1 DEF Reserve
<1>2. CASE Verdict(t, p) = "Accepted"
  <2>1. /\ Sound(Reset(t)) /\ Reset(t) \in Transfers
        /\ Reset(t).data = << >> /\ t.gen \in Nat
    BY ResetSound DEF Sound, Transfers, Reset, NewTransfer
  <2>2. {"QUEUED_LIST", "QUEUED_FILE"} \subseteq Statuses
    BY DEF Statuses, BlockedStatuses, QueuedStatuses
  <2>3. u = [Reset(t) EXCEPT
                !.gen = t.gen + 1,
                !.request = IF p = ListRequest THEN "List" ELSE "File",
                !.status = IF p = ListRequest THEN "QUEUED_LIST" ELSE "QUEUED_FILE",
                !.proc = p,
                !.age = 0]
    BY <1>2 DEF Reserve
  <2>4. u \in Transfers
    <3>1. /\ t.gen + 1 \in Nat /\ 0 \in Ages
          /\ (IF p = ListRequest THEN "List" ELSE "File") \in {"None", "List", "File"}
          /\ (IF p = ListRequest THEN "QUEUED_LIST" ELSE "QUEUED_FILE") \in Statuses
      BY <2>1, <2>2, AgesHold
    <3> QED
      BY <2>1, <2>3, <3>1 DEF Transfers
  <2>5. /\ u.status = IF p = ListRequest THEN "QUEUED_LIST" ELSE "QUEUED_FILE"
        /\ u.request = IF p = ListRequest THEN "List" ELSE "File"
        /\ u.proc = p /\ u.age = 0 /\ u.data = << >>
    BY <2>1, <2>3 DEF Transfers
  <2>6. RequestMatchesStatus(u)
    BY <2>5 DEF RequestMatchesStatus
  <2>7. ProgressConsistent(u) /\ BufferOwned(u) /\ DeadlineArmed(u)
    BY <2>5 DEF ProgressConsistent, BufferOwned, DeadlineArmed, Never
  <2> QED
    BY <2>4, <2>6, <2>7 DEF Sound
<1> QED
  BY <1>1, <1>2

LEMMA MarkSentSound ==
  ASSUME NEW t, Sound(t)
  PROVE  Sound(MarkSent(t))
<1> DEFINE u == MarkSent(t)
<1>1. u \in Transfers
  BY DEF MarkSent, Sound, Transfers, Statuses, BlockedStatuses, WaitingStatuses
<1>2. RequestMatchesStatus(u) /\ ProgressConsistent(u)
  BY DEF MarkSent, Sound, Transfers, RequestMatchesStatus, ProgressConsistent
<1>3. BufferOwned(u) /\ DeadlineArmed(u)
  BY DEF MarkSent, Sound, Transfers, BufferOwned, DeadlineArmed, Blocked,
     BlockedStatuses, QueuedStatuses, WaitingStatuses
<1> QED
  BY <1>1, <1>2, <1>3 DEF Sound

LEMMA NextGenerationSound ==
  ASSUME NEW t, Sound(t)
  PROVE  Sound(NextGeneration(t))
  BY DEF NextGeneration, Sound, Transfers, RequestMatchesStatus, ProgressConsistent,
     BufferOwned, DeadlineArmed, Blocked

LEMMA AbortReservationSound ==
  ASSUME NEW t, Sound(t), NEW reason \in Reasons
  PROVE  Sound(AbortReservation(t, reason))
  BY FailSound DEF AbortReservation

LEMMA ReleaseReservationSound ==
  ASSUME NEW t, Sound(t)
  PROVE  Sound(ReleaseReservation(t))
  BY ResetSound DEF ReleaseReservation

LEMMA CancelSound ==
  ASSUME NEW t, Sound(t)
  PROVE  Sound(Cancel(t))
<1>1. CASE t.status \in QueuedStatuses \cup {"COMPLETED"}
  BY <1>1, ResetSound, NextGenerationSound DEF Cancel
<1>2. CASE t.status \notin QueuedStatuses \cup {"COMPLETED"} /\ Blocked(t)
  <2> DEFINE u == [t EXCEPT !.status = "DRAINING", !.error = ""]
  <2>1. "DRAINING" \in Statuses /\ "" \in Reasons
    BY DEF Statuses, BlockedStatuses, Reasons
  <2>2. u \in Transfers
    BY <2>1 DEF Sound, Transfers
  <2>3. RequestMatchesStatus(u) /\ ProgressConsistent(u)
    BY DEF Sound, Transfers, RequestMatchesStatus, ProgressConsistent
  <2>4. BufferOwned(u) /\ DeadlineArmed(u)
    BY <1>2 DEF Sound, Transfers, BufferOwned, DeadlineArmed
  <2> QED
    BY <1>2, <2>2, <2>3, <2>4 DEF Cancel, Sound
<1>3. CASE t.status \notin QueuedStatuses \cup {"COMPLETED"} /\ ~Blocked(t)
  BY <1>3 DEF Cancel
<1> QED
  BY <1>1, <1>2, <1>3

LEMMA CompleteDrainSound ==
  ASSUME NEW t, Sound(t)
  PROVE  Sound(CompleteDrain(t))
  BY ResetSound DEF CompleteDrain

LEMMA ReleaseExpiredSound ==
  ASSUME NEW t, Sound(t), NEW lag
  PROVE  Sound(ReleaseExpired(t, lag))
  BY ResetSound, NextGenerationSound DEF ReleaseExpired

LEMMA CheckTimeoutSound ==
  ASSUME NEW t, Sound(t), NEW lag \in Nat
  PROVE  Sound(CheckTimeout(t, lag))
  BY FailSound DEF CheckTimeout, Reasons

LEMMA AgedSound ==
  ASSUME NEW t, Sound(t)
  PROVE  Sound(Aged(t))
<1> DEFINE u == Aged(t)
<1>1. u \in Transfers /\ (t.age # Never => u.age # Never) /\ (t.held # Never => u.held # Never)
  BY AgesHold DEF Aged, Sound, Transfers
<1>2. /\ u.status = t.status /\ u.request = t.request /\ u.proc = t.proc
      /\ u.data = t.data /\ u.total = t.total /\ u.received = t.received
      /\ u.buffer = t.buffer
  BY DEF Aged, Sound, Transfers
<1> QED
  BY <1>1, <1>2 DEF Sound, RequestMatchesStatus, ProgressConsistent, BufferOwned,
     DeadlineArmed, Blocked

-----------------------------------------------------------------------------
(* consume()                                                               *)

LEMMA TouchSound ==
  ASSUME NEW t, Sound(t)
  PROVE  Sound(Touch(t)) /\ Touch(t).status = t.status /\ Touch(t).age # Never
  BY AgesHold DEF Touch, Sound, Transfers, RequestMatchesStatus, ProgressConsistent,
     BufferOwned, DeadlineArmed, Blocked, Never

LEMMA ConsumeDrainingSound ==
  ASSUME NEW t, Sound(t), NEW f
  PROVE  Sound(ConsumeDraining(t, f))
  BY FailSound DEF ConsumeDraining, Reasons

\* A list answer finds no buffer: only a file transfer has one.
LEMMA ConsumeListSound ==
  ASSUME NEW t, Sound(t), t.status # "DRAINING", NEW f
  PROVE  Sound(ConsumeList(t, f))
<1>1. CASE t.request # "List"
  BY <1>1 DEF ConsumeList
<1>2. CASE t.request = "List" /\ ~f.intact
  BY <1>2, FailSound DEF ConsumeList, Reasons
<1>3. CASE t.request = "List" /\ f.intact
  <2> DEFINE u == [t EXCEPT !.status = "LIST_RECEIVED"]
  <2>1. u \in Transfers
    BY DEF Sound, Transfers, Statuses
  <2>2. t.data = << >>
    BY <1>3 DEF Sound, BufferOwned, RequestMatchesStatus
  <2>3. RequestMatchesStatus(u) /\ ProgressConsistent(u)
    BY <1>3, <2>2 DEF Sound, Transfers, RequestMatchesStatus, ProgressConsistent
  <2>4. BufferOwned(u) /\ DeadlineArmed(u)
    BY <2>2 DEF Sound, Transfers, BufferOwned, DeadlineArmed, Blocked, BlockedStatuses,
       QueuedStatuses, WaitingStatuses
  <2> QED
    BY <1>3, <2>1, <2>3, <2>4 DEF ConsumeList, Sound
<1> QED
  BY <1>1, <1>2, <1>3

LEMMA ConsumeStartSound ==
  ASSUME NEW t, Sound(t), t.age # Never, NEW f \in Frames, NEW heap \in BOOLEAN
  PROVE  Sound(ConsumeStart(t, f, heap))
<1> DEFINE begun == [t EXCEPT !.total = f.n, !.received = 0, !.data = << >>]
<1>1. begun \in Transfers /\ f.n \in Nat
  <2>1. t \in Transfers /\ f.n \in Nat /\ << >> \in Seq(Chunks)
    BY DEF Sound, Frames
  <2> QED
    BY <2>1 DEF Transfers
<1>2. /\ begun.request = t.request /\ begun.proc = t.proc /\ begun.data = << >>
      /\ begun.total = f.n /\ begun.received = 0
  BY DEF Sound, Transfers
<1>3. CASE t.request # "File"
  BY <1>3 DEF ConsumeStart
<1>4. CASE t.request = "File" /\ (~f.intact \/ f.file # t.proc)
  BY <1>4, FailSound DEF ConsumeStart, Reasons
<1>5. CASE t.request = "File" /\ f.intact /\ f.file = t.proc
  <2>1. t.proc \in Procs
    BY <1>5 DEF Sound, RequestMatchesStatus
  <2>2. Sound(Fail(begun, "log_heap_low"))
    BY <1>1, <1>2, <2>1, FailMends DEF Reasons
  <2> DEFINE empty   == [begun EXCEPT !.status = "COMPLETED", !.held = 0]
             running == [begun EXCEPT !.status = "RECEIVING", !.buffer = TRUE]
  <2>3. ASSUME f.n = 0 PROVE Sound(empty)
    <3>1. empty \in Transfers
      BY <1>1, AgesHold DEF Transfers, Statuses
    <3>2. RequestMatchesStatus(empty) /\ ProgressConsistent(empty)
      BY <1>1, <1>2, <1>5, <2>1, <2>3
         DEF Transfers, RequestMatchesStatus, ProgressConsistent, Never
    <3>3. BufferOwned(empty) /\ DeadlineArmed(empty)
      BY <1>1, <1>2 DEF Transfers, BufferOwned, DeadlineArmed, Blocked,
         BlockedStatuses, QueuedStatuses, WaitingStatuses
    <3> QED
      BY <3>1, <3>2, <3>3 DEF Sound
  <2>4. ASSUME f.n # 0 PROVE Sound(running)
    <3>1. running \in Transfers
      BY <1>1 DEF Transfers, Statuses, BlockedStatuses
    <3>2. RequestMatchesStatus(running) /\ ProgressConsistent(running)
      BY <1>1, <1>2, <1>5, <2>1, <2>4
         DEF Transfers, RequestMatchesStatus, ProgressConsistent
    <3>3. BufferOwned(running) /\ DeadlineArmed(running)
      BY <1>1, <1>2, <2>4 DEF Sound, Transfers, BufferOwned, DeadlineArmed
    <3> QED
      BY <3>1, <3>2, <3>3 DEF Sound
  <2> QED
    BY <1>5, <2>2, <2>3, <2>4 DEF ConsumeStart
<1> QED
  BY <1>3, <1>4, <1>5

\* A chunk is stored when it is the next one; the one that makes the journal
\* complete is the one that makes its buffer complete.
LEMMA ConsumeChunkSound ==
  ASSUME NEW t, Sound(t), NEW f, WellFormed(f), f.kind = "file"
  PROVE  Sound(ConsumeChunk(t, f))
<1> DEFINE grown == [t EXCEPT !.data = Append(@, <<f.file, f.n>>), !.received = f.n]
           full  == [grown EXCEPT !.status = "COMPLETED", !.held = 0]
<1>1. CASE t.status # "RECEIVING"
  BY <1>1 DEF ConsumeChunk
<1>2. CASE /\ t.status = "RECEIVING"
           /\ \/ f.n # t.received + 1 \/ ~f.intact
              \/ Len(t.data) + 1 > DataMax
  BY <1>2, FailSound DEF ConsumeChunk, Reasons
<1>3. CASE t.status = "RECEIVING" /\ f.n = t.received + 1
  <2>1. /\ t \in Transfers /\ t.received \in Nat /\ t.total \in Nat
        /\ t.data \in Seq(Chunks) /\ t.received < t.total
        /\ Len(t.data) = t.received
        /\ \A i \in 1 .. Len(t.data) : t.data[i][2] = i
        /\ t.request = "File" /\ t.proc \in Procs /\ t.age # Never /\ t.buffer
    BY <1>3 DEF Sound, Transfers, ProgressConsistent, RequestMatchesStatus,
       BufferOwned, DeadlineArmed, Blocked, BlockedStatuses
  <2>2. <<f.file, f.n>> \in Chunks /\ f.n \in Nat
    BY <1>3, <2>1 DEF WellFormed, Frames, Chunks
  <2> DEFINE data == Append(t.data, <<f.file, f.n>>)
  <2>3. /\ data \in Seq(Chunks) /\ Len(data) = f.n /\ data # << >>
        /\ \A i \in 1 .. Len(data) : data[i][2] = i
    BY <1>3, <2>1, <2>2
  <2>4. /\ grown \in Transfers /\ full \in Transfers
    BY <2>1, <2>2, <2>3, AgesHold DEF Transfers, Statuses
  <2>5. /\ grown.data = data /\ grown.received = f.n /\ grown.total = t.total
        /\ grown.status = t.status /\ grown.request = t.request
        /\ grown.proc = t.proc /\ grown.age = t.age /\ grown.buffer = t.buffer
    BY <2>1 DEF Transfers
  <2>6. /\ full.data = data /\ full.received = f.n /\ full.total = t.total
        /\ full.status = "COMPLETED" /\ full.request = t.request
        /\ full.proc = t.proc /\ full.held = 0 /\ full.buffer = t.buffer
    BY <2>1 DEF Transfers
  <2>7. ASSUME f.n = t.total PROVE Sound(full)
    BY <2>1, <2>3, <2>4, <2>6, <2>7 DEF Sound, RequestMatchesStatus,
       ProgressConsistent, BufferOwned, DeadlineArmed, Blocked, BlockedStatuses,
       QueuedStatuses, WaitingStatuses, Never
  <2>8. ASSUME f.n # t.total PROVE Sound(grown)
    BY <1>3, <2>1, <2>2, <2>3, <2>4, <2>5, <2>8 DEF Sound, RequestMatchesStatus,
       ProgressConsistent, BufferOwned, DeadlineArmed
  <2> QED
    BY <1>2, <1>3, <2>7, <2>8, FailSound DEF ConsumeChunk, Reasons
<1> QED
  BY <1>1, <1>2, <1>3

\* consume() keeps the object sound, whatever frame arrives in whatever state.
THEOREM ConsumeSound ==
  ASSUME NEW t, Sound(t), NEW f, WellFormed(f), NEW heap \in BOOLEAN
  PROVE  Sound(Consume(t, f, heap))
<1> DEFINE u == Touch(t)
<1>1. Sound(u) /\ u.age # Never
  BY TouchSound
<1>2. CASE u.status = "DRAINING"
  BY <1>1, <1>2, ConsumeDrainingSound DEF Consume
<1>3. CASE u.status # "DRAINING"
  <2>1. f.kind \in {"LIST", "START", "ERR", "OK", "file"} /\ f \in Frames
    BY DEF WellFormed, Frames
  <2>2. Sound(ConsumeList(u, f)) /\ Sound(ConsumeStart(u, f, heap))
    BY <1>1, <1>3, <2>1, ConsumeListSound, ConsumeStartSound
  <2>3. Sound(Fail(u, "err_"))
    BY <1>1, FailSound DEF Reasons
  <2>4. f.kind = "file" => Sound(ConsumeChunk(u, f))
    BY <1>1, ConsumeChunkSound
  <2> QED
    BY <1>1, <1>3, <2>1, <2>2, <2>3, <2>4 DEF Consume
<1> QED
  BY <1>2, <1>3

-----------------------------------------------------------------------------
(* The generation: which calls may change it.                              *)

\* Only a reservation that was accepted makes a new generation out of nothing.
LEMMA ConsumeKeepsGeneration ==
  ASSUME NEW t, Sound(t), NEW f, WellFormed(f), NEW heap \in BOOLEAN
  PROVE  /\ Consume(t, f, heap).gen = t.gen
         /\ t.status = "DRAINING" => Consume(t, f, heap).status \in {"DRAINING", "ERROR"}
<1> DEFINE u == Touch(t)
<1>1. Sound(u) /\ u \in Transfers /\ u.gen = t.gen /\ u.status = t.status
  BY TouchSound DEF Touch, Sound, Transfers
<1>2. \A reason \in Reasons : Fail(u, reason).gen = t.gen /\ Fail(u, reason).status = "ERROR"
  BY <1>1 DEF Fail, Transfers
<1>3. CASE u.status = "DRAINING"
  BY <1>1, <1>2, <1>3 DEF Consume, ConsumeDraining, Reasons
<1>4. CASE u.status # "DRAINING"
  <2>1. ConsumeList(u, f).gen = t.gen
    BY <1>1, <1>2 DEF ConsumeList, Transfers, Reasons
  <2>2. ConsumeStart(u, f, heap).gen = t.gen
    BY <1>1, <1>2 DEF ConsumeStart, Fail, Transfers, Reasons
  <2>3. ConsumeChunk(u, f).gen = t.gen
    BY <1>1, <1>2 DEF ConsumeChunk, Transfers, Reasons
  <2>4. f.kind \in {"LIST", "START", "ERR", "OK", "file"} /\ "err_" \in Reasons
    BY DEF WellFormed, Frames, Reasons
  <2> QED
    BY <1>1, <1>2, <1>4, <2>1, <2>2, <2>3, <2>4 DEF Consume
<1> QED
  BY <1>3, <1>4

-----------------------------------------------------------------------------
(* The session around the object.                                          *)

\* What the controller sends is a journal it has.
StreamOfJournal == Sending => ctl.stream.file \in Procs

\* The inductive invariant.
SessionInv == TypeOK /\ Sound(tr) /\ StreamOfJournal

-----------------------------------------------------------------------------
(* One step of the object by one call, as seen from outside.               *)

Lawful(t, u) ==
    /\ u.gen # t.gen => \/ ~Blocked(t)
                        \/ t.status \in QueuedStatuses /\ u.status = "IDLE"
    /\ t.status = "DRAINING" =>
         u.status \in {"DRAINING", "IDLE", "ERROR"} /\ u.gen = t.gen

LEMMA LawfulIfSame ==
  ASSUME NEW t, NEW u, u.gen = t.gen, t.status = "DRAINING" => u.status \in {"DRAINING", "IDLE", "ERROR"}
  PROVE  Lawful(t, u)
  BY DEF Lawful

LEMMA RefreshedLawful ==
  ASSUME NEW t, Sound(t), NEW lag \in Nat
  PROVE  Sound(Refreshed(t, lag)) /\ Lawful(t, Refreshed(t, lag))
<1> DEFINE u == CheckTimeout(t, lag)
<1>1. Sound(u) /\ t \in Transfers
  BY CheckTimeoutSound DEF Sound
<1>2. u = t \/ (u.status = "ERROR" /\ u.gen = t.gen)
  BY <1>1 DEF CheckTimeout, Fail, Transfers
<1>3. CASE ReleaseExpired(u, lag) = u
  BY <1>1, <1>2, <1>3 DEF Refreshed, Lawful
<1>4. CASE ReleaseExpired(u, lag) # u
  <2>1. u = t /\ t.status = "COMPLETED"
    BY <1>2, <1>4 DEF ReleaseExpired
  <2> QED
    BY <1>1, <2>1, ReleaseExpiredSound DEF Refreshed, Lawful, Blocked, BlockedStatuses,
       QueuedStatuses, WaitingStatuses
<1> QED
  BY <1>3, <1>4

LEMMA ReserveLawful ==
  ASSUME NEW t, Sound(t), NEW p \in Requests
  PROVE  Sound(Reserve(t, p)) /\ Lawful(t, Reserve(t, p))
<1>1. Sound(Reserve(t, p))
  BY ReserveSound DEF Requests
<1>2. Verdict(t, p) = "Accepted" => ~Blocked(t)
  BY DEF Verdict
<1>3. Verdict(t, p) # "Accepted" => Reserve(t, p) = t
  BY DEF Reserve
<1> QED
  BY <1>1, <1>2, <1>3 DEF Lawful, Blocked, BlockedStatuses

LEMMA FailLawful ==
  ASSUME NEW t, Sound(t), NEW reason \in Reasons
  PROVE  Lawful(t, Fail(t, reason))
  BY DEF Fail, Sound, Transfers, Lawful

LEMMA ResetLawful ==
  ASSUME NEW t, Sound(t)
  PROVE  Lawful(t, Reset(t))
  BY ResetSound DEF Lawful

LEMMA CancelLawful ==
  ASSUME NEW t, Sound(t)
  PROVE  Sound(Cancel(t)) /\ Lawful(t, Cancel(t))
<1>1. Sound(Cancel(t)) /\ t \in Transfers
  BY CancelSound DEF Sound
<1>2. CASE t.status \in QueuedStatuses \cup {"COMPLETED"}
  <2>1. Cancel(t).status = "IDLE"
    BY <1>2, ResetSound DEF Cancel, NextGeneration, Reset, NewTransfer
  <2> QED
    BY <1>1, <1>2, <2>1 DEF Lawful, Blocked, BlockedStatuses, QueuedStatuses, WaitingStatuses
<1>3. CASE t.status \notin QueuedStatuses \cup {"COMPLETED"}
  <2>1. Cancel(t).gen = t.gen /\ Cancel(t).status \in {t.status, "DRAINING"}
    BY <1>1, <1>3 DEF Cancel, Transfers
  <2> QED
    BY <1>1, <2>1 DEF Lawful
<1> QED
  BY <1>2, <1>3

LEMMA AgedLawful ==
  ASSUME NEW t, Sound(t)
  PROVE  Sound(Aged(t)) /\ Lawful(t, Aged(t))
  BY AgedSound DEF Aged, Sound, Transfers, Lawful

LEMMA MarkSentLawful ==
  ASSUME NEW t, Sound(t)
  PROVE  Sound(MarkSent(t)) /\ Lawful(t, MarkSent(t))
  BY MarkSentSound DEF MarkSent, Sound, Transfers, Lawful

LEMMA ConsumeLawful ==
  ASSUME NEW t, Sound(t), NEW f, WellFormed(f), NEW heap \in BOOLEAN
  PROVE  Sound(Consume(t, f, heap)) /\ Lawful(t, Consume(t, f, heap))
  BY ConsumeSound, ConsumeKeepsGeneration DEF Lawful

\* A frame is delivered, lost or damaged: for the object all three are lawful.
LEMMA DeliverLawful ==
  ASSUME SessionInv, NEW kind \in {"LIST", "START", "ERR", "OK", "file"},
         NEW p \in Requests, NEW n \in Nat, kind = "file" => p \in Procs,
         Deliver(kind, p, n)
  PROVE  Sound(tr') /\ Lawful(tr, tr') /\ noise' \in Nat
<1>1. \A intact \in BOOLEAN : WellFormed(Frame(kind, p, n, intact))
  <2> SUFFICES ASSUME NEW intact \in BOOLEAN
               PROVE  WellFormed(Frame(kind, p, n, intact))
    OBVIOUS
  <2>1. Frame(kind, p, n, intact) \in Frames
    BY DEF Frame, Frames, Requests
  <2> QED
    BY <2>1 DEF WellFormed, Frame
<1>2. Sound(tr) /\ noise \in Nat /\ Lawful(tr, tr)
  BY DEF SessionInv, TypeOK, Lawful
<1>3. \A intact \in BOOLEAN, heap \in BOOLEAN :
        LET u == Consume(tr, Frame(kind, p, n, intact), heap)
        IN  Sound(u) /\ Lawful(tr, u)
  BY <1>1, <1>2, ConsumeLawful
<1>4. \/ tr' = tr
      \/ \E intact \in BOOLEAN, heap \in BOOLEAN :
           tr' = Consume(tr, Frame(kind, p, n, intact), heap)
  BY DEF Deliver
<1>5. noise' = noise \/ noise' = noise + 1
  BY DEF Deliver
<1> QED
  BY <1>2, <1>3, <1>4, <1>5

-----------------------------------------------------------------------------
(* Client steps.                                                           *)

LEMMA ClientStatesHold ==
  /\ IdleClient \in ClientStates
  /\ \A s \in ClientStates, pc \in {"idle", "decide", "reserve", "generation", "send",
                                    "snapshot", "copy"}, g \in Nat :
       /\ [s EXCEPT !.pc = pc] \in ClientStates
       /\ [s EXCEPT !.pc = pc, !.gen = g] \in ClientStates
       /\ [s EXCEPT !.via = "rest", !.pc = pc] \in ClientStates
  /\ \A p \in Requests, via \in {"rest", "plain", "refresh", "statusOnly", "map"},
       pc \in {"decide", "reserve"} :
       /\ [IdleClient EXCEPT !.pc = pc, !.want = p] \in ClientStates
       /\ [IdleClient EXCEPT !.pc = pc, !.via = via] \in ClientStates
       /\ [IdleClient EXCEPT !.pc = pc, !.want = p, !.via = via] \in ClientStates
  BY DEF ClientStates, IdleClient, Requests

FrameKinds == {"LIST", "START", "ERR", "OK", "file"}

\* Whatever a task does to the object, it is one call of a method, and the clock of
\* the silence starts again with a request that is accepted and with a frame.
LEMMA StepCalls ==
  ASSUME SessionInv, [Next]_vars
  PROVE  \/ /\ tr' \in {tr, MarkSent(tr), Cancel(tr), ReleaseReservation(tr),
                        CompleteDrain(tr), AbortReservation(tr, "uart_write_failed")}
            /\ quiet' = quiet
         \/ \E lag \in 0 .. MaxLag :
               tr' \in {Refreshed(tr, lag), CheckTimeout(tr, lag)} /\ quiet' = quiet
         \/ tr' = Aged(tr) /\ quiet' = Older(quiet)
         \/ \E p \in Requests :
               tr' = Reserve(tr, p) /\ quiet' = IF Verdict(tr, p) = "Accepted" THEN 0 ELSE quiet
         \/ \E f, heap : f.kind \in FrameKinds /\ tr' = Consume(tr, f, heap) /\ quiet' = 0
<1>1. CASE \E c \in RestClients : RestRequest(c)
  BY <1>1 DEF RestRequest, GetFile, GetList, Delete
<1>2. CASE \E c \in CommandClients : \E p \in Requests : CommandGetLog(c, p)
  BY <1>2 DEF CommandGetLog
<1>3. CASE \E c \in Clients : ClientStep(c)
  <2>1. PICK c \in Clients : ClientStep(c)
    BY <1>3
  <2>2. client[c].want \in Requests
    BY DEF SessionInv, TypeOK, ClientStates
  <2>3. CASE ReserveSession(c)
    BY <2>2, <2>3 DEF ReserveSession
  <2>4. CASE ~ReserveSession(c)
    BY <2>1, <2>4 DEF ClientStep, Decide, ReadGeneration, Send, SendRefused, Snapshot, CopyData
  <2> QED
    BY <2>3, <2>4
<1>4. CASE WorkerStep
  BY <1>4 DEF WorkerStep, WorkerTake, WorkerCheck, WorkerMark, WorkerWrite, WorkerStop, WorkerStopCancel
<1>5. CASE ControllerAnswer \/ ControllerChunk
  <2>1. \E kind \in FrameKinds : \E p, n : Deliver(kind, p, n) \/ UNCHANGED <<tr, quiet>>
    BY <1>5 DEF ControllerAnswer, ControllerChunk, FrameKinds
  <2>2. \A kind, p, n, intact : Frame(kind, p, n, intact).kind = kind
    BY DEF Frame
  <2>3. ASSUME NEW kind \in FrameKinds, NEW p, NEW n, Deliver(kind, p, n)
        PROVE  \/ UNCHANGED <<tr, quiet>>
               \/ \E intact, heap : tr' = Consume(tr, Frame(kind, p, n, intact), heap) /\ quiet' = 0
    BY <2>3 DEF Deliver
  <2> QED
    BY <2>1, <2>2, <2>3
<1>6. CASE Telemetry \/ Tick \/ TimeoutCheck
  BY <1>6 DEF Telemetry, Tick, TimeoutCheck
<1>7. CASE UNCHANGED vars
  BY <1>7 DEF vars
<1> QED
  BY <1>1, <1>2, <1>3, <1>4, <1>5, <1>6, <1>7 DEF Next

\* The clock of the silence stays in its range.
LEMMA QuietTyped == ASSUME SessionInv, [Next]_vars PROVE quiet' \in 0 .. OldAge
<1>1. quiet \in 0 .. OldAge /\ OldAge \in Nat /\ 0 \in 0 .. OldAge
  BY TimeAssumption DEF SessionInv, TypeOK, OldAge
<1>2. Older(quiet) \in 0 .. OldAge
  BY <1>1 DEF Older, Never
<1>3. quiet' \in {quiet, Older(quiet), 0}
  BY StepCalls
<1> QED
  BY <1>1, <1>2, <1>3

\* What a step of the session does to the object and to the rest of TypeOK.
Kept == SessionInv' /\ Lawful(tr, tr')

LEMMA SameObjectLawful == ASSUME SessionInv, UNCHANGED tr PROVE Sound(tr') /\ Lawful(tr, tr')
  BY DEF SessionInv, Lawful

\* A step that leaves worker, queue and controller alone is judged by what it
\* does to the object and to the clients.
LEMMA OnlyClientAndObject ==
  ASSUME SessionInv, Sound(tr'), Lawful(tr, tr'), client' \in [Clients -> ClientStates],
         queue' \in Seq(Commands), noise' \in Nat, quiet' \in 0 .. OldAge, UNCHANGED <<worker, ctl>>
  PROVE  Kept
  BY DEF Kept, SessionInv, TypeOK, Sound, StreamOfJournal, Sending, NotSending

LEMMA RestRequestKept ==
  ASSUME SessionInv, quiet' \in 0 .. OldAge, NEW c \in Clients, RestRequest(c)
  PROVE  Kept
<1>1. Sound(tr) /\ client \in [Clients -> ClientStates] /\ queue \in Seq(Commands) /\ noise \in Nat
  BY DEF SessionInv, TypeOK
<1>2. ASSUME NEW p \in Procs, GetFile(c, p) PROVE Kept
  <2>1. client' \in [Clients -> ClientStates]
    BY <1>1, <1>2, ClientStatesHold DEF GetFile, Requests
  <2>2. Sound(tr') /\ Lawful(tr, tr')
    BY <1>1, <1>2, RefreshedLawful, TimeAssumption DEF GetFile
  <2> QED
    BY <1>1, <1>2, <2>1, <2>2, OnlyClientAndObject DEF GetFile
<1>3. ASSUME NEW via \in {"plain", "refresh", "statusOnly"}, GetList(c, via) PROVE Kept
  <2>1. client' \in [Clients -> ClientStates]
    BY <1>1, <1>3, ClientStatesHold DEF GetList, Requests
  <2>2. Sound(tr') /\ Lawful(tr, tr')
    BY <1>1, <1>3, RefreshedLawful, TimeAssumption DEF GetList
  <2> QED
    BY <1>1, <1>3, <2>1, <2>2, OnlyClientAndObject DEF GetList
<1>4. CASE Delete(c)
  BY <1>1, <1>4, CancelLawful, OnlyClientAndObject DEF Delete
<1> QED
  BY <1>2, <1>3, <1>4 DEF RestRequest

LEMMA CommandGetLogKept ==
  ASSUME SessionInv, quiet' \in 0 .. OldAge, NEW c \in Clients, NEW p \in Requests, CommandGetLog(c, p)
  PROVE  Kept
<1>1. client' \in [Clients -> ClientStates] /\ queue \in Seq(Commands) /\ noise \in Nat
  BY ClientStatesHold DEF SessionInv, TypeOK, CommandGetLog
<1> QED
  BY <1>1, SameObjectLawful, OnlyClientAndObject DEF CommandGetLog

LEMMA ClientStepKept ==
  ASSUME SessionInv, quiet' \in 0 .. OldAge, NEW c \in Clients, ClientStep(c)
  PROVE  Kept
<1>1. /\ Sound(tr) /\ tr.gen \in Nat /\ client \in [Clients -> ClientStates]
      /\ queue \in Seq(Commands) /\ noise \in Nat
      /\ client[c] \in ClientStates /\ client[c].want \in Requests
      /\ client[c].gen \in Nat
  BY DEF SessionInv, TypeOK, ClientStates, Sound, Transfers
<1>2. ASSUME NEW pc \in {"copy", "generation"}, Goto(c, pc)
      PROVE  client' \in [Clients -> ClientStates]
  <2>1. [client[c] EXCEPT !.pc = pc] \in ClientStates
    BY <1>1, <1>2, ClientStatesHold
  <2>2. client' = [client EXCEPT ![c] = [client[c] EXCEPT !.pc = pc]]
    BY <1>2 DEF Goto
  <2> QED
    BY <1>1, <2>1, <2>2
<1>3. ASSUME Reply(c) PROVE client' \in [Clients -> ClientStates]
  <2>1. client' = [client EXCEPT ![c] = IdleClient]
    BY <1>3 DEF Reply
  <2> QED
    BY <1>1, <2>1, ClientStatesHold
<1>4. ASSUME Finish(c) PROVE client' \in [Clients -> ClientStates]
  <2>1. [client[c] EXCEPT !.pc = "snapshot", !.gen = 0] \in ClientStates
    BY <1>1, ClientStatesHold
  <2>2. \E s \in {IdleClient, [client[c] EXCEPT !.pc = "snapshot", !.gen = 0]} :
           client' = [client EXCEPT ![c] = s]
    BY <1>4 DEF Finish
  <2> QED
    BY <1>1, <2>1, <2>2, ClientStatesHold
<1>5. CASE Decide(c)
  <2>1. \A pc \in {"reserve", "snapshot"} :
           [client[c] EXCEPT !.via = "rest", !.pc = pc] \in ClientStates
    BY <1>1, ClientStatesHold
  <2>2. \/ Reply(c)
        \/ \E pc \in {"reserve", "snapshot"} :
             client' = [client EXCEPT ![c] = [client[c] EXCEPT !.via = "rest", !.pc = pc]]
    BY <1>5 DEF Decide
  <2>3. client' \in [Clients -> ClientStates]
    BY <1>1, <1>3, <2>1, <2>2
  <2> QED
    BY <1>1, <1>5, <2>3, SameObjectLawful, OnlyClientAndObject DEF Decide
<1>6. CASE ReserveSession(c)
  <2>1. client' \in [Clients -> ClientStates]
    BY <1>2, <1>3, <1>4, <1>6 DEF ReserveSession
  <2> QED
    BY <1>1, <1>6, <2>1, ReserveLawful, OnlyClientAndObject DEF ReserveSession
<1>7. CASE ReadGeneration(c)
  <2>1. client' \in [Clients -> ClientStates]
    BY <1>1, <1>7, ClientStatesHold DEF ReadGeneration
  <2> QED
    BY <1>1, <1>7, <2>1, SameObjectLawful, OnlyClientAndObject DEF ReadGeneration
<1>8. CASE Send(c)
  <2>1. [proc |-> client[c].want, gen |-> client[c].gen] \in Commands
    BY <1>1 DEF Commands
  <2>2. queue' \in Seq(Commands)
    BY <1>1, <1>8, <2>1 DEF Send
  <2> QED
    BY <1>1, <1>4, <1>8, <2>2, SameObjectLawful, OnlyClientAndObject DEF Send
<1>9. CASE SendRefused(c)
  <2>1. Sound(tr') /\ Lawful(tr, tr')
    BY <1>1, <1>9, ReleaseReservationSound, ResetLawful, SameObjectLawful
       DEF SendRefused, ReleaseReservation, Lawful
  <2> QED
    BY <1>1, <1>3, <1>9, <2>1, OnlyClientAndObject DEF SendRefused
<1>10. CASE Snapshot(c)
  <2>1. client' \in [Clients -> ClientStates] /\ noise' \in Nat
    BY <1>1, <1>2, <1>3, <1>10 DEF Snapshot
  <2> QED
    BY <1>1, <1>10, <2>1, SameObjectLawful, OnlyClientAndObject DEF Snapshot
<1>11. CASE CopyData(c)
  BY <1>1, <1>3, <1>11, SameObjectLawful, OnlyClientAndObject DEF CopyData
<1> QED
  BY <1>5, <1>6, <1>7, <1>8, <1>9, <1>10, <1>11 DEF ClientStep

-----------------------------------------------------------------------------
(* Worker, clock, controller.                                              *)

LEMMA WorkerStepKept ==
  ASSUME SessionInv, quiet' \in 0 .. OldAge, WorkerStep
  PROVE  Kept
<1>1. /\ Sound(tr) /\ queue \in Seq(Commands) /\ noise \in Nat
      /\ worker.cmd \in Commands /\ worker.cmd.proc \in Requests
      /\ worker \in [pc: {"take", "check", "mark", "write", "stop"}, cmd: Commands]
      /\ ctl.inbox \in Seq(Requests)
      /\ ctl \in [inbox: Seq(Requests), stream: [file: Requests, next: Nat]]
  BY DEF SessionInv, TypeOK, Commands
<1>2. AtTake \in [pc: {"take", "check", "mark", "write", "stop"}, cmd: Commands]
  BY DEF AtTake, NoCommand, Commands, Requests
<1>3. ASSUME Sound(tr'), Lawful(tr, tr'), queue' \in Seq(Commands), UNCHANGED client,
             worker' \in [pc: {"take", "check", "mark", "write", "stop"}, cmd: Commands],
             ctl' \in [inbox: Seq(Requests), stream: [file: Requests, next: Nat]],
             ctl'.stream = ctl.stream, noise' \in Nat
      PROVE  Kept
  BY <1>3 DEF Kept, SessionInv, TypeOK, Sound, StreamOfJournal, Sending
<1>4. CASE WorkerTake
  <2>1. Head(queue) \in Commands /\ Tail(queue) \in Seq(Commands)
    BY <1>1, <1>4 DEF WorkerTake
  <2> QED
    BY <1>1, <1>3, <1>4, <2>1, SameObjectLawful DEF WorkerTake
<1>5. CASE WorkerCheck
  BY <1>1, <1>2, <1>3, <1>5, SameObjectLawful DEF WorkerCheck
<1>6. CASE WorkerMark
  BY <1>1, <1>3, <1>6, MarkSentLawful DEF WorkerMark
<1>7. CASE WorkerWrite
  <2>1. CASE ctl' = [ctl EXCEPT !.inbox = Append(@, worker.cmd.proc)] /\ UNCHANGED <<tr, noise>>
    <3>1. ctl' \in [inbox: Seq(Requests), stream: [file: Requests, next: Nat]]
          /\ ctl'.stream = ctl.stream
      <4>1. Append(ctl.inbox, worker.cmd.proc) \in Seq(Requests)
        BY <1>1
      <4> QED
        BY <1>1, <2>1, <4>1
    <3> QED
      BY <1>1, <1>2, <1>3, <1>7, <2>1, <3>1, SameObjectLawful DEF WorkerWrite
  <2>2. CASE /\ tr' = AbortReservation(tr, "uart_write_failed")
             /\ noise' = noise + 1 /\ UNCHANGED ctl
    <3>1. Sound(tr') /\ Lawful(tr, tr')
      BY <1>1, <2>2, AbortReservationSound, FailLawful
         DEF AbortReservation, Reasons, Lawful
    <3> QED
      BY <1>1, <1>2, <1>3, <1>7, <2>2, <3>1 DEF WorkerWrite
  <2> QED
    BY <1>7, <2>1, <2>2 DEF WorkerWrite
<1>8. CASE WorkerStop
  BY <1>1, <1>2, <1>3, <1>8, SameObjectLawful DEF WorkerStop, AtTake
<1>9. CASE WorkerStopCancel
  BY <1>1, <1>2, <1>3, <1>9, CancelLawful DEF WorkerStopCancel
<1> QED
  BY <1>4, <1>5, <1>6, <1>7, <1>8, <1>9 DEF WorkerStep

LEMMA ControllerKept ==
  ASSUME SessionInv, quiet' \in 0 .. OldAge, ControllerAnswer \/ ControllerChunk
  PROVE  Kept
<1>1. /\ queue \in Seq(Commands) /\ noise \in Nat
      /\ ctl \in [inbox: Seq(Requests), stream: [file: Requests, next: Nat]]
      /\ ctl.stream.file \in Requests /\ ctl.stream.next \in Nat
      /\ ctl.inbox \in Seq(Requests)
  BY DEF SessionInv, TypeOK
<1>2. ASSUME Sound(tr'), Lawful(tr, tr'), noise' \in Nat, UNCHANGED <<queue, client, worker>>,
             ctl' \in [inbox: Seq(Requests), stream: [file: Requests, next: Nat]],
             ctl'.stream = NotSending \/ ctl'.stream.file \in Procs
      PROVE  Kept
  BY <1>2 DEF Kept, SessionInv, TypeOK, Sound, StreamOfJournal, Sending
<1>3. NotSending \in [file: Requests, next: Nat]
  BY DEF NotSending, Requests
<1>4. CASE ControllerAnswer
  <2> DEFINE p == Head(ctl.inbox)
             n == IF p \in Procs THEN FileChunks[p] ELSE 0
  <2>1. p \in Requests /\ Tail(ctl.inbox) \in Seq(Requests) /\ n \in Nat
    BY <1>1, <1>4, FileChunksAssumption DEF ControllerAnswer
  <2>2. p # ListRequest => p \in Procs /\ FileChunks[p] \in Nat
    BY <2>1, FileChunksAssumption DEF Requests
  <2>3. Sound(tr') /\ Lawful(tr, tr') /\ noise' \in Nat
    <3>1. \/ UNCHANGED <<tr, noise>>
          \/ \E kind \in {"LIST", "START", "ERR", "OK"}, m \in Nat : Deliver(kind, p, m)
      BY <1>4, <2>2 DEF ControllerAnswer
    <3> QED
      BY <1>1, <2>1, <3>1, DeliverLawful, SameObjectLawful
  <2>4. \E stream \in [file: Requests, next: Nat] :
           /\ stream = NotSending \/ stream.file \in Procs
           /\ ctl' = [inbox |-> Tail(ctl.inbox), stream |-> stream]
    <3>1. p # ListRequest => [file |-> p, next |-> 1] \in [file: Requests, next: Nat]
      BY <2>1
    <3> QED
      BY <1>3, <1>4, <2>2, <3>1 DEF ControllerAnswer
  <2> QED
    BY <1>2, <1>4, <2>1, <2>3, <2>4 DEF ControllerAnswer
<1>5. CASE ControllerChunk
  <2> DEFINE s == ctl.stream
  <2>1. s.file \in Procs /\ s \in [file: Requests, next: Nat]
    BY <1>1, <1>5 DEF ControllerChunk, SessionInv, StreamOfJournal
  <2>2. Sound(tr') /\ Lawful(tr, tr') /\ noise' \in Nat
    <3>1. Deliver("file", s.file, s.next) \/ Deliver("ERR", s.file, 0)
      BY <1>5 DEF ControllerChunk
    <3> QED
      BY <1>1, <2>1, <3>1, DeliverLawful
  <2>3. \E stream \in [file: Requests, next: Nat] :
           /\ stream = NotSending \/ stream.file \in Procs
           /\ ctl' = [ctl EXCEPT !.stream = stream]
    <3>1. [s EXCEPT !.next = @ + 1] \in [file: Requests, next: Nat]
          /\ [s EXCEPT !.next = @ + 1].file \in Procs
      BY <1>1, <2>1
    <3> QED
      BY <1>3, <1>5, <3>1 DEF ControllerChunk
  <2> QED
    BY <1>1, <1>2, <1>5, <2>2, <2>3 DEF ControllerChunk
<1> QED
  BY <1>4, <1>5

LEMMA OthersKept ==
  ASSUME SessionInv, quiet' \in 0 .. OldAge, Telemetry \/ Tick \/ TimeoutCheck
  PROVE  Kept
<1>1. /\ Sound(tr) /\ queue \in Seq(Commands) /\ noise \in Nat
      /\ client \in [Clients -> ClientStates]
  BY DEF SessionInv, TypeOK
<1>2. CASE Telemetry
  <2>1. Sound(tr') /\ Lawful(tr, tr')
    BY <1>1, <1>2, CompleteDrainSound, ResetLawful, SameObjectLawful
       DEF Telemetry, CompleteDrain
  <2> QED
    BY <1>1, <1>2, <2>1, OnlyClientAndObject DEF Telemetry
<1>3. CASE Tick
  BY <1>1, <1>3, AgedLawful, OnlyClientAndObject DEF Tick
<1>4. CASE TimeoutCheck
  <2>1. PICK lag \in 0 .. MaxLag : tr' = CheckTimeout(tr, lag)
    BY <1>4 DEF TimeoutCheck
  <2>2. lag \in Nat /\ "timeout" \in Reasons
    BY TimeAssumption DEF Reasons
  <2>3. Sound(tr')
    BY <1>1, <2>1, <2>2, CheckTimeoutSound
  <2>4. Lawful(tr, tr')
    BY <1>1, <2>1, <2>2, FailLawful, SameObjectLawful DEF CheckTimeout, Lawful
  <2> QED
    BY <1>1, <1>4, <2>3, <2>4, OnlyClientAndObject DEF TimeoutCheck
<1> QED
  BY <1>2, <1>3, <1>4

-----------------------------------------------------------------------------
(* The theorems.                                                           *)

LEMMA InitHolds == Init => SessionInv
<1> SUFFICES ASSUME Init PROVE SessionInv
  OBVIOUS
<1>1. Sound(tr) /\ tr \in Transfers
  BY NewTransferSound DEF Init, Sound
<1>2. client \in [Clients -> ClientStates]
  BY ClientStatesHold DEF Init
<1>3. worker \in [pc: {"take", "check", "mark", "write", "stop"}, cmd: Commands]
  BY DEF Init, AtTake, NoCommand, Commands, Requests
<1>4. ctl \in [inbox: Seq(Requests), stream: [file: Requests, next: Nat]] /\ ~Sending
  BY DEF Init, NotSending, Requests, Sending
<1> QED
  <2>1. quiet \in 0 .. OldAge
    BY TimeAssumption DEF Init, OldAge
  <2> QED
    BY <1>1, <1>2, <1>3, <1>4, <2>1 DEF Init, SessionInv, TypeOK, StreamOfJournal

\* Every step of every task keeps the invariant and treats the object lawfully.
LEMMA NextKeeps == ASSUME SessionInv, [Next]_vars PROVE Kept
<1>1. CASE Next
  <2>1. RestClients \subseteq Clients /\ CommandClients \subseteq Clients
    BY DEF Clients
  <2> QED
    BY <1>1, <2>1, QuietTyped, RestRequestKept, CommandGetLogKept, ClientStepKept, WorkerStepKept,
       ControllerKept, OthersKept DEF Next
<1>2. CASE UNCHANGED vars
  BY <1>2, SameObjectLawful
     DEF vars, Kept, SessionInv, TypeOK, StreamOfJournal, Sending
<1> QED
  BY <1>1, <1>2

\* The types, the sound transfer object and the stream of a journal hold in every
\* reachable state: the inductive invariant that the theorems below use.
THEOREM SessionInvariant == Spec => []SessionInv
<1>1. SessionInv /\ [Next]_vars => SessionInv'
  BY NextKeeps DEF Kept
<1> QED
  BY InitHolds, <1>1, PTL DEF Spec

\* Every variable keeps its type: no counter of the transfer leaves its range.
THEOREM TypeCorrect == Spec => []TypeOK
<1>1. SessionInv => TypeOK
  BY DEF SessionInv
<1> QED
  BY <1>1, SessionInvariant, PTL

\* Between any two calls of any tasks the object's fields agree.
THEOREM TransferStaysConsistent == Spec => []TransferConsistent
<1>1. SessionInv => TransferConsistent
  BY DEF SessionInv, Sound, TransferConsistent
<1> QED
  BY <1>1, SessionInvariant, PTL

\* A session that failed has given its memory back, and bytes are stored in reserved
\* memory only.
THEOREM BufferIsFreed == Spec => []BufferFreed
<1>1. SessionInv => BufferFreed
  BY DEF SessionInv, Sound, BufferFreed
<1> QED
  BY <1>1, SessionInvariant, PTL

\* No session blocks the queue without a deadline.
THEOREM BlockedIsTimed == Spec => []BlockedHasDeadline
<1>1. SessionInv => BlockedHasDeadline
  BY DEF SessionInv, Sound, BlockedHasDeadline
<1> QED
  BY <1>1, SessionInvariant, PTL

\* The three together: the object is sound between any two calls, for any journals, clients and
\* number of faults.
THEOREM ObjectStaysSound == Spec => []ObjectSound
<1>1. ObjectSound <=> TransferConsistent /\ BufferFreed /\ BlockedHasDeadline
  BY DEF ObjectSound
<1> QED
  BY <1>1, TransferStaysConsistent, BufferIsFreed, BlockedIsTimed, PTL

\* No step of any task takes a running session over.
THEOREM SessionsAreNotTakenOver == Spec => NoTakeover
<1>1. SessionInv /\ [Next]_vars =>
        [tr'.gen # tr.gen =>
           \/ ~Blocked(tr)
           \/ tr.status \in QueuedStatuses /\ tr'.status = "IDLE"]_vars
  BY NextKeeps DEF Kept, Lawful
<1> QED
  BY <1>1, SessionInvariant, PTL DEF Spec, NoTakeover

\* A cancelled transfer ends, whatever the controller still sends.
THEOREM DrainsAreFinal == Spec => DrainIsFinal
<1>1. SessionInv /\ [Next]_vars =>
        [tr.status = "DRAINING" =>
           /\ tr'.status \in {"DRAINING", "IDLE", "ERROR"}
           /\ tr'.gen = tr.gen]_vars
  BY NextKeeps DEF Kept, Lawful
<1> QED
  BY <1>1, SessionInvariant, PTL DEF Spec, DrainIsFinal

-----------------------------------------------------------------------------
(* Downloads are intact until the second fault.                            *)

Part(p, n) == [i \in 1 .. n |-> <<p, i>>]

\* What is stored are the first chunks of the journal that was asked for.
Filling(t) ==
    /\ t.status = "RECEIVING" => t.total = FileChunks[t.proc] /\ t.data = Part(t.proc, t.received)
    /\ t.status = "COMPLETED" => t.data = Journal(t.proc)

\* A file that is received is the one that is sent; without a fault it is still being sent.
StreamFits ==
    tr.status = "RECEIVING" => /\ Sending => ctl.stream.file = tr.proc
                               /\ noise = 0 => Sending

IntactInv == noise <= 1 => Filling(tr) /\ StreamFits

\* A call that is not about a file being received.
Alike(t, u) ==
    /\ u.status = t.status /\ u.proc = t.proc /\ u.total = t.total
    /\ u.data = t.data /\ u.received = t.received
Quiet(t, u) == u.status \notin {"RECEIVING", "COMPLETED"} \/ Alike(t, u)

\* What a frame makes of the object: a START begins the count of its file anew, a chunk in its
\* place is added, and no other frame leaves anything received but what was there.
LEMMA ConsumeFills ==
  ASSUME NEW t, Sound(t), NEW f, WellFormed(f), NEW heap \in BOOLEAN,
         NEW u, u = Consume(t, f, heap)
  PROVE  \/ u.status \notin {"RECEIVING", "COMPLETED"}
         \/ Alike(t, u) /\ f.kind \in {"LIST", "OK"}
         \/ Alike(t, u) /\ t.status = "COMPLETED" /\ f.kind = "file"
         \/ /\ f.kind = "START" /\ f.intact /\ heap
            /\ u.proc = f.file /\ u.total = f.n /\ u.received = 0 /\ u.data = << >>
            /\ u.status = IF f.n = 0 THEN "COMPLETED" ELSE "RECEIVING"
         \/ /\ f.kind = "file" /\ t.status = "RECEIVING" /\ f.n = t.received + 1
            /\ u.proc = t.proc /\ u.total = t.total /\ u.received = f.n
            /\ u.data = Append(t.data, <<f.file, f.n>>)
            /\ u.status = IF f.n = t.total THEN "COMPLETED" ELSE "RECEIVING"
<1> DEFINE v == Touch(t)
<1>1. /\ Sound(v) /\ v \in Transfers /\ Alike(t, v) /\ v.request = t.request
      /\ f.kind \in {"LIST", "START", "ERR", "OK", "file"}
  <2>1. Alike(t, v) /\ v.request = t.request
    BY DEF Touch, Alike, Sound, Transfers
  <2> QED
    BY <2>1, TouchSound DEF Sound, WellFormed, Frames
<1>2. \A reason : Fail(v, reason).status = "ERROR"
  BY <1>1 DEF Fail, Transfers
<1>3. v.status \in {"RECEIVING", "COMPLETED"} => v.request = "File"
  BY <1>1 DEF Sound, RequestMatchesStatus
<1>4. v.status # "DRAINING" =>
        u = CASE f.kind = "LIST"  -> ConsumeList(v, f)
              [] f.kind = "START" -> ConsumeStart(v, f, heap)
              [] f.kind = "ERR"   -> Fail(v, "err_")
              [] f.kind = "OK"    -> v
              [] f.kind = "file"  -> ConsumeChunk(v, f)
  BY DEF Consume
<1>5. v.status = "DRAINING" => u = ConsumeDraining(v, f)
  BY DEF Consume
<1> HIDE DEF v
<1>6. CASE v.status = "DRAINING"
  BY <1>2, <1>5, <1>6 DEF ConsumeDraining
<1>7. CASE v.status # "DRAINING" /\ f.kind = "LIST"
  <2>1. u = ConsumeList(v, f)
    BY <1>4, <1>7
  <2>2. CASE v.request # "List"
    BY <1>1, <1>7, <2>1, <2>2 DEF ConsumeList, Alike
  <2>3. CASE v.request = "List"
    <3>1. [v EXCEPT !.status = "LIST_RECEIVED"].status = "LIST_RECEIVED"
      BY <1>1 DEF Transfers
    <3> QED
      BY <1>2, <2>1, <2>3, <3>1 DEF ConsumeList
  <2> QED
    BY <2>2, <2>3
<1>8. CASE v.status # "DRAINING" /\ f.kind = "ERR"
  BY <1>2, <1>4, <1>8
<1>9. CASE v.status # "DRAINING" /\ f.kind = "OK"
  BY <1>1, <1>4, <1>9
<1>10. CASE v.status # "DRAINING" /\ f.kind = "START"
  <2> DEFINE begun == [v EXCEPT !.total = f.n, !.received = 0, !.data = << >>]
  <2>1. u = ConsumeStart(v, f, heap)
    BY <1>4, <1>10
  <2>2. CASE v.request # "File"
    BY <1>3, <2>1, <2>2 DEF ConsumeStart
  <2>3. CASE v.request = "File" /\ (~f.intact \/ f.file # v.proc)
    BY <1>2, <2>1, <2>3 DEF ConsumeStart
  <2>4. CASE v.request = "File" /\ f.intact /\ f.file = v.proc
    <3>1. u = IF ~heap THEN Fail(begun, "log_heap_low")
              ELSE IF f.n = 0 THEN [begun EXCEPT !.status = "COMPLETED", !.held = 0]
              ELSE [begun EXCEPT !.status = "RECEIVING", !.buffer = TRUE]
      BY <2>1, <2>4 DEF ConsumeStart
    <3> QED
      BY <1>1, <1>10, <2>4, <3>1 DEF Fail, Transfers
  <2> QED
    BY <2>2, <2>3, <2>4
<1>11. CASE v.status # "DRAINING" /\ f.kind = "file"
  <2> DEFINE grown == [v EXCEPT !.data = Append(@, <<f.file, f.n>>), !.received = f.n]
  <2>1. u = ConsumeChunk(v, f)
    BY <1>4, <1>11
  <2>2. CASE v.status # "RECEIVING"
    BY <1>1, <1>11, <2>1, <2>2 DEF ConsumeChunk, Alike
  <2>3. CASE v.status = "RECEIVING" /\ (f.n # v.received + 1 \/ ~f.intact \/ Len(v.data) + 1 > DataMax)
    BY <1>2, <2>1, <2>3 DEF ConsumeChunk
  <2>4. CASE v.status = "RECEIVING" /\ f.n = v.received + 1 /\ f.intact /\ ~(Len(v.data) + 1 > DataMax)
    <3>1. u = IF f.n = v.total THEN [grown EXCEPT !.status = "COMPLETED", !.held = 0] ELSE grown
      BY <2>1, <2>4 DEF ConsumeChunk
    <3> QED
      BY <1>1, <1>11, <2>4, <3>1 DEF Transfers, Alike
  <2> QED
    BY <2>2, <2>3, <2>4
<1> QED
  BY <1>1, <1>6, <1>7, <1>8, <1>9, <1>10, <1>11

\* Every other call is quiet.
LEMMA OthersQuiet ==
  ASSUME NEW t, Sound(t)
  PROVE  /\ Quiet(t, t) /\ Quiet(t, MarkSent(t)) /\ Quiet(t, Cancel(t))
         /\ Quiet(t, ReleaseReservation(t)) /\ Quiet(t, CompleteDrain(t)) /\ Quiet(t, Aged(t))
         /\ \A p \in Requests : Quiet(t, Reserve(t, p))
         /\ \A reason : Quiet(t, AbortReservation(t, reason))
         /\ \A lag : Quiet(t, CheckTimeout(t, lag)) /\ Quiet(t, Refreshed(t, lag))
<1>1. t \in Transfers /\ Quiet(t, t)
  BY DEF Sound, Quiet, Alike
<1>2. \A v, reason : v \in Transfers => Fail(v, reason).status = "ERROR"
  BY DEF Fail, Transfers
<1>3. \A v : Reset(v).status = "IDLE" /\ NextGeneration(Reset(v)).status = "IDLE"
  BY DEF Reset, NewTransfer, NextGeneration
<1>4. \A lag : Quiet(t, CheckTimeout(t, lag))
  BY <1>1, <1>2 DEF CheckTimeout, Quiet
<1>5. ASSUME NEW lag PROVE Quiet(t, Refreshed(t, lag))
  <2> DEFINE v == CheckTimeout(t, lag)
  <2>1. Quiet(t, v) /\ Refreshed(t, lag) \in {v, NextGeneration(Reset(v))}
    BY <1>4 DEF Refreshed, ReleaseExpired
  <2> QED
    BY <1>3, <2>1 DEF Quiet
<1>6. Quiet(t, MarkSent(t)) /\ Quiet(t, Aged(t))
  BY <1>1 DEF MarkSent, Aged, Quiet, Alike, Transfers
<1>7. Quiet(t, Cancel(t))
  <2>1. [t EXCEPT !.status = "DRAINING", !.error = ""].status = "DRAINING"
    BY <1>1 DEF Transfers
  <2> QED
    BY <1>1, <1>3, <2>1 DEF Cancel, Quiet
<1>8. Quiet(t, ReleaseReservation(t)) /\ Quiet(t, CompleteDrain(t))
  BY <1>1, <1>3 DEF ReleaseReservation, CompleteDrain, Quiet
<1>9. \A reason : Quiet(t, AbortReservation(t, reason))
  BY <1>1, <1>2 DEF AbortReservation, Quiet
<1>10. ASSUME NEW p \in Requests PROVE Quiet(t, Reserve(t, p))
  <2>1. Verdict(t, p) = "Accepted" => Reserve(t, p).status \in QueuedStatuses
    BY <1>1 DEF Reserve, Reset, NewTransfer, QueuedStatuses
  <2> QED
    BY <1>1, <2>1 DEF Reserve, Quiet, QueuedStatuses
<1> QED
  BY <1>1, <1>4, <1>5, <1>6, <1>7, <1>8, <1>9, <1>10

\* A quiet call keeps what was stored, and a step with one is judged by the stream.
LEMMA QuietFills ==
  ASSUME NEW t, NEW u, Quiet(t, u), Filling(t)
  PROVE  Filling(u) /\ (u.status = "RECEIVING" => t.status = "RECEIVING" /\ u.proc = t.proc)
  BY DEF Quiet, Alike, Filling

LEMMA QuietIntact ==
  ASSUME SessionInv, IntactInv, Quiet(tr, tr'), ctl'.stream = ctl.stream,
         noise' \in {noise, noise + 1}
  PROVE  IntactInv'
<1>1. noise \in Nat
  BY DEF SessionInv, TypeOK
<1>2. SUFFICES ASSUME noise' <= 1 PROVE Filling(tr') /\ StreamFits'
  BY DEF IntactInv
<1>3. Filling(tr) /\ StreamFits /\ (noise' = 0 => noise = 0)
  BY <1>1, <1>2 DEF IntactInv
<1> QED
  BY <1>3, QuietFills DEF StreamFits, Sending, NotSending

\* The steps that deliver no frame.
LEMMA QuietSteps ==
  ASSUME SessionInv,
         \/ \E c \in Clients : RestRequest(c) \/ ClientStep(c) \/ \E p \in Requests : CommandGetLog(c, p)
         \/ WorkerStep \/ Telemetry \/ Tick \/ TimeoutCheck \/ UNCHANGED vars
  PROVE  Quiet(tr, tr') /\ ctl'.stream = ctl.stream /\ noise' \in {noise, noise + 1}
<1>1. /\ Sound(tr) /\ client \in [Clients -> ClientStates] /\ worker.cmd.proc \in Requests
      /\ ctl \in [inbox: Seq(Requests), stream: [file: Requests, next: Nat]]
  BY DEF SessionInv, TypeOK, Commands
<1>2. Quiet(tr, tr)
  BY <1>1, OthersQuiet
<1>3. CASE UNCHANGED <<tr, ctl, noise>>
  BY <1>2, <1>3
<1>4. ASSUME NEW c \in Clients, RestRequest(c)
      PROVE  Quiet(tr, tr') /\ UNCHANGED <<ctl, noise>>
  <2>1. UNCHANGED <<ctl, noise>> /\ (tr' = Cancel(tr) \/ \E lag \in 0 .. MaxLag : tr' = Refreshed(tr, lag))
    BY <1>4 DEF RestRequest, GetFile, GetList, Delete
  <2> QED
    BY <1>1, <2>1, OthersQuiet
<1>5. ASSUME NEW c \in Clients, NEW p \in Requests, CommandGetLog(c, p)
      PROVE  UNCHANGED <<tr, ctl, noise>>
  BY <1>5 DEF CommandGetLog
<1>6. ASSUME NEW c \in Clients, ClientStep(c)
      PROVE  Quiet(tr, tr') /\ UNCHANGED ctl /\ noise' \in {noise, noise + 1}
  <2>1. client[c].want \in Requests
    BY <1>1 DEF ClientStates
  <2>2. CASE ReserveSession(c)
    BY <1>1, <2>1, <2>2, OthersQuiet DEF ReserveSession
  <2>3. CASE SendRefused(c)
    BY <1>1, <2>3, OthersQuiet DEF SendRefused
  <2>4. CASE Snapshot(c)
    BY <1>2, <2>4 DEF Snapshot
  <2>5. CASE Decide(c) \/ ReadGeneration(c) \/ Send(c) \/ CopyData(c)
    BY <1>2, <2>5 DEF Decide, ReadGeneration, Send, CopyData
  <2> QED
    BY <1>6, <2>2, <2>3, <2>4, <2>5 DEF ClientStep
<1>7. CASE WorkerStep
  <2>1. CASE WorkerWrite
    <3>1. CASE ctl' = [ctl EXCEPT !.inbox = Append(@, worker.cmd.proc)] /\ UNCHANGED <<tr, noise>>
      BY <1>1, <1>2, <3>1
    <3>2. CASE /\ tr' = AbortReservation(tr, "uart_write_failed")
               /\ noise' = noise + 1 /\ UNCHANGED ctl
      BY <1>1, <3>2, OthersQuiet
    <3> QED
      BY <2>1, <3>1, <3>2 DEF WorkerWrite
  <2>2. CASE WorkerMark \/ WorkerStopCancel
    BY <1>1, <2>2, OthersQuiet DEF WorkerMark, WorkerStopCancel
  <2>3. CASE WorkerTake \/ WorkerCheck \/ WorkerStop
    BY <1>2, <2>3 DEF WorkerTake, WorkerCheck, WorkerStop
  <2> QED
    BY <1>7, <2>1, <2>2, <2>3 DEF WorkerStep
<1>8. CASE Telemetry \/ Tick \/ TimeoutCheck
  BY <1>1, <1>8, OthersQuiet DEF Telemetry, Tick, TimeoutCheck
<1> QED
  BY <1>3, <1>4, <1>5, <1>6, <1>7, <1>8 DEF vars

\* The outcomes of a frame on the line.
LEMMA DeliverCases ==
  ASSUME NEW kind, NEW p, NEW n, Deliver(kind, p, n)
  PROVE  \/ tr' = Consume(tr, Frame(kind, p, n, TRUE), TRUE) /\ noise' = noise
         \/ /\ noise' = noise + 1
            /\ \/ tr' = tr
               \/ \E intact, heap \in BOOLEAN :
                     ~(intact /\ heap) /\ tr' = Consume(tr, Frame(kind, p, n, intact), heap)
  BY DEF Deliver

LEMMA FrameFacts ==
  ASSUME NEW kind \in {"LIST", "START", "ERR", "OK", "file"}, NEW p \in Requests, NEW n \in Nat,
         kind = "file" => p \in Procs, NEW intact \in BOOLEAN
  PROVE  /\ WellFormed(Frame(kind, p, n, intact))
         /\ Frame(kind, p, n, intact).kind = kind /\ Frame(kind, p, n, intact).file = p
         /\ Frame(kind, p, n, intact).n = n /\ Frame(kind, p, n, intact).intact = intact
<1>1. Frame(kind, p, n, intact) \in Frames
  BY DEF Frame, Frames, Requests
<1> QED
  BY <1>1 DEF WellFormed, Frame

\* A START, an answer without a file, or none, when no file is being sent.
LEMMA AnswerIntact == ASSUME SessionInv, IntactInv, ControllerAnswer PROVE IntactInv'
<1> DEFINE p == Head(ctl.inbox)
<1>1. /\ Sound(tr) /\ noise \in Nat /\ p \in Requests /\ ~Sending
      /\ p # ListRequest => p \in Procs /\ FileChunks[p] \in Nat
  <2>1. p \in Requests
    BY DEF ControllerAnswer, SessionInv, TypeOK
  <2> QED
    BY <2>1, FileChunksAssumption DEF ControllerAnswer, SessionInv, TypeOK, Requests
<1> SUFFICES ASSUME noise' <= 1 PROVE Filling(tr') /\ StreamFits'
  BY DEF IntactInv
<1>2. PICK stream : ctl' = [inbox |-> Tail(ctl.inbox), stream |-> stream]
  BY DEF ControllerAnswer
<1>3. noise' \in {noise, noise + 1}
  BY DEF ControllerAnswer, Deliver
<1>4. Filling(tr) /\ (tr.status = "RECEIVING" => noise # 0)
  BY <1>1, <1>3 DEF IntactInv, StreamFits
<1>5. Sending' => stream # NotSending
  BY <1>2 DEF Sending
<1>6. ASSUME Quiet(tr, tr'), stream = NotSending
      PROVE  Filling(tr') /\ StreamFits'
  BY <1>1, <1>3, <1>4, <1>5, <1>6, QuietFills DEF StreamFits
<1>7. ASSUME NEW kind \in {"LIST", "ERR", "OK"}, Deliver(kind, p, 0)
      PROVE  Quiet(tr, tr')
  <2>1. tr' = tr \/ \E intact, heap \in BOOLEAN : tr' = Consume(tr, Frame(kind, p, 0, intact), heap)
    BY <1>7, DeliverCases
  <2>2. \A intact \in BOOLEAN : /\ WellFormed(Frame(kind, p, 0, intact))
                                /\ Frame(kind, p, 0, intact).kind = kind
    BY <1>1, FrameFacts
  <2>3. ASSUME NEW intact \in BOOLEAN, NEW heap \in BOOLEAN,
               tr' = Consume(tr, Frame(kind, p, 0, intact), heap)
        PROVE  Quiet(tr, tr')
    BY <1>1, <2>2, <2>3, ConsumeFills DEF Quiet
  <2> QED
    BY <1>1, <2>1, <2>3, OthersQuiet
<1>8. CASE /\ p # ListRequest /\ Deliver("START", p, FileChunks[p])
           /\ stream = IF FileChunks[p] = 0 THEN NotSending ELSE [file |-> p, next |-> 1]
  <2> DEFINE f(intact) == Frame("START", p, FileChunks[p], intact)
  <2>1. \A intact \in BOOLEAN :
           /\ WellFormed(f(intact)) /\ f(intact).kind = "START" /\ f(intact).file = p
           /\ f(intact).n = FileChunks[p] /\ f(intact).intact = intact
    BY <1>1, <1>8, FrameFacts
  <2>2. CASE tr' = Consume(tr, f(TRUE), TRUE)
    <3>1. \/ tr'.status \notin {"RECEIVING", "COMPLETED"}
          \/ /\ tr'.proc = p /\ tr'.total = FileChunks[p] /\ tr'.received = 0 /\ tr'.data = << >>
             /\ tr'.status = IF FileChunks[p] = 0 THEN "COMPLETED" ELSE "RECEIVING"
      <4> DEFINE g == f(TRUE)
      <4>1. WellFormed(g) /\ g.kind = "START" /\ g.file = p /\ g.n = FileChunks[p]
        BY <2>1
      <4>2. tr' = Consume(tr, g, TRUE)
        BY <2>2
      <4> HIDE DEF g
      <4>3. \/ tr'.status \notin {"RECEIVING", "COMPLETED"}
            \/ Alike(tr, tr') /\ g.kind \in {"LIST", "OK"}
            \/ Alike(tr, tr') /\ tr.status = "COMPLETED" /\ g.kind = "file"
            \/ /\ tr'.proc = g.file /\ tr'.total = g.n /\ tr'.received = 0 /\ tr'.data = << >>
               /\ tr'.status = IF g.n = 0 THEN "COMPLETED" ELSE "RECEIVING"
            \/ g.kind = "file"
        BY <1>1, <4>1, <4>2, ConsumeFills, Zenon
      <4> QED
        BY <4>1, <4>3
    <3>2. Part(p, 0) = << >> /\ (FileChunks[p] = 0 => Journal(p) = << >>)
      BY DEF Part, Journal
    <3>3. FileChunks[p] # 0 => Sending' /\ ctl'.stream.file = p
      BY <1>1, <1>2, <1>8 DEF Sending, NotSending, ListRequest
    <3> QED
      BY <3>1, <3>2, <3>3 DEF Filling, StreamFits
  <2>3. CASE noise' = noise + 1
    <3>1. tr.status # "RECEIVING"
      BY <1>1, <1>4, <2>3
    <3>2. tr' = tr \/ tr'.status \notin {"RECEIVING", "COMPLETED"}
      <4> DEFINE Faulty == \E intact, heap \in BOOLEAN :
                              ~(intact /\ heap) /\ tr' = Consume(tr, f(intact), heap)
                 Fine == tr' = Consume(tr, f(TRUE), TRUE)
      <4>0. \/ Fine /\ noise' = noise
            \/ noise' = noise + 1 /\ (tr' = tr \/ Faulty)
        BY <1>8, DeliverCases, Zenon
      <4>1. tr' = tr \/ Faulty
        <5> HIDE DEF Faulty, Fine
        <5> QED
          BY <1>1, <2>3, <4>0
      <4> HIDE DEF f
      <4>2. ASSUME NEW intact \in BOOLEAN, NEW heap \in BOOLEAN, ~(intact /\ heap),
                   tr' = Consume(tr, f(intact), heap)
            PROVE  tr'.status \notin {"RECEIVING", "COMPLETED"}
        BY <1>1, <2>1, <4>2, ConsumeFills
      <4> QED
        BY <4>1, <4>2
    <3> QED
      BY <1>4, <3>1, <3>2 DEF Filling, StreamFits
  <2> QED
    BY <1>8, <2>2, <2>3, DeliverCases
<1> QED
  <2>1. \/ /\ stream = NotSending
           /\ UNCHANGED tr \/ \E kind \in {"LIST", "ERR", "OK"} : Deliver(kind, p, 0)
        \/ /\ p # ListRequest /\ Deliver("START", p, FileChunks[p])
           /\ stream = IF FileChunks[p] = 0 THEN NotSending ELSE [file |-> p, next |-> 1]
    BY <1>2 DEF ControllerAnswer
  <2>2. UNCHANGED tr => Quiet(tr, tr')
    BY <1>1, OthersQuiet
  <2> QED
    BY <1>6, <1>7, <1>8, <2>1, <2>2

\* The next chunk of the file that is being sent.
LEMMA ChunkIntact == ASSUME SessionInv, IntactInv, ControllerChunk PROVE IntactInv'
<1> DEFINE s == ctl.stream
<1>1. /\ Sound(tr) /\ noise \in Nat /\ s.file \in Procs /\ s.next \in Nat /\ FileChunks[s.file] \in Nat
      /\ ctl \in [inbox: Seq(Requests), stream: [file: Requests, next: Nat]] /\ Sending
  BY FileChunksAssumption DEF ControllerChunk, SessionInv, TypeOK, StreamOfJournal
<1> SUFFICES ASSUME noise' <= 1 PROVE Filling(tr') /\ StreamFits'
  BY DEF IntactInv
<1>2. noise' \in {noise, noise + 1}
  BY DEF ControllerChunk, Deliver
<1>3. Filling(tr) /\ (tr.status = "RECEIVING" => tr.proc = s.file)
  BY <1>1, <1>2 DEF IntactInv, StreamFits
<1>4. CASE Deliver("ERR", s.file, 0) /\ ctl' = [ctl EXCEPT !.stream = NotSending]
  <2>1. ~Sending'
    BY <1>1, <1>4 DEF Sending
  <2>2. (tr' = tr /\ noise' = noise + 1) \/ tr'.status \notin {"RECEIVING", "COMPLETED"}
    <3>1. \A intact \in BOOLEAN : /\ WellFormed(Frame("ERR", s.file, 0, intact))
                                  /\ Frame("ERR", s.file, 0, intact).kind = "ERR"
      BY <1>1, FrameFacts DEF Requests
    <3>2. ASSUME NEW intact \in BOOLEAN, NEW heap \in BOOLEAN,
                 tr' = Consume(tr, Frame("ERR", s.file, 0, intact), heap)
          PROVE  tr'.status \notin {"RECEIVING", "COMPLETED"}
      BY <1>1, <3>1, <3>2, ConsumeFills
    <3> QED
      BY <1>4, <3>2, DeliverCases
  <2> QED
    BY <1>1, <1>3, <2>1, <2>2 DEF Filling, StreamFits
<1>5. CASE /\ Deliver("file", s.file, s.next)
           /\ ctl' = [ctl EXCEPT !.stream = IF s.next = FileChunks[s.file] THEN NotSending
                                            ELSE [s EXCEPT !.next = @ + 1]]
  <2> DEFINE f(intact) == Frame("file", s.file, s.next, intact)
  <2>1. \A intact \in BOOLEAN : /\ WellFormed(f(intact)) /\ f(intact).kind = "file"
                                /\ f(intact).file = s.file /\ f(intact).n = s.next
    BY <1>1, FrameFacts DEF Requests
  <2>2. /\ Sending' => ctl'.stream.file = s.file
        /\ s.next # FileChunks[s.file] => Sending'
    BY <1>1, <1>5, ProcsAssumption DEF Sending, NotSending, ListRequest
  <2>3. CASE tr' = tr /\ noise' = noise + 1
    BY <1>1, <1>3, <2>2, <2>3 DEF Filling, StreamFits
  <2>4. ASSUME NEW intact \in BOOLEAN, NEW heap \in BOOLEAN, tr' = Consume(tr, f(intact), heap)
        PROVE  Filling(tr') /\ StreamFits'
    <3>1. \/ tr'.status \notin {"RECEIVING", "COMPLETED"}
          \/ Alike(tr, tr') /\ tr.status = "COMPLETED"
          \/ /\ tr.status = "RECEIVING" /\ s.next = tr.received + 1
             /\ tr'.proc = tr.proc /\ tr'.total = tr.total /\ tr'.received = s.next
             /\ tr'.data = Append(tr.data, <<s.file, s.next>>)
             /\ tr'.status = IF s.next = tr.total THEN "COMPLETED" ELSE "RECEIVING"
      <4> HIDE DEF f
      <4> QED
        BY <1>1, <2>1, <2>4, ConsumeFills
    <3>2. CASE tr'.status \notin {"RECEIVING", "COMPLETED"}
      BY <3>2 DEF Filling, StreamFits
    <3>3. CASE Alike(tr, tr') /\ tr.status = "COMPLETED"
      BY <1>3, <3>3 DEF Alike, Filling, StreamFits
    <3>4. CASE /\ tr.status = "RECEIVING" /\ s.next = tr.received + 1
               /\ tr'.proc = tr.proc /\ tr'.total = tr.total /\ tr'.received = s.next
               /\ tr'.data = Append(tr.data, <<s.file, s.next>>)
               /\ tr'.status = IF s.next = tr.total THEN "COMPLETED" ELSE "RECEIVING"
      <4>1. /\ tr.proc = s.file /\ tr.total = FileChunks[s.file] /\ tr.data = Part(s.file, tr.received)
            /\ tr.received \in Nat
        BY <1>1, <1>3, <3>4 DEF Filling, Sound, Transfers
      <4>2. Append(Part(s.file, tr.received), <<s.file, s.next>>) = Part(s.file, s.next)
        BY <3>4, <4>1 DEF Part
      <4>3. Journal(s.file) = Part(s.file, FileChunks[s.file])
        BY DEF Journal, Part
      <4> QED
        BY <2>2, <3>4, <4>1, <4>2, <4>3 DEF Filling, StreamFits
    <3> QED
      BY <3>1, <3>2, <3>3, <3>4
  <2> QED
    BY <1>5, <2>3, <2>4, DeliverCases
<1> QED
  BY <1>4, <1>5 DEF ControllerChunk

LEMMA NextIntact == ASSUME SessionInv, IntactInv, [Next]_vars PROVE IntactInv'
<1>1. RestClients \subseteq Clients /\ CommandClients \subseteq Clients
  BY DEF Clients
<1>2. CASE ControllerAnswer \/ ControllerChunk
  BY <1>2, AnswerIntact, ChunkIntact
<1>3. CASE ~(ControllerAnswer \/ ControllerChunk)
  <2>1. \/ \E c \in Clients : RestRequest(c) \/ ClientStep(c) \/ \E p \in Requests : CommandGetLog(c, p)
        \/ WorkerStep \/ Telemetry \/ Tick \/ TimeoutCheck \/ UNCHANGED vars
    BY <1>1, <1>3 DEF Next
  <2> QED
    BY <2>1, QuietSteps, QuietIntact
<1> QED
  BY <1>2, <1>3

\* Until the second fault of the line, the memory or the port, what is COMPLETED is the journal
\* that was asked for, for any journals, clients, cancelled and repeated requests
\* (SsvcLogProtocol.h, consumeStart and consumeFile).
THEOREM IntactUntilSecondFault == Spec => [](noise <= 1 => DownloadIntact)
<1>1. Init => IntactInv
  <2>1. (Init => tr = NewTransfer) /\ NewTransfer.status = "IDLE"
    BY DEF Init, NewTransfer
  <2>2. tr.status = "IDLE" => Filling(tr) /\ StreamFits
    BY DEF Filling, StreamFits
  <2> QED
    BY <2>1, <2>2 DEF IntactInv
<1>2. SessionInv /\ IntactInv /\ [Next]_vars => IntactInv'
  BY NextIntact
<1>3. IntactInv => (noise <= 1 => DownloadIntact)
  BY DEF IntactInv, Filling, DownloadIntact
<1> QED
  BY <1>1, <1>2, <1>3, SessionInvariant, PTL DEF Spec

\* No more faults than are allowed.
FaultsWithin == noise <= MaxNoise

LEMMA FaultsBounded == Spec => []FaultsWithin
<1>1. Init => FaultsWithin
  BY SessionBoundsAssumption DEF Init, FaultsWithin
<1>2. SessionInv /\ FaultsWithin /\ [Next]_vars => FaultsWithin'
  <2> SUFFICES ASSUME SessionInv, noise <= MaxNoise, [Next]_vars PROVE noise' <= MaxNoise
    BY DEF FaultsWithin
  <2>1. noise \in Nat /\ MaxNoise \in Nat
    BY SessionBoundsAssumption DEF SessionInv, TypeOK
  <2>2. noise' = noise \/ (noise < MaxNoise /\ noise' = noise + 1)
    <3>1. CASE \E c \in Clients : Snapshot(c)
      BY <3>1 DEF Snapshot
    <3>2. CASE WorkerWrite
      BY <3>2 DEF WorkerWrite
    <3>3. CASE ControllerAnswer \/ ControllerChunk
      BY <3>3 DEF ControllerAnswer, ControllerChunk, Deliver
    <3>4. CASE ~((\E c \in Clients : Snapshot(c)) \/ WorkerWrite \/ ControllerAnswer \/ ControllerChunk)
      BY <3>4 DEF Next, vars, RestRequest, GetFile, GetList, Delete, CommandGetLog, ClientStep, Decide,
         ReserveSession, ReadGeneration, Send, SendRefused, CopyData, WorkerStep, WorkerTake, WorkerCheck,
         WorkerMark, WorkerStop, WorkerStopCancel, Telemetry, Tick, TimeoutCheck
    <3> QED
      BY <3>1, <3>2, <3>3, <3>4
  <2> QED
    BY <2>1, <2>2
<1> QED
  BY <1>1, <1>2, SessionInvariant, PTL DEF Spec

\* With one fault at most every finished download is the journal that was asked for.
THEOREM DownloadsIntact == MaxNoise <= 1 => (Spec => []DownloadIntact)
<1> SUFFICES ASSUME MaxNoise <= 1 PROVE Spec => []DownloadIntact
  OBVIOUS
<1>1. SessionInv /\ FaultsWithin => noise <= 1
  BY SessionBoundsAssumption DEF SessionInv, TypeOK, FaultsWithin
<1> QED
  BY <1>1, SessionInvariant, FaultsBounded, IntactUntilSecondFault, PTL

-----------------------------------------------------------------------------
(* Timeouts.                                                               *)

\* The reading of the clock by which a session is over: it was silent for the whole limit, or it
\* was touched after the clock was read, and the unsigned difference wrapped.
Due(t, lag) ==
    t.age # Never /\ (t.age >= TransferTimeout \/ t.age < lag)

LEMMA CheckTimeoutDue ==
  ASSUME NEW t, t \in Transfers, NEW lag \in Nat,
         CheckTimeout(t, lag).error = "timeout", t.error # "timeout"
  PROVE  Due(t, lag)
<1>1. t.age # Never /\ Elapsed(t.age, lag) >= TransferTimeout
  BY DEF CheckTimeout
<1>2. t.age \in Int /\ TransferTimeout \in Nat
  BY TimeAssumption DEF Transfers, Ages, Never, OldAge
<1> QED
  BY <1>1, <1>2 DEF Due, Elapsed

LEMMA ConsumeBlamesFrame ==
  ASSUME NEW t, t \in Transfers, NEW f, f.kind \in FrameKinds, NEW heap
  PROVE  Consume(t, f, heap).error = "timeout" => t.error = "timeout"
<1> DEFINE v == Touch(t)
           begun == [v EXCEPT !.total = f.n, !.received = 0, !.data = << >>]
<1>1. v.error = t.error /\ begun.error = t.error /\ "error" \in DOMAIN v /\ "error" \in DOMAIN begun
  BY DEF Touch, Transfers
<1>2. \A u, reason : "error" \in DOMAIN u => Fail(u, reason).error = reason
  BY DEF Fail
<1> HIDE DEF begun
<1>3. ConsumeDraining(v, f).error = "timeout" => t.error = "timeout"
  BY <1>1, <1>2 DEF ConsumeDraining
<1>4. ConsumeList(v, f).error = "timeout" => t.error = "timeout"
  BY <1>1, <1>2 DEF ConsumeList
<1>5. ConsumeStart(v, f, heap).error = "timeout" => t.error = "timeout"
  BY <1>1, <1>2 DEF ConsumeStart, begun
<1>6. ConsumeChunk(v, f).error = "timeout" => t.error = "timeout"
  BY <1>1, <1>2 DEF ConsumeChunk
<1>7. Fail(v, "err_").error # "timeout"
  BY <1>1, <1>2
<1> QED
  BY <1>1, <1>3, <1>4, <1>5, <1>6, <1>7 DEF Consume, FrameKinds

\* A timeout is due when it is said, by the clock of the task that says it.
LEMMA StepDue ==
  ASSUME SessionInv, [Next]_vars, TimedOut
  PROVE  \E lag \in 0 .. MaxLag : Due(tr, lag)
<1>1. /\ Sound(tr) /\ tr \in Transfers /\ MaxLag \in Nat
      /\ tr'.error = "timeout" /\ tr.error # "timeout"
  BY TimeAssumption DEF SessionInv, Sound, TimedOut
<1>2. \A v : Reset(v).error = "" /\ NextGeneration(Reset(v)).error = ""
  BY DEF Reset, NewTransfer, NextGeneration
<1>3. tr' \notin {tr, MarkSent(tr), Cancel(tr), ReleaseReservation(tr), CompleteDrain(tr), Aged(tr)}
  <2>1. MarkSent(tr).error = tr.error /\ Aged(tr).error = tr.error
    BY <1>1 DEF MarkSent, Aged, Transfers
  <2>2. [tr EXCEPT !.status = "DRAINING", !.error = ""].error = ""
    BY <1>1 DEF Transfers
  <2>3. tr' \notin {Cancel(tr), ReleaseReservation(tr), CompleteDrain(tr)}
    BY <1>1, <1>2, <2>2 DEF Cancel, ReleaseReservation, CompleteDrain
  <2> QED
    BY <1>1, <2>1, <2>3
<1>4. tr' # AbortReservation(tr, "uart_write_failed")
  BY <1>1 DEF AbortReservation, Fail, Transfers
<1>5. ASSUME NEW p \in Requests PROVE tr' # Reserve(tr, p)
  <2>1. Verdict(tr, p) = "Accepted" => Reserve(tr, p).error = ""
    BY DEF Reserve, Reset, NewTransfer
  <2> QED
    BY <1>1, <2>1 DEF Reserve
<1>6. ASSUME NEW f, f.kind \in FrameKinds, NEW heap PROVE tr' # Consume(tr, f, heap)
  BY <1>1, <1>6, ConsumeBlamesFrame
<1>7. ASSUME NEW lag \in 0 .. MaxLag, tr' \in {Refreshed(tr, lag), CheckTimeout(tr, lag)}
      PROVE  Due(tr, lag)
  <2>1. tr' = CheckTimeout(tr, lag)
    BY <1>1, <1>2, <1>7 DEF Refreshed, ReleaseExpired
  <2> QED
    BY <1>1, <2>1, CheckTimeoutDue
<1> QED
  BY <1>3, <1>4, <1>5, <1>6, <1>7, StepCalls

\* The stamp of the object, when there is one, is as old as the silence.
ClockInv == tr.age \in {Never, quiet}

LEMMA ConsumeStamps ==
  ASSUME NEW t \in Transfers, NEW f, f.kind \in FrameKinds, NEW heap
  PROVE  Consume(t, f, heap).age = 0
<1> DEFINE v == Touch(t)
           begun == [v EXCEPT !.total = f.n, !.received = 0, !.data = << >>]
<1>1. v.age = 0 /\ begun.age = 0 /\ "age" \in DOMAIN v /\ "age" \in DOMAIN begun
  BY DEF Touch, Transfers
<1>2. \A u, reason : Fail(u, reason).age = u.age
  BY DEF Fail
<1> HIDE DEF begun
<1>3. ConsumeDraining(v, f).age = 0
  BY <1>1, <1>2 DEF ConsumeDraining
<1>4. ConsumeList(v, f).age = 0
  BY <1>1, <1>2 DEF ConsumeList
<1>5. ConsumeStart(v, f, heap).age = 0
  BY <1>1, <1>2 DEF ConsumeStart, begun
<1>6. ConsumeChunk(v, f).age = 0
  BY <1>1, <1>2 DEF ConsumeChunk
<1> QED
  BY <1>1, <1>2, <1>3, <1>4, <1>5, <1>6 DEF Consume, FrameKinds

LEMMA ClockKept == ASSUME SessionInv, ClockInv, [Next]_vars PROVE ClockInv'
<1>1. tr \in Transfers /\ quiet \in 0 .. OldAge /\ OldAge \in Nat
  BY TimeAssumption DEF SessionInv, TypeOK, OldAge
<1>2. \A v : Reset(v).age = Never /\ NextGeneration(Reset(v)).age = Never
  BY DEF Reset, NewTransfer, NextGeneration
<1>3. \A u, reason : Fail(u, reason).age = u.age
  BY DEF Fail
<1>4. CASE /\ tr' \in {tr, MarkSent(tr), Cancel(tr), ReleaseReservation(tr),
                       CompleteDrain(tr), AbortReservation(tr, "uart_write_failed")}
           /\ quiet' = quiet
  <2>1. MarkSent(tr).age = tr.age /\ [tr EXCEPT !.status = "DRAINING", !.error = ""].age = tr.age
    BY <1>1 DEF MarkSent, Transfers
  <2>2. \A u \in {Cancel(tr), ReleaseReservation(tr), CompleteDrain(tr),
                  AbortReservation(tr, "uart_write_failed")} : u.age \in {Never, tr.age}
    BY <1>2, <1>3, <2>1 DEF Cancel, ReleaseReservation, CompleteDrain, AbortReservation
  <2> QED
    BY <1>4, <2>1, <2>2 DEF ClockInv
<1>5. ASSUME NEW lag \in 0 .. MaxLag, quiet' = quiet,
             tr' \in {Refreshed(tr, lag), CheckTimeout(tr, lag)}
      PROVE  ClockInv'
  <2>1. CheckTimeout(tr, lag).age = tr.age
    BY <1>3 DEF CheckTimeout
  <2>2. Refreshed(tr, lag).age \in {Never, tr.age}
    BY <1>2, <2>1 DEF Refreshed, ReleaseExpired
  <2> QED
    BY <1>5, <2>1, <2>2 DEF ClockInv
<1>6. CASE tr' = Aged(tr) /\ quiet' = Older(quiet)
  <2>1. Aged(tr).age = Older(tr.age) /\ Older(Never) = Never
    BY <1>1 DEF Aged, Transfers, Older
  <2> QED
    BY <1>6, <2>1 DEF ClockInv
<1>7. ASSUME NEW p \in Requests, tr' = Reserve(tr, p),
             quiet' = IF Verdict(tr, p) = "Accepted" THEN 0 ELSE quiet
      PROVE  ClockInv'
  <2>1. Verdict(tr, p) = "Accepted" => Reserve(tr, p).age = 0
    BY DEF Reserve, Reset, NewTransfer
  <2> QED
    BY <1>7, <2>1 DEF ClockInv, Reserve
<1>8. ASSUME NEW f, NEW heap, f.kind \in FrameKinds, tr' = Consume(tr, f, heap), quiet' = 0
      PROVE  ClockInv'
  BY <1>1, <1>8, ConsumeStamps DEF ClockInv
<1> QED
  BY <1>4, <1>5, <1>6, <1>7, <1>8, StepCalls

\* A slow transfer is not declared dead while it lives, whatever the limit and the delay: every
\* way a session begins or hears the controller renews its deadline, and only the delay between
\* millis() and the mutex can end it early (SsvcLogProtocol.h, touchLocked and checkTimeout).
THEOREM LiveSessionsAreKept == Spec => LiveNotTimedOut
<1>1. Init => ClockInv
  <2>1. NewTransfer.age = Never
    BY DEF NewTransfer
  <2> QED
    BY <2>1 DEF Init, ClockInv
<1>2. SessionInv /\ ClockInv /\ [Next]_vars => ClockInv'
  BY ClockKept
<1>3. SessionInv /\ ClockInv /\ [Next]_vars =>
        [TimedOut => quiet >= TransferTimeout \/ quiet < MaxLag]_vars
  <2> SUFFICES ASSUME SessionInv, ClockInv, [Next]_vars, TimedOut
               PROVE  quiet >= TransferTimeout \/ quiet < MaxLag
    OBVIOUS
  <2>1. PICK lag \in 0 .. MaxLag : Due(tr, lag)
    BY StepDue
  <2>2. quiet \in 0 .. OldAge /\ OldAge \in Nat /\ TransferTimeout \in Nat /\ MaxLag \in Nat
    BY TimeAssumption DEF SessionInv, TypeOK, OldAge
  <2>3. tr.age = quiet
    BY <2>1 DEF Due, ClockInv
  <2> QED
    BY <2>1, <2>2, <2>3 DEF Due
<1> QED
  BY <1>1, <1>2, <1>3, SessionInvariant, PTL DEF Spec, LiveNotTimedOut

=============================================================================
